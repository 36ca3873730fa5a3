---------------------------- MODULE Common_proofs ----------------------------
(***************************************************************************)
(* Four promises of hbb_common, for every value of the constants.          *)
(*                                                                         *)
(* The certificate of a secure connection is verified unless the user      *)
(* allowed otherwise, whatever connections share the cache and however     *)
(* the option and the server change.                                       *)
(*                                                                         *)
(* A device keeps its ID, its key pair and its password over restarts.     *)
(* That a restart brings back what is in memory says nothing of a password *)
(* that this process cannot open, so the invariant follows the password of *)
(* the user through the forms a store may leave it in (PromiseKept), and   *)
(* says at which moments a key pair is in memory alone (KeysInv).          *)
(*                                                                         *)
(* A file that was sent is whole and in its place, and a digest on disk    *)
(* vouches for the download beside it.  Any call on a file may fail, so    *)
(* the history is kept of which files a failure may have harmed, and the   *)
(* invariant speaks of the others.  The blocks that were sent but not      *)
(* written are in the queue: it is one walk through the files (Walk) that  *)
(* begins where the writing job is ready (ReadyAt), or has failed for the  *)
(* file, and ends where the reading job stands (LeadsTo).                  *)
(*                                                                         *)
(* What is decoded is what was framed, and a WebRTC stream is to the peer  *)
(* whose offer it answers.  The items in the receiver's two buffers and on *)
(* the link are one trail (Spans) through the bytes of the stream, from    *)
(* the place where the decoder stands to the end of what was sent, however *)
(* the reads cut it.  What a task, a session or a call refers to is a      *)
(* connection that has been described (RtcInv).                            *)
(***************************************************************************)
EXTENDS MCCommon, SequenceTheorems, WellFoundedInduction, TLAPS

Places == {"idle", "policy", "attempt", "store", "store_policy", "connected"}

Attempts == [kind : Kinds, pc : Places, stack : Stacks, cached : BOOLEAN,
             policy : Policies, first : Policies, allowed : BOOLEAN,
             verified : BOOLEAN, connects : Nat]

TypeInv ==
    /\ permitted \in BOOLEAN /\ swaps \in 0..MaxSwaps
    /\ site \in [stacks : SUBSET Stacks, valid : BOOLEAN]
    /\ remembered \in [stack : Stacks \cup {"unknown"}, policy : Policies]
    /\ caller \in [Callers -> Attempts]

(* A connect begun while the option was off carries the policy "verify"    *)
(* through every fallback: the one it tries and the one it goes back to.   *)
Strict(r) ==
    /\ (r.pc = "attempt" /\ ~r.allowed) => r.policy = "verify" /\ r.first = "verify"
    /\ r.pc \in {"store", "store_policy", "connected"} => r.verified \/ r.allowed

TlsInv == TypeInv /\ \A c \in Callers : Strict(caller[c])

-----------------------------------------------------------------------------
LEMMA TlsInvImplies == TlsInv => TlsIsStrict
  <1> SUFFICES ASSUME TlsInv PROVE TlsIsStrict
      OBVIOUS
  <1>1. \A c \in Callers : caller[c] \in Attempts
      BY DEF TlsInv, TypeInv
  <1>2. TlsTypeOK
      BY <1>1 DEF TlsInv, TypeInv, TlsTypeOK, Attempts, Places
  <1>3. StrictStaysStrict
      BY DEF TlsInv, Strict, StrictStaysStrict
  <1> QED  BY <1>2, <1>3 DEF TlsIsStrict

(* A step of one connect that keeps the option, the server and the types.  *)
LEMMA CallerStep ==
    ASSUME TlsInv, NEW c \in Callers, NEW r \in Attempts, Steps(c, r), Strict(r), Kept,
           remembered' \in [stack : Stacks \cup {"unknown"}, policy : Policies]
    PROVE  TlsInv'
  <1>1. caller' \in [Callers -> Attempts]
      BY DEF TlsInv, TypeInv, Steps
  <1>2. \A d \in Callers : Strict(caller'[d])
      BY DEF TlsInv, TypeInv, Steps
  <1> QED  BY <1>1, <1>2 DEF TlsInv, TypeInv, Kept

(* What an attempt falls back to is another attempt of the same connect,   *)
(* as strict as it was.                                                    *)
LEMMA FallbackIsStrict ==
    ASSUME NEW r \in Attempts, Strict(r), r.pc = "attempt", NEW next \in Fallback(r)
    PROVE  next \in Attempts /\ Strict(next)
  <1>1. CASE next = [r EXCEPT !.policy = "accept"] /\ r.policy = "unknown"
    <2>1. next \in Attempts
        BY <1>1 DEF Attempts, Policies
    <2>2. /\ next.pc = r.pc /\ next.allowed = r.allowed
        BY <1>1 DEF Attempts
    <2> QED  BY <1>1, <2>1, <2>2 DEF Strict
  <1>2. CASE next = [r EXCEPT !.stack = "native", !.policy = r.first]
    <2> DEFINE r1 == [r EXCEPT !.stack = "native"]
    <2>1. r1 \in Attempts /\ r1.pc = r.pc /\ r1.allowed = r.allowed /\ r1.first = r.first
        BY DEF Attempts, Stacks
    <2>2. next = [r1 EXCEPT !.policy = r.first]
        BY <1>2
    <2>3. r.first \in Policies
        BY DEF Attempts
    <2> HIDE DEF r1
    <2>4. /\ next \in Attempts /\ next.pc = r.pc /\ next.allowed = r.allowed
          /\ next.first = r.first /\ next.policy = r.first
        BY <2>1, <2>2, <2>3 DEF Attempts
    <2> QED  BY <2>4 DEF Strict
  <1> QED  BY <1>1, <1>2 DEF Fallback, WsFallback, ProxyFallback

LEMMA FreshIsStrict ==
    ASSUME NEW kind \in Kinds, NEW n \in Nat
    PROVE  Fresh(kind, n) \in Attempts /\ Strict(Fresh(kind, n))
  BY DEF Fresh, Attempts, Places, Stacks, Policies, Strict

LEMMA TlsInvInit == TlsInit => TlsInv
  <1> SUFFICES ASSUME TlsInit PROVE TlsInv
      OBVIOUS
  <1>1. \A c \in Callers : \E kind \in Kinds : caller[c] = Fresh(kind, 0)
      BY DEF TlsInit
  <1>2. \A c \in Callers : caller[c] \in Attempts /\ Strict(caller[c])
      BY <1>1, FreshIsStrict
  <1>3. caller \in [Callers -> Attempts]
      BY <1>2 DEF TlsInit
  <1>4. remembered \in [stack : Stacks \cup {"unknown"}, policy : Policies]
      BY DEF TlsInit, Policies
  <1> QED  BY <1>2, <1>3, <1>4, TlsConstants DEF TlsInit, TlsInv, TypeInv

LEMMA TlsInvStep == TlsInv /\ [TlsNext]_tlsVars => TlsInv'
  <1> SUFFICES ASSUME TlsInv, [TlsNext]_tlsVars PROVE TlsInv'
      OBVIOUS
  <1>1. ASSUME NEW c \in Callers
        PROVE  /\ caller[c] \in Attempts /\ Strict(caller[c])
               /\ caller[c].kind \in Kinds /\ caller[c].connects \in Nat
               /\ caller[c].stack \in Stacks /\ caller[c].policy \in Policies
    <2>1. caller[c] \in Attempts /\ Strict(caller[c])
        BY DEF TlsInv, TypeInv
    <2> QED  BY <2>1 DEF Attempts
  <1>2. remembered \in [stack : Stacks \cup {"unknown"}, policy : Policies]
        /\ permitted \in BOOLEAN
      BY DEF TlsInv, TypeInv
  <1>3. ASSUME NEW c \in Callers, Connect(c) PROVE TlsInv'
    <2> DEFINE r0 == [caller[c] EXCEPT !.pc = "policy"]
               r1 == [r0 EXCEPT !.connects = caller[c].connects + 1]
               r2 == [r1 EXCEPT !.stack = IF remembered.stack = "unknown" THEN "rustls"
                                          ELSE remembered.stack]
               r3 == [r2 EXCEPT !.cached = (remembered.stack # "unknown")]
    <2>1. Steps(c, r3) /\ Kept /\ UNCHANGED remembered
        BY <1>3 DEF Connect, get_cached_tls_type
    <2>2. r0 \in Attempts /\ r0.pc = "policy"
        BY <1>1 DEF Attempts, Places
    <2> HIDE DEF r0
    <2>3. r1 \in Attempts /\ r1.pc = "policy"
        BY <1>1, <2>2 DEF Attempts
    <2> HIDE DEF r1
    <2>4. r2 \in Attempts /\ r2.pc = "policy"
      <3>1. (IF remembered.stack = "unknown" THEN "rustls" ELSE remembered.stack) \in Stacks
          BY <1>2 DEF Stacks
      <3> QED  BY <2>3, <3>1 DEF Attempts
    <2> HIDE DEF r2
    <2>5. r3 \in Attempts /\ r3.pc = "policy"
        BY <2>4 DEF Attempts
    <2> HIDE DEF r3
    <2>6. Strict(r3)
        BY <2>5 DEF Strict
    <2> QED  BY <1>2, <2>1, <2>5, <2>6, CallerStep
  <1>4. ASSUME NEW c \in Callers, ReadPolicy(c) PROVE TlsInv'
    <2> DEFINE policy == get_cached_tls_accept_invalid_cert
               r0 == [caller[c] EXCEPT !.pc = "attempt"]
               r1 == [r0 EXCEPT !.policy = policy]
               r2 == [r1 EXCEPT !.first = policy]
               r3 == [r2 EXCEPT !.allowed = permitted]
    <2>1. Steps(c, r3) /\ Kept /\ UNCHANGED remembered
        BY <1>4 DEF ReadPolicy
    <2>2. policy \in Policies /\ (~permitted => policy = "verify")
        BY <1>2 DEF get_cached_tls_accept_invalid_cert, Policies
    <2> HIDE DEF policy
    <2>3. r0 \in Attempts /\ r0.pc = "attempt"
        BY <1>1 DEF Attempts, Places
    <2> HIDE DEF r0
    <2>4. r1 \in Attempts /\ r1.pc = "attempt" /\ r1.policy = policy
        BY <2>2, <2>3 DEF Attempts
    <2> HIDE DEF r1
    <2>5. r2 \in Attempts /\ r2.pc = "attempt" /\ r2.policy = policy /\ r2.first = policy
        BY <2>2, <2>4 DEF Attempts
    <2> HIDE DEF r2
    <2>6. /\ r3 \in Attempts /\ r3.pc = "attempt" /\ r3.policy = policy /\ r3.first = policy
          /\ r3.allowed = permitted
        BY <1>2, <2>5 DEF Attempts
    <2> HIDE DEF r3
    <2>7. Strict(r3)
        BY <2>2, <2>6 DEF Strict
    <2> QED  BY <1>2, <2>1, <2>6, <2>7, CallerStep
  <1>5. ASSUME NEW c \in Callers, AttemptSucceeds(c) PROVE TlsInv'
    <2> DEFINE v == Verifies(caller[c].policy)
               r0 == [caller[c] EXCEPT !.pc = "store"]
               r1 == [r0 EXCEPT !.verified = v]
    <2>1. Steps(c, r1) /\ Kept /\ UNCHANGED remembered /\ caller[c].pc = "attempt"
        BY <1>5 DEF AttemptSucceeds
    <2>2. v \in BOOLEAN /\ (caller[c].policy = "verify" => v)
        BY DEF Verifies, client_config
    <2> HIDE DEF v
    <2>3. r0 \in Attempts /\ r0.pc = "store" /\ r0.allowed = caller[c].allowed
        BY <1>1 DEF Attempts, Places
    <2> HIDE DEF r0
    <2>4. r1 \in Attempts /\ r1.pc = "store" /\ r1.allowed = caller[c].allowed /\ r1.verified = v
        BY <2>2, <2>3 DEF Attempts
    <2> HIDE DEF r1
    <2>5. Strict(r1)
        BY <1>1, <2>1, <2>2, <2>4 DEF Strict
    <2> QED  BY <1>2, <2>1, <2>4, <2>5, CallerStep
  <1>6. ASSUME NEW c \in Callers, AttemptFails(c) PROVE TlsInv'
    <2>1. CASE Fallback(caller[c]) = {}
        BY <1>1, <1>2, <1>6, <2>1, FreshIsStrict, CallerStep DEF AttemptFails
    <2>2. CASE Fallback(caller[c]) # {}
      <3>1. PICK next \in Fallback(caller[c]) : Steps(c, next)
          BY <1>6, <2>2 DEF AttemptFails
      <3>2. next \in Attempts /\ Strict(next)
          BY <1>1, <1>6, FallbackIsStrict DEF AttemptFails
      <3> QED  BY <1>2, <1>6, <3>1, <3>2, CallerStep DEF AttemptFails
    <2> QED  BY <2>1, <2>2
  <1>7. ASSUME NEW c \in Callers, TimesOut(c) \/ Hangup(c) PROVE TlsInv'
      BY <1>1, <1>2, <1>7, FreshIsStrict, CallerStep DEF TimesOut, Hangup
  <1>8. ASSUME NEW c \in Callers, StoreStack(c) \/ StorePolicy(c) PROVE TlsInv'
    <2>1. remembered' \in [stack : Stacks \cup {"unknown"}, policy : Policies]
        BY <1>1, <1>2, <1>8 DEF StoreStack, StorePolicy, Policies
    <2>2. PICK place \in {"store_policy", "connected"} :
            Steps(c, [caller[c] EXCEPT !.pc = place])
        BY <1>8 DEF StoreStack, StorePolicy
    <2>3. Kept /\ caller[c].pc \in {"store", "store_policy"}
        BY <1>8 DEF StoreStack, StorePolicy
    <2> DEFINE r == [caller[c] EXCEPT !.pc = place]
    <2>4. /\ r \in Attempts /\ r.pc = place /\ r.verified = caller[c].verified
          /\ r.allowed = caller[c].allowed
        BY <1>1 DEF Attempts, Places
    <2> HIDE DEF r
    <2>5. Strict(r)
        BY <1>1, <2>3, <2>4 DEF Strict
    <2> QED  BY <2>1, <2>2, <2>3, <2>4, <2>5, CallerStep DEF r
  <1>9. CASE OptionSwitched
      BY <1>9, TlsConstants DEF OptionSwitched, TlsInv, TypeInv
  <1>10. CASE ServerSwitched
    <2>1. site' \in [stacks : SUBSET Stacks, valid : BOOLEAN]
        BY <1>10 DEF ServerSwitched
    <2> QED  BY <1>10, <2>1, TlsConstants DEF ServerSwitched, TlsInv, TypeInv
  <1>11. CASE UNCHANGED tlsVars
      BY <1>11 DEF tlsVars, TlsInv, TypeInv
  <1> QED  BY <1>3, <1>4, <1>5, <1>6, <1>7, <1>8, <1>9, <1>10, <1>11 DEF TlsNext

(* For every number of callers: a connection whose certificate nobody      *)
(* verified was begun while the user allowed it, whatever the shared cache *)
(* held and whatever it fell back to (tls.rs, websocket.rs, proxy.rs).     *)
THEOREM StrictTheorem == TlsSpec => []TlsIsStrict
  <1>1. TlsSpec => []TlsInv
      BY TlsInvInit, TlsInvStep, PTL DEF TlsSpec
  <1> QED  BY <1>1, TlsInvImplies, PTL
-----------------------------------------------------------------------------
(* The configuration file.  A stored password has one of five forms: none, *)
(* the plain text, the plain text sealed as older versions did, the sealed *)
(* hash of today, and that hash sealed once more by a process that could   *)
(* not open it.                                                            *)
Seal(v, k) == [version |-> v, key |-> k]
Plain(p) == Text("plain", p, Unset)
Hash(p, s) == Text("hash", p, s)
Old(k, p) == [seals |-> <<Seal("00", k)>>, kind |-> "plain", pw |-> p, salt |-> Unset]
Today(k, p, s) == [seals |-> <<Seal("01", k)>>, kind |-> "hash", pw |-> p, salt |-> s]
Wrapped(i, k, p, s) ==
    [seals |-> <<Seal("00", i), Seal("01", k)>>, kind |-> "hash", pw |-> p, salt |-> s]
IdText(id) == Text("id", id, Unset)

(* The keys that open something in the hands of k. *)
Opens(k) == {k.key, k.pair} \ {Unset}

LEMMA Tuples ==
    ASSUME NEW x, NEW y
    PROVE  /\ <<x>> # <<>> /\ <<x, y>> # <<>>
           /\ Head(<<x>>) = x /\ Head(<<x, y>>) = x
           /\ Tail(<<x>>) = <<>> /\ Tail(<<x, y>>) = <<y>>
           /\ <<x>> \o <<>> = <<x>> /\ <<x>> \o <<y>> = <<x, y>>
<1>1. /\ <<x>> \in Seq({x, y}) /\ <<y>> \in Seq({x, y}) /\ <<x, y>> \in Seq({x, y})
      /\ <<>> \in Seq({x, y})
  OBVIOUS
<1>2. Len(<<x>>) = 1 /\ Len(<<y>>) = 1 /\ Len(<<x, y>>) = 2 /\ Len(<<>>) = 0
  OBVIOUS
<1>3. <<x>> # <<>> /\ <<x, y>> # <<>>
  BY <1>2
<1>4. Head(<<x>>) = x /\ Head(<<x, y>>) = x
  OBVIOUS
<1>5. Tail(<<x>>) = <<>>
  <2>1. Tail(<<x>>) \in Seq({x, y}) /\ Len(Tail(<<x>>)) = 0
    BY <1>1, <1>2, <1>3, HeadTailProperties
  <2> QED
    BY <2>1, EmptySeq
<1>6. Tail(<<x, y>>) = <<y>>
  <2>1. /\ Tail(<<x, y>>) \in Seq({x, y}) /\ Len(Tail(<<x, y>>)) = 1
        /\ Tail(<<x, y>>)[1] = <<x, y>>[2]
    BY <1>1, <1>2, <1>3, HeadTailProperties
  <2>2. \A i \in 1..1 : Tail(<<x, y>>)[i] = <<y>>[i]
    BY <2>1
  <2> QED
    BY <2>1, <2>2, <1>1, <1>2, SeqEqual
<1>7. <<x>> \o <<>> = <<x>>
  BY <1>1, ConcatEmptySeq
<1>8. <<x>> \o <<y>> = <<x, y>>
  <2>1. /\ <<x>> \o <<y>> \in Seq({x, y}) /\ Len(<<x>> \o <<y>>) = 2
        /\ (<<x>> \o <<y>>)[1] = x /\ (<<x>> \o <<y>>)[2] = y
    BY <1>1, <1>2, ConcatProperties
  <2>2. \A i \in 1..2 : (<<x>> \o <<y>>)[i] = <<x, y>>[i]
    BY <2>1
  <2> QED
    BY <2>1, <2>2, <1>1, <1>2, SeqEqual
<1> QED
  BY <1>3, <1>4, <1>5, <1>6, <1>7, <1>8

(* What the code finds in each form. *)
LEMMA EmptyForm ==
    /\ IsEmpty(Empty) /\ \A v : ~Starts(Empty, v)
    /\ \A v, k : ~decrypts(Empty, v, k)
    /\ \A k : ~decode_permanent_password_h1(Empty, k)
    /\ Empty.seals = <<>>
BY DEF IsEmpty, Empty, Text, Starts, decrypts, decode_permanent_password_h1

LEMMA PlainForm ==
    ASSUME NEW p
    PROVE  /\ ~IsEmpty(Plain(p)) /\ \A v : ~Starts(Plain(p), v)
           /\ \A v, k : ~decrypts(Plain(p), v, k)
           /\ \A k : ~decode_permanent_password_h1(Plain(p), k)
           /\ Plain(p).kind = "plain" /\ Plain(p).pw = p /\ Plain(p).seals = <<>>
BY DEF IsEmpty, Plain, Text, Starts, decrypts, decode_permanent_password_h1

LEMMA OldForm ==
    ASSUME NEW j, NEW p
    PROVE  /\ ~IsEmpty(Old(j, p))
           /\ Starts(Old(j, p), "00") /\ ~Starts(Old(j, p), "01")
           /\ \A k : decrypts(Old(j, p), "00", k) <=> j \in Opens(k)
           /\ \A k : ~decrypts(Old(j, p), "01", k)
           /\ \A k : ~decode_permanent_password_h1(Old(j, p), k)
           /\ Inner(Old(j, p)) = Plain(p)
           /\ Sealed("00", j, Plain(p)) = Old(j, p)
           /\ Old(j, p).kind = "plain" /\ Old(j, p).seals # <<>>
<1> DEFINE x == Seal("00", j)
<1>1. x.version = "00" /\ x.key = j
  BY DEF Seal
<1> HIDE DEF x
<1>2. /\ Old(j, p) = [seals |-> <<x>>, kind |-> "plain", pw |-> p, salt |-> Unset]
      /\ <<x>> # <<>> /\ Head(<<x>>) = x /\ Tail(<<x>>) = <<>> /\ <<x>> \o <<>> = <<x>>
  BY Tuples DEF Old, x
<1>3. Starts(Old(j, p), "00") /\ ~Starts(Old(j, p), "01") /\ ~IsEmpty(Old(j, p))
  BY <1>1, <1>2 DEF Starts, IsEmpty
<1>4. \A k : decrypts(Old(j, p), "00", k) <=> j \in Opens(k)
  BY <1>1, <1>2, <1>3 DEF decrypts, symmetric_open, Opens
<1>5. \A k : ~decrypts(Old(j, p), "01", k)
  BY <1>3 DEF decrypts
<1>6. \A k : ~decode_permanent_password_h1(Old(j, p), k)
  BY <1>5 DEF decode_permanent_password_h1
<1>7. Inner(Old(j, p)) = Plain(p)
  BY <1>2 DEF Inner, Plain, Text
<1>8. Sealed("00", j, Plain(p)) = Old(j, p)
  <2>1. Sealed("00", j, Plain(p)) = [Plain(p) EXCEPT !.seals = <<x>> \o <<>>]
    BY DEF Sealed, Plain, Text, x, Seal
  <2> QED
    BY <2>1, <1>2 DEF Plain, Text
<1> QED
  BY <1>2, <1>3, <1>4, <1>5, <1>6, <1>7, <1>8

LEMMA TodayForm ==
    ASSUME NEW j, NEW p, NEW s
    PROVE  /\ ~IsEmpty(Today(j, p, s))
           /\ Starts(Today(j, p, s), "01") /\ ~Starts(Today(j, p, s), "00")
           /\ \A k : decrypts(Today(j, p, s), "01", k) <=> j \in Opens(k)
           /\ \A k : ~decrypts(Today(j, p, s), "00", k)
           /\ \A k : decode_permanent_password_h1(Today(j, p, s), k) <=> j \in Opens(k)
           /\ Inner(Today(j, p, s)) = Hash(p, s)
           /\ Sealed("01", j, Hash(p, s)) = Today(j, p, s)
           /\ Today(j, p, s).kind = "hash" /\ Today(j, p, s).pw = p
           /\ Today(j, p, s).salt = s /\ Today(j, p, s).seals # <<>>
<1> DEFINE x == Seal("01", j)
<1>1. x.version = "01" /\ x.key = j
  BY DEF Seal
<1> HIDE DEF x
<1>2. /\ Today(j, p, s) = [seals |-> <<x>>, kind |-> "hash", pw |-> p, salt |-> s]
      /\ <<x>> # <<>> /\ Head(<<x>>) = x /\ Tail(<<x>>) = <<>> /\ <<x>> \o <<>> = <<x>>
  BY Tuples DEF Today, x
<1>3. /\ Starts(Today(j, p, s), "01") /\ ~Starts(Today(j, p, s), "00")
      /\ ~IsEmpty(Today(j, p, s))
  BY <1>1, <1>2 DEF Starts, IsEmpty
<1>4. \A k : decrypts(Today(j, p, s), "01", k) <=> j \in Opens(k)
  BY <1>1, <1>2, <1>3 DEF decrypts, symmetric_open, Opens
<1>5. \A k : ~decrypts(Today(j, p, s), "00", k)
  BY <1>3 DEF decrypts
<1>6. Inner(Today(j, p, s)) = Hash(p, s)
  BY <1>2 DEF Inner, Hash, Text
<1>7. Inner(Today(j, p, s)).seals = <<>> /\ Inner(Today(j, p, s)).kind = "hash"
  BY <1>6 DEF Hash, Text
<1>8. \A k : decode_permanent_password_h1(Today(j, p, s), k) <=> j \in Opens(k)
  BY <1>4, <1>7 DEF decode_permanent_password_h1
<1>9. Sealed("01", j, Hash(p, s)) = Today(j, p, s)
  <2>1. Sealed("01", j, Hash(p, s)) = [Hash(p, s) EXCEPT !.seals = <<x>> \o <<>>]
    BY DEF Sealed, Hash, Text, x, Seal
  <2> QED
    BY <2>1, <1>2 DEF Hash, Text
<1>10. /\ Today(j, p, s).kind = "hash" /\ Today(j, p, s).pw = p
       /\ Today(j, p, s).salt = s /\ Today(j, p, s).seals # <<>>
  BY <1>2
<1> QED
  BY <1>3, <1>4, <1>5, <1>6, <1>8, <1>9, <1>10

LEMMA WrappedForm ==
    ASSUME NEW i, NEW j, NEW p, NEW s
    PROVE  /\ ~IsEmpty(Wrapped(i, j, p, s))
           /\ Starts(Wrapped(i, j, p, s), "00") /\ ~Starts(Wrapped(i, j, p, s), "01")
           /\ \A k : decrypts(Wrapped(i, j, p, s), "00", k) <=> i \in Opens(k)
           /\ \A k : ~decrypts(Wrapped(i, j, p, s), "01", k)
           /\ \A k : ~decode_permanent_password_h1(Wrapped(i, j, p, s), k)
           /\ Inner(Wrapped(i, j, p, s)) = Today(j, p, s)
           /\ Sealed("00", i, Today(j, p, s)) = Wrapped(i, j, p, s)
           /\ Wrapped(i, j, p, s).kind = "hash" /\ Wrapped(i, j, p, s).seals # <<>>
<1> DEFINE x == Seal("00", i)
           y == Seal("01", j)
<1>1. x.version = "00" /\ x.key = i
  BY DEF Seal
<1> HIDE DEF x, y
<1>2. /\ Wrapped(i, j, p, s) = [seals |-> <<x, y>>, kind |-> "hash", pw |-> p, salt |-> s]
      /\ Today(j, p, s) = [seals |-> <<y>>, kind |-> "hash", pw |-> p, salt |-> s]
      /\ <<x, y>> # <<>> /\ Head(<<x, y>>) = x /\ Tail(<<x, y>>) = <<y>>
      /\ <<x>> \o <<y>> = <<x, y>>
  BY Tuples DEF Wrapped, Today, x, y
<1>3. /\ Starts(Wrapped(i, j, p, s), "00") /\ ~Starts(Wrapped(i, j, p, s), "01")
      /\ ~IsEmpty(Wrapped(i, j, p, s))
  BY <1>1, <1>2 DEF Starts, IsEmpty
<1>4. \A k : decrypts(Wrapped(i, j, p, s), "00", k) <=> i \in Opens(k)
  BY <1>1, <1>2, <1>3 DEF decrypts, symmetric_open, Opens
<1>5. \A k : ~decrypts(Wrapped(i, j, p, s), "01", k)
  BY <1>3 DEF decrypts
<1>6. \A k : ~decode_permanent_password_h1(Wrapped(i, j, p, s), k)
  BY <1>5 DEF decode_permanent_password_h1
<1>7. Inner(Wrapped(i, j, p, s)) = Today(j, p, s)
  BY <1>2 DEF Inner
<1>8. Sealed("00", i, Today(j, p, s)) = Wrapped(i, j, p, s)
  <2>1. Sealed("00", i, Today(j, p, s)) = [Today(j, p, s) EXCEPT !.seals = <<x>> \o <<y>>]
    BY <1>2 DEF Sealed, x, Seal
  <2> QED
    BY <2>1, <1>2
<1>9. Wrapped(i, j, p, s).kind = "hash" /\ Wrapped(i, j, p, s).seals # <<>>
  BY <1>2
<1> QED
  BY <1>3, <1>4, <1>5, <1>6, <1>7, <1>8, <1>9

(* An ID in the file is sealed with the key in hand and opens with it. *)
LEMMA IdForm ==
    ASSUME NEW j, NEW id
    PROVE  /\ ~IsEmpty(IdText(id)) /\ ~is_encrypted(IdText(id))
           /\ \A k : decrypts(Sealed("00", j, IdText(id)), "00", k) <=> j \in Opens(k)
           /\ Inner(Sealed("00", j, IdText(id))).pw = id
<1> DEFINE x == Seal("00", j)
           v == Sealed("00", j, IdText(id))
<1>1. x.version = "00" /\ x.key = j
  BY DEF Seal
<1>2. v = [seals |-> <<x>> \o <<>>, kind |-> "id", pw |-> id, salt |-> Unset]
  BY DEF Sealed, IdText, Text, Seal
<1> HIDE DEF x
<1>3. /\ v = [seals |-> <<x>>, kind |-> "id", pw |-> id, salt |-> Unset]
      /\ <<x>> # <<>> /\ Head(<<x>>) = x
  BY <1>2, Tuples
<1> HIDE DEF v
<1>4. Starts(v, "00")
  BY <1>1, <1>3 DEF Starts
<1>5. \A k : decrypts(v, "00", k) <=> j \in Opens(k)
  BY <1>1, <1>3, <1>4 DEF decrypts, symmetric_open, Opens
<1>6. Inner(v).pw = id
  BY <1>3 DEF Inner
<1>7. ~IsEmpty(IdText(id)) /\ ~is_encrypted(IdText(id))
  BY DEF IsEmpty, IdText, Text, is_encrypted, Starts
<1> QED
  BY <1>5, <1>6, <1>7 DEF v

(* With more keys, whatever opened still opens. *)
LEMMA MoreKeysOpen ==
    ASSUME NEW v, NEW ver, NEW k, NEW m, Opens(k) \subseteq Opens(m), decrypts(v, ver, k)
    PROVE  decrypts(v, ver, m)
BY DEF decrypts, symmetric_open, Opens

InForm(v) ==
    \/ v = Empty
    \/ \E p : v = Plain(p)
    \/ \E j, p : v = Old(j, p)
    \/ \E j, p, s : v = Today(j, p, s)
    \/ \E i, j, p, s : v = Wrapped(i, j, p, s)

(* The forms that need no opening before they are used. *)
Clear(v) == v = Empty \/ (\E p : v = Plain(p)) \/ (\E j, p, s : v = Today(j, p, s))

(* A hash is never without its salt. *)
Salted(c) == InForm(c.password) /\ (c.password.kind = "hash" => c.salt # Unset)

InMemory(c) == c = [up |-> c.up, id |-> c.id, enc_id |-> c.enc_id,
                    password |-> c.password, salt |-> c.salt, key |-> c.key]

(* The file d holds the password of c, as it is or under a seal that opens. *)
Mirrors(d, c, k) ==
    /\ d.salt = c.salt
    /\ d.password = c.password \/ (decrypts(d.password, "00", k) /\ Inner(d.password) = c.password)

(* What may lie under a seal of an older version. *)
LEMMA InnerForm ==
    ASSUME NEW v, InForm(v), NEW k, decrypts(v, "00", k)
    PROVE  \/ \E i, p : i \in Opens(k) /\ v = Old(i, p) /\ Inner(v) = Plain(p)
           \/ \E i, j, p, s : /\ i \in Opens(k) /\ v = Wrapped(i, j, p, s)
                              /\ Inner(v) = Today(j, p, s)
<1>1. v # Empty /\ (\A p : v # Plain(p)) /\ (\A j, p, s : v # Today(j, p, s))
  BY EmptyForm, PlainForm, TodayForm
<1>2. CASE \E j, p : v = Old(j, p)
  <2>1. PICK j, p : v = Old(j, p)
    BY <1>2
  <2>2. j \in Opens(k) /\ Inner(v) = Plain(p)
    BY <2>1, OldForm
  <2> QED
    BY <2>1, <2>2
<1>3. CASE \E i, j, p, s : v = Wrapped(i, j, p, s)
  <2>1. PICK i, j, p, s : v = Wrapped(i, j, p, s)
    BY <1>3
  <2>2. i \in Opens(k) /\ Inner(v) = Today(j, p, s)
    BY <2>1, WrappedForm
  <2> QED
    BY <2>1, <2>2
<1> QED
  BY <1>1, <1>2, <1>3 DEF InForm

(* The forms are told apart by what the code finds in them. *)
LEMMA PlainIsNotToday ==
    ASSUME NEW q, NEW j, NEW p, NEW s, Plain(q) = Today(j, p, s)
    PROVE  FALSE
BY PlainForm, TodayForm

LEMMA SameToday ==
    ASSUME NEW i, NEW q, NEW t, NEW j, NEW p, NEW s, Today(i, q, t) = Today(j, p, s)
    PROVE  i = j /\ q = p /\ t = s
<1>1. q = p /\ t = s
  BY TodayForm
<1>2. Today(i, q, t).seals[1].key = i /\ Today(j, p, s).seals[1].key = j
  BY DEF Today, Seal
<1> QED
  BY <1>1, <1>2

(* keep_encrypted_storage_if_plaintext_unchanged. *)
LEMMA KeepsStorage ==
    ASSUME NEW v, NEW w, NEW k, ~IsEmpty(v), ~Starts(v, "00")
    PROVE  \/ /\ keep_encrypted_storage(v, w, k) = w
              /\ decrypts(w, "00", k) /\ Inner(w) = v
           \/ keep_encrypted_storage(v, w, k) = Sealed("00", k.key, v)
BY DEF keep_encrypted_storage, encrypt_str_or_original, is_encrypted

(* A copy with another password and salt. *)
LEMMA PasswordOf ==
    ASSUME NEW c, InMemory(c), NEW v, NEW s
    PROVE  /\ [c EXCEPT !.password = v] = [up |-> c.up, id |-> c.id, enc_id |-> c.enc_id,
                                           password |-> v, salt |-> c.salt, key |-> c.key]
           /\ [c EXCEPT !.password = v, !.salt = s] =
                        [up |-> c.up, id |-> c.id, enc_id |-> c.enc_id,
                         password |-> v, salt |-> s, key |-> c.key]
<1>1. c = [up |-> c.up, id |-> c.id, enc_id |-> c.enc_id,
           password |-> c.password, salt |-> c.salt, key |-> c.key]
  BY DEF InMemory
<1> DEFINE u == c.up  i == c.id  e == c.enc_id  p == c.password  t == c.salt  y == c.key
<1>2. c = [up |-> u, id |-> i, enc_id |-> e, password |-> p, salt |-> t, key |-> y]
  BY <1>1
<1> HIDE DEF u, i, e, p, t, y
<1>3. [c EXCEPT !.password = v] = [up |-> u, id |-> i, enc_id |-> e,
                                           password |-> v, salt |-> t, key |-> y]
  BY <1>2
<1> DEFINE m == [c EXCEPT !.password = v]
<1>4. [c EXCEPT !.password = v, !.salt = s] = [m EXCEPT !.salt = s]
  OBVIOUS
<1>5. m = [up |-> u, id |-> i, enc_id |-> e, password |-> v, salt |-> t, key |-> y]
  BY <1>3
<1> HIDE DEF m
<1>6. [m EXCEPT !.salt = s] = [up |-> u, id |-> i, enc_id |-> e,
                               password |-> v, salt |-> s, key |-> y]
  BY <1>5
<1> QED
  BY <1>3, <1>4, <1>6 DEF u, i, e, p, t, y

(* prepare_config_for_store, by the form of the password. *)
LEMMA PrepareKeeps ==
    ASSUME NEW c, InMemory(c), Salted(c), NEW k
    PROVE  LET q == prepare_config_for_store(c, k) IN
           /\ q.id = c.id /\ q.enc_id = c.enc_id /\ q.key = c.key
           /\ q.password = Empty \/ q.salt = c.salt
           /\ Clear(q.password)
           /\ Clear(c.password) => q.password = c.password /\ q.salt = c.salt
           /\ q.password.kind = "hash" => q.salt # Unset
<1> DEFINE q == prepare_config_for_store(c, k)
<1>1. CASE PasswordInvalid(c, k)
  <2>1. q = [up |-> c.up, id |-> c.id, enc_id |-> c.enc_id,
             password |-> Empty, salt |-> Unset, key |-> c.key]
    BY <1>1, PasswordOf DEF prepare_config_for_store
  <2>2. ~Clear(c.password)
    <3>1. c.password # Empty
      BY <1>1, EmptyForm DEF PasswordInvalid
    <3>2. ASSUME NEW p, c.password = Plain(p) PROVE FALSE
      BY <1>1, <3>2, PlainForm DEF PasswordInvalid
    <3>3. ASSUME NEW j, NEW p, NEW s, c.password = Today(j, p, s) PROVE FALSE
      <4>1. c.salt # Unset
        BY <3>3, TodayForm DEF Salted
      <4> QED
        BY <1>1, <3>3, <4>1, TodayForm DEF PasswordInvalid
    <3> QED
      BY <3>1, <3>2, <3>3 DEF Clear
  <2>3. Clear(Empty) /\ Empty.kind # "hash"
    BY DEF Clear, Empty, Text
  <2> QED
    BY <2>1, <2>2, <2>3
<1>2. CASE ~PasswordInvalid(c, k) /\ decrypts(c.password, "00", k)
  <2>1. q = [up |-> c.up, id |-> c.id, enc_id |-> c.enc_id,
             password |-> Inner(c.password), salt |-> c.salt, key |-> c.key]
    BY <1>2, PasswordOf DEF prepare_config_for_store, validate_or_decrypt
  <2>2. InForm(c.password)
    BY DEF Salted
  <2>3. ~Clear(c.password)
    BY <1>2, EmptyForm, PlainForm, TodayForm DEF Clear
  <2>4. CASE \E i, p : i \in Opens(k) /\ c.password = Old(i, p) /\ Inner(c.password) = Plain(p)
    <3>1. PICK p : Inner(c.password) = Plain(p)
      BY <2>4
    <3>2. Clear(q.password) /\ q.password.kind # "hash"
      BY <2>1, <3>1, PlainForm DEF Clear
    <3> QED
      BY <2>1, <2>3, <3>2
  <2>5. CASE \E i, j, p, s : /\ i \in Opens(k) /\ c.password = Wrapped(i, j, p, s)
                            /\ Inner(c.password) = Today(j, p, s)
    <3>1. PICK i, j, p, s : /\ i \in Opens(k) /\ c.password = Wrapped(i, j, p, s)
                            /\ Inner(c.password) = Today(j, p, s)
      BY <2>5
    <3>2. c.salt # Unset
      BY <3>1, WrappedForm DEF Salted
    <3>3. Clear(q.password)
      BY <2>1, <3>1 DEF Clear
    <3> QED
      BY <2>1, <2>3, <3>2, <3>3
  <2> QED
    BY <1>2, <2>2, <2>4, <2>5, InnerForm
<1>3. CASE ~PasswordInvalid(c, k) /\ ~decrypts(c.password, "00", k)
  <2>1. q = c
    BY <1>3 DEF prepare_config_for_store, validate_or_decrypt
  <2>2. Clear(c.password)
    <3>1. ASSUME NEW j, NEW p, c.password = Old(j, p) PROVE FALSE
      BY <1>3, <3>1, OldForm DEF PasswordInvalid, is_encrypted
    <3>2. ASSUME NEW i, NEW j, NEW p, NEW s, c.password = Wrapped(i, j, p, s) PROVE FALSE
      BY <1>3, <3>2, WrappedForm DEF PasswordInvalid, is_encrypted
    <3> QED
      BY <3>1, <3>2 DEF Clear, Salted, InForm
  <2> QED
    BY <2>1, <2>2 DEF Salted
<1> HIDE DEF q
<1> QED
  BY <1>1, <1>2, <1>3 DEF q

(* Today's password as a store with the keys ks leaves it. *)
TodayIn(v, ks, j, p, s) ==
    \/ v = Today(j, p, s)
    \/ j \notin ks /\ \E i \in ks : v = Wrapped(i, j, p, s)

(* Config::store: whatever is written is in form and opens with the keys   *)
(* in hand; a password that needs no opening is found again, and today's   *)
(* is sealed once more only where it does not open.                        *)
LEMMA StoreKeeps ==
    ASSUME NEW c, InMemory(c), Salted(c), NEW f, InForm(f.password),
           NEW k, k.key # Unset
    PROVE  LET d == Stored(c, f, k) IN
           /\ d.key = c.key
           /\ decrypts(d.enc_id, "00", k) /\ Inner(d.enc_id).pw = c.id
           /\ Salted(d)
           /\ Clear(c.password) => Mirrors(d, c, k)
           /\ \A j, p, s : c.password = Today(j, p, s) =>
                d.salt = c.salt /\ TodayIn(d.password, Opens(k), j, p, s)
<1> DEFINE q == prepare_config_for_store(c, k)
           d == Stored(c, f, k)
           w == StoredPassword(q, f, k)
<1>1. /\ q.id = c.id /\ q.enc_id = c.enc_id /\ q.key = c.key
      /\ q.password = Empty \/ q.salt = c.salt
      /\ Clear(q.password)
      /\ Clear(c.password) => q.password = c.password /\ q.salt = c.salt
      /\ q.password.kind = "hash" => q.salt # Unset
  BY PrepareKeeps
<1>2. d = [password |-> w, salt |-> q.salt, enc_id |-> StoredId(q, k), key |-> q.key]
  BY DEF Stored
<1> HIDE DEF q, d, w
<1>3. d.key = c.key /\ d.salt = q.salt /\ d.password = w /\ d.enc_id = StoredId(q, k)
  BY <1>1, <1>2
<1>4. k.key \in Opens(k)
  BY DEF Opens
<1>5. decrypts(d.enc_id, "00", k) /\ Inner(d.enc_id).pw = c.id
  <2>1. CASE decrypts(q.enc_id, "00", k) /\ Inner(q.enc_id).pw = q.id
    BY <1>1, <1>3, <2>1 DEF StoredId
  <2>2. CASE ~(decrypts(q.enc_id, "00", k) /\ Inner(q.enc_id).pw = q.id)
    <3>1. d.enc_id = Sealed("00", k.key, IdText(q.id))
      BY <1>3, <2>2, IdForm DEF StoredId, encrypt_str_or_original, IdText
    <3> QED
      BY <1>1, <1>4, <3>1, IdForm
  <2> QED
    BY <2>1, <2>2
<1>6. ASSUME q.password = Empty
      PROVE  Salted(d) /\ (Clear(c.password) => Mirrors(d, c, k))
  <2>1. w = Empty
    BY <1>6, EmptyForm DEF StoredPassword, w
  <2>2. Salted(d)
    <3>1. Empty.kind # "hash"
      BY DEF Empty, Text
    <3> QED
      BY <1>3, <2>1, <3>1 DEF Salted, InForm
  <2>3. Clear(c.password) => Mirrors(d, c, k)
    BY <1>1, <1>3, <1>6, <2>1 DEF Mirrors
  <2> QED
    BY <2>2, <2>3
<1>7. ASSUME NEW p, q.password = Plain(p)
      PROVE  Salted(d) /\ (Clear(c.password) => Mirrors(d, c, k))
  <2>1. w = keep_encrypted_storage(Plain(p), f.password, k)
    BY <1>7, PlainForm DEF StoredPassword, w
  <2>2. \/ w = f.password /\ decrypts(w, "00", k) /\ Inner(w) = Plain(p)
        \/ w = Old(k.key, p)
    BY <2>1, PlainForm, KeepsStorage, OldForm
  <2>3. decrypts(w, "00", k) /\ Inner(w) = Plain(p) /\ InForm(w)
    <3>1. CASE w = Old(k.key, p)
      BY <3>1, <1>4, OldForm DEF InForm
    <3> QED
      BY <2>2, <3>1
  <2>4. w.kind # "hash"
    <3>1. CASE \E i, r : i \in Opens(k) /\ w = Old(i, r) /\ Inner(w) = Plain(r)
      BY <3>1, OldForm
    <3>2. CASE \E i, j, r, s : /\ i \in Opens(k) /\ w = Wrapped(i, j, r, s)
                               /\ Inner(w) = Today(j, r, s)
      BY <2>3, <3>2, PlainIsNotToday
    <3> QED
      BY <2>3, <3>1, <3>2, InnerForm
  <2>5. Salted(d)
    BY <1>3, <2>3, <2>4 DEF Salted
  <2>6. Clear(c.password) => Mirrors(d, c, k)
    BY <1>1, <1>3, <1>7, <2>3 DEF Mirrors
  <2> QED
    BY <2>5, <2>6
<1>8. ASSUME NEW j, NEW p, NEW s, q.password = Today(j, p, s)
      PROVE  /\ Salted(d) /\ (Clear(c.password) => Mirrors(d, c, k))
             /\ TodayIn(d.password, Opens(k), j, p, s)
  <2>1. q.salt # Unset
    BY <1>1, <1>8, TodayForm
  <2>2. CASE j \in Opens(k)
    <3>1. w = Today(j, p, s)
      BY <1>8, <2>2, TodayForm DEF StoredPassword, w
    <3> QED
      BY <1>1, <1>3, <1>8, <2>1, <3>1 DEF Salted, InForm, Mirrors, TodayIn
  <2>3. CASE j \notin Opens(k)
    <3>1. w = keep_encrypted_storage(Today(j, p, s), f.password, k)
      BY <1>8, <2>3, TodayForm DEF StoredPassword, w
    <3>2. \/ w = f.password /\ decrypts(w, "00", k) /\ Inner(w) = Today(j, p, s)
          \/ w = Wrapped(k.key, j, p, s)
      BY <3>1, TodayForm, KeepsStorage, WrappedForm
    <3>3. decrypts(w, "00", k) /\ Inner(w) = Today(j, p, s) /\ InForm(w)
      <4>1. CASE w = Wrapped(k.key, j, p, s)
        BY <4>1, <1>4, WrappedForm DEF InForm
      <4> QED
        BY <3>2, <4>1
    <3>4. \E i \in Opens(k) : w = Wrapped(i, j, p, s)
      <4>1. CASE \E i, r : i \in Opens(k) /\ w = Old(i, r) /\ Inner(w) = Plain(r)
        BY <3>3, <4>1, PlainIsNotToday
      <4>2. CASE \E i, l, r, t : /\ i \in Opens(k) /\ w = Wrapped(i, l, r, t)
                                 /\ Inner(w) = Today(l, r, t)
        <5>1. PICK i, l, r, t : /\ i \in Opens(k) /\ w = Wrapped(i, l, r, t)
                                /\ Inner(w) = Today(l, r, t)
          BY <4>2
        <5>2. Today(l, r, t) = Today(j, p, s)
          BY <3>3, <5>1
        <5>3. l = j /\ r = p /\ t = s
          BY <5>2, SameToday
        <5> QED
          BY <5>1, <5>3
      <4> QED
        BY <3>3, <4>1, <4>2, InnerForm
    <3>5. Salted(d)
      BY <1>3, <2>1, <3>3 DEF Salted
    <3>6. Clear(c.password) => Mirrors(d, c, k)
      BY <1>1, <1>3, <1>8, <3>3 DEF Mirrors
    <3> QED
      BY <1>3, <2>3, <3>4, <3>5, <3>6 DEF TodayIn
  <2> QED
    BY <2>2, <2>3
<1>9. ASSUME NEW j, NEW p, NEW s, c.password = Today(j, p, s)
      PROVE  d.salt = c.salt /\ TodayIn(d.password, Opens(k), j, p, s)
  <2>1. Clear(c.password)
    BY <1>9 DEF Clear
  <2>2. q.password = Today(j, p, s) /\ q.salt = c.salt
    BY <1>1, <1>9, <2>1
  <2> QED
    BY <1>3, <1>8, <2>2
<1>10. Salted(d) /\ (Clear(c.password) => Mirrors(d, c, k))
  BY <1>1, <1>6, <1>7, <1>8 DEF Clear
<1> QED
  BY <1>3, <1>5, <1>9, <1>10 DEF d

(* A copy with another ID. *)
LEMMA IdOf ==
    ASSUME NEW c, InMemory(c), NEW x
    PROVE  [c EXCEPT !.id = x] = [up |-> c.up, id |-> x, enc_id |-> c.enc_id,
                                  password |-> c.password, salt |-> c.salt, key |-> c.key]
<1> DEFINE u == c.up  i == c.id  e == c.enc_id  p == c.password  t == c.salt  y == c.key
<1>1. c = [up |-> u, id |-> i, enc_id |-> e, password |-> p, salt |-> t, key |-> y]
  BY DEF InMemory
<1> HIDE DEF u, i, e, p, t, y
<1>2. [c EXCEPT !.id = x] = [up |-> u, id |-> x, enc_id |-> e,
                             password |-> p, salt |-> t, key |-> y]
  BY <1>1
<1> QED
  BY <1>2 DEF u, i, e, p, t, y

(* Config::load: memory holds the password of the file, opened if its      *)
(* outer seal opens.                                                       *)
LEMMA LoadKeeps ==
    ASSUME NEW d, Salted(d), NEW k
    PROVE  LET c == Loaded(d, k) IN
           /\ InMemory(c) /\ c.up = TRUE /\ c.key = d.key /\ c.salt = d.salt
           /\ Salted(c)
           /\ ~NewId(d, k) => c.id = Inner(d.enc_id).pw
           /\ Mirrors(d, c, k)
           /\ Clear(d.password) => c.password = d.password
           /\ decrypts(d.password, "00", k) => c.password = Inner(d.password)
<1> DEFINE raw == [up |-> TRUE, id |-> "", enc_id |-> d.enc_id,
                   password |-> d.password, salt |-> d.salt, key |-> d.key]
           b == IF PasswordInvalid(raw, k) THEN raw ELSE validate_or_decrypt(raw, k)
           id == IF decrypts(d.enc_id, "00", k) THEN Inner(d.enc_id).pw ELSE gen_id
           c == Loaded(d, k)
<1>1. c = [b EXCEPT !.id = id]
  BY DEF Loaded
<1>2. InMemory(raw) /\ raw.password = d.password /\ raw.salt = d.salt /\ raw.key = d.key
      /\ raw.up = TRUE
  BY DEF InMemory
<1>3. ~NewId(d, k) => id = Inner(d.enc_id).pw
  BY DEF NewId
<1> HIDE DEF raw, id, c
<1>4. ~decrypts(d.password, "00", k) => b = raw
  BY <1>2 DEF validate_or_decrypt
<1>5. ASSUME decrypts(d.password, "00", k)
      PROVE  /\ b = [up |-> raw.up, id |-> raw.id, enc_id |-> raw.enc_id,
                     password |-> Inner(d.password), salt |-> raw.salt, key |-> raw.key]
             /\ ~Clear(d.password)
             /\ InForm(Inner(d.password))
             /\ Inner(d.password).kind = "hash" => d.salt # Unset
  <2>1. CASE \E i, p : i \in Opens(k) /\ d.password = Old(i, p) /\ Inner(d.password) = Plain(p)
    <3>1. PICK i, p : d.password = Old(i, p) /\ Inner(d.password) = Plain(p)
      BY <2>1
    <3>2. ~PasswordInvalid(raw, k)
      BY <1>2, <1>5, <3>1, OldForm DEF PasswordInvalid
    <3>3. InForm(Inner(d.password)) /\ Inner(d.password).kind # "hash"
      BY <3>1, PlainForm DEF InForm
    <3>4. b = [raw EXCEPT !.password = Inner(d.password)]
      BY <1>2, <1>5, <3>2 DEF validate_or_decrypt
    <3>5. ~Clear(d.password)
      BY <1>5, EmptyForm, PlainForm, TodayForm DEF Clear
    <3> QED
      BY <1>2, <3>3, <3>4, <3>5, PasswordOf
  <2>2. CASE \E i, j, p, s : /\ i \in Opens(k) /\ d.password = Wrapped(i, j, p, s)
                             /\ Inner(d.password) = Today(j, p, s)
    <3>1. PICK i, j, p, s : /\ d.password = Wrapped(i, j, p, s)
                            /\ Inner(d.password) = Today(j, p, s)
      BY <2>2
    <3>2. ~PasswordInvalid(raw, k)
      BY <1>2, <1>5, <3>1, WrappedForm DEF PasswordInvalid
    <3>3. InForm(Inner(d.password)) /\ d.salt # Unset
      BY <3>1, WrappedForm DEF InForm, Salted
    <3>4. b = [raw EXCEPT !.password = Inner(d.password)]
      BY <1>2, <1>5, <3>2 DEF validate_or_decrypt
    <3>5. ~Clear(d.password)
      BY <1>5, EmptyForm, PlainForm, TodayForm DEF Clear
    <3> QED
      BY <1>2, <3>3, <3>4, <3>5, PasswordOf
  <2> QED
    BY <1>5, <2>1, <2>2, InnerForm DEF Salted
<1> HIDE DEF b
<1>6. /\ InMemory(b) /\ b.up = TRUE /\ b.key = d.key /\ b.salt = d.salt
      /\ Salted(b)
      /\ Mirrors(d, b, k)
      /\ Clear(d.password) => b.password = d.password
      /\ decrypts(d.password, "00", k) => b.password = Inner(d.password)
  <2>1. CASE decrypts(d.password, "00", k)
    <3>1. /\ b.up = TRUE /\ b.key = d.key /\ b.salt = d.salt
          /\ b.password = Inner(d.password) /\ InMemory(b)
      BY <1>2, <1>5, <2>1 DEF InMemory
    <3> QED
      BY <1>5, <2>1, <3>1 DEF Salted, Mirrors
  <2>2. CASE ~decrypts(d.password, "00", k)
    BY <1>2, <1>4, <2>2 DEF Salted, Mirrors
  <2> QED
    BY <2>1, <2>2
<1>7. c = [up |-> b.up, id |-> id, enc_id |-> b.enc_id,
           password |-> b.password, salt |-> b.salt, key |-> b.key]
  BY <1>1, <1>6, IdOf
<1>8. /\ InMemory(c) /\ c.up = b.up /\ c.id = id /\ c.password = b.password
      /\ c.salt = b.salt /\ c.key = b.key
  BY <1>7 DEF InMemory
<1> QED
  BY <1>3, <1>6, <1>8 DEF c, Salted, Mirrors

-----------------------------------------------------------------------------
(* The pair of the device: the one in the file, or the one that the        *)
(* spawned thread has still to write.                                      *)
OwnPair == IF onDisk.key # Unset THEN onDisk.key ELSE cache

(* The keys this device seals with, in this process or in another. *)
Own == ({OwnPair} \ {Unset}) \cup (IF machine = "desktop" THEN {UidKey} ELSE {})

(* A pair is in memory and not in the file only until its thread has run. *)
KeysInv ==
    /\ made \in [keys : 0..MaxKeys, ids : Nat, writes : Nat, starts : Nat]
    /\ cache \in 0..made.keys /\ saver \in 0..made.keys /\ onDisk.key \in 0..made.keys
    /\ ~mem.up => mem = Down /\ cache = Unset /\ saver = Unset /\ ~uid
    /\ mem.up => mem.key = onDisk.key
    /\ saver # Unset => cache = saver /\ onDisk.key = Unset
    /\ cache # Unset /\ saver = Unset => onDisk.key = cache
    /\ mem.up /\ ~uid => cache # Unset
    /\ uid => machine = "desktop"

(* What is in memory is in the file d, for whoever has the keys k. *)
WrittenOf(m, d, k) ==
    /\ decrypts(d.enc_id, "00", k) /\ Inner(d.enc_id).pw = m.id
    /\ Clear(m.password) => Mirrors(d, m, k)

(* The password pw is in the file d as today's hash under a key of the     *)
(* device, which a process without the UID may have sealed with the pair.  *)
FileKeeps(d, pair, own, pw) ==
    /\ d.salt # Unset
    /\ \E j \in own : \/ d.password = Today(j, pw, d.salt)
                      \/ pair # Unset /\ d.password = Wrapped(pair, j, pw, d.salt)
MemoryKeeps(m, d, own, pw) ==
    m.salt = d.salt /\ \E j \in own : m.password = Today(j, pw, m.salt)

PromiseKept ==
    promise # "" /\ ~lostKey =>
        /\ FileKeeps(onDisk, OwnPair, Own, promise)
        /\ mem.up => MemoryKeeps(mem, onDisk, Own, promise)

ConfigInv ==
    /\ machine \in {"desktop", "ohos"} /\ uid \in BOOLEAN /\ lostKey \in BOOLEAN
    /\ promise \in Passwords \cup {""}
    /\ KeysInv
    /\ mem.up \in BOOLEAN /\ InMemory(mem) /\ Salted(mem) /\ Salted(onDisk)
    /\ mem.up => WrittenOf(mem, onDisk, DeviceKeys(uid))
    /\ PromiseKept

(* The key of the UID is none of the pairs. *)
LEMMA UidIsApart == UidKey \in Nat /\ UidKey # Unset /\ UidKey \notin 0..MaxKeys
BY ConfigConstants DEF UidKey, Unset

(* What a running process can open: its pair and, with the UID, the rest. *)
LEMMA RingIs ==
    KeysInv /\ mem.up /\ uid \in BOOLEAN =>
        /\ Opens(DeviceKeys(uid)) = ({OwnPair} \ {Unset}) \cup (IF uid THEN {UidKey} ELSE {})
        /\ DeviceKeys(uid).key # Unset
        /\ DeviceKeys(uid).key \in Own
        /\ Opens(DeviceKeys(uid)) \subseteq Own
        /\ uid => Opens(DeviceKeys(uid)) = Own
        /\ ~uid => Opens(DeviceKeys(uid)) = {OwnPair} /\ OwnPair # Unset
<1> SUFFICES ASSUME KeysInv, mem.up, uid \in BOOLEAN
             PROVE  /\ Opens(DeviceKeys(uid)) =
                         ({OwnPair} \ {Unset}) \cup (IF uid THEN {UidKey} ELSE {})
                    /\ DeviceKeys(uid).key # Unset
                    /\ DeviceKeys(uid).key \in Own
                    /\ Opens(DeviceKeys(uid)) \subseteq Own
                    /\ uid => Opens(DeviceKeys(uid)) = Own
                    /\ ~uid => Opens(DeviceKeys(uid)) = {OwnPair} /\ OwnPair # Unset
  OBVIOUS
<1>1. CASE uid
  <2>1. machine = "desktop"
    BY <1>1 DEF KeysInv
  <2>2. DeviceKeys(uid).key = UidKey /\ DeviceKeys(uid).pair = OwnPair
    BY <1>1 DEF DeviceKeys, OwnPair, KeysInv
  <2> QED
    BY <1>1, <2>1, <2>2, UidIsApart DEF Opens, Own
<1>2. CASE ~uid
  <2>1. cache # Unset /\ OwnPair = cache
    BY <1>2 DEF KeysInv, OwnPair
  <2>2. DeviceKeys(uid).key = OwnPair /\ DeviceKeys(uid).pair = OwnPair
    BY <1>2, <2>1 DEF DeviceKeys, Pair
  <2> QED
    BY <1>2, <2>1, <2>2 DEF Opens, Own
<1> QED
  BY <1>1, <1>2

(* A running process stores c: everything but the promise is kept, and the *)
(* promise is if c keeps it.                                               *)
LEMMA StoreStep ==
    ASSUME ConfigInv, mem.up, NEW c, InMemory(c), Salted(c), c.up = TRUE,
           mem' = c, onDisk' = Stored(c, onDisk, DeviceKeys(uid)),
           KeysInv', OwnPair' = OwnPair, promise' \in Passwords \cup {""},
           UNCHANGED <<machine, uid, lostKey>>,
           promise' # "" /\ ~lostKey =>
               c.salt # Unset /\ \E j \in Own : c.password = Today(j, promise', c.salt)
    PROVE  ConfigInv'
<1> DEFINE k == DeviceKeys(uid)
           d == Stored(c, onDisk, k)
           m == DeviceKeys(uid)'
<1>1. uid \in BOOLEAN /\ KeysInv /\ Salted(onDisk) /\ mem'.up
  BY DEF ConfigInv
<1>2. /\ k.key # Unset /\ Opens(k) \subseteq Own
      /\ Opens(k) = ({OwnPair} \ {Unset}) \cup (IF uid THEN {UidKey} ELSE {})
      /\ uid => Opens(k) = Own
      /\ ~uid => Opens(k) = {OwnPair} /\ OwnPair # Unset
  BY <1>1, RingIs
<1>3. (KeysInv /\ mem.up /\ uid \in BOOLEAN =>
         Opens(DeviceKeys(uid)) = ({OwnPair} \ {Unset}) \cup (IF uid THEN {UidKey} ELSE {}))'
  <2>1. KeysInv /\ mem.up /\ uid \in BOOLEAN =>
         Opens(DeviceKeys(uid)) = ({OwnPair} \ {Unset}) \cup (IF uid THEN {UidKey} ELSE {})
    BY RingIs
  <2> QED
    BY <2>1, RingIs, PTL
<1>4. Opens(m) = Opens(k)
  BY <1>1, <1>2, <1>3, UidIsApart
<1>5. Own' = Own
  BY DEF Own, UidKey
<1> HIDE DEF m
<1>6. InForm(onDisk.password)
  BY <1>1 DEF Salted
<1> HIDE DEF k
<1>7. /\ d.key = c.key
      /\ decrypts(d.enc_id, "00", k) /\ Inner(d.enc_id).pw = c.id
      /\ Salted(d)
      /\ Clear(c.password) => Mirrors(d, c, k)
  BY <1>2, <1>6, StoreKeeps
<1>8. \A j, p, s : c.password = Today(j, p, s) =>
        d.salt = c.salt /\ TodayIn(d.password, Opens(k), j, p, s)
  BY <1>2, <1>6, StoreKeeps
<1> HIDE DEF d
<1>9. onDisk' = d
  BY DEF d, k
<1>10. WrittenOf(c, d, m)
  BY <1>4, <1>7, MoreKeysOpen DEF WrittenOf, Mirrors
<1>11. ASSUME promise' # "", ~lostKey
      PROVE  FileKeeps(d, OwnPair, Own, promise') /\ MemoryKeeps(c, d, Own, promise')
  <2>1. PICK j \in Own : c.password = Today(j, promise', c.salt)
    BY <1>11
  <2>2. c.salt # Unset /\ d.salt = c.salt
    BY <1>8, <1>11, <2>1
  <2>3. TodayIn(d.password, Opens(k), j, promise', c.salt)
    BY <1>8, <2>1
  <2>4. CASE d.password = Today(j, promise', c.salt)
    BY <2>1, <2>2, <2>4 DEF FileKeeps, MemoryKeeps
  <2>5. CASE j \notin Opens(k) /\ \E i \in Opens(k) : d.password = Wrapped(i, j, promise', c.salt)
    <3>1. ~uid
      BY <1>2, <2>1, <2>5
    <3>2. OwnPair # Unset /\ d.password = Wrapped(OwnPair, j, promise', c.salt)
      BY <1>2, <2>5, <3>1
    <3> QED
      BY <2>1, <2>2, <3>2 DEF FileKeeps, MemoryKeeps
  <2> QED
    BY <2>3, <2>4, <2>5 DEF TodayIn
<1>12. PromiseKept'
  BY <1>5, <1>9, <1>11 DEF PromiseKept
<1>13. /\ (machine \in {"desktop", "ohos"} /\ uid \in BOOLEAN /\ lostKey \in BOOLEAN)'
       /\ (mem.up \in BOOLEAN /\ InMemory(mem) /\ Salted(mem) /\ Salted(onDisk))'
  BY <1>7, <1>9 DEF ConfigInv
<1>14. (mem.up => WrittenOf(mem, onDisk, DeviceKeys(uid)))'
  BY <1>9, <1>10 DEF m
<1> QED
  BY <1>12, <1>13, <1>14 DEF ConfigInv

LEMMA MadeFields ==
    ASSUME NEW m \in [keys : 0..MaxKeys, ids : Nat, writes : Nat, starts : Nat]
    PROVE  /\ m.keys \in 0..MaxKeys /\ m.writes + 1 \in Nat
           /\ m.starts + 1 \in Nat /\ m.ids \in Nat /\ m.ids + 1 \in Nat
OBVIOUS

LEMMA UpOf ==
    ASSUME NEW c, InMemory(c), c.up = TRUE
    PROVE  [c EXCEPT !.up = TRUE] = c
<1> DEFINE i == c.id  e == c.enc_id  p == c.password  t == c.salt  y == c.key
<1>1. c = [up |-> TRUE, id |-> i, enc_id |-> e, password |-> p, salt |-> t, key |-> y]
  BY DEF InMemory
<1> HIDE DEF i, e, p, t, y
<1> QED
  BY <1>1

(* The file keeps the pair it has, unless memory has got another. *)
LEMMA StoredKey ==
    ASSUME ConfigInv, mem.up, NEW c, InMemory(c), Salted(c)
    PROVE  Stored(c, onDisk, DeviceKeys(uid)).key = c.key
<1>1. uid \in BOOLEAN /\ KeysInv /\ InForm(onDisk.password)
  BY DEF ConfigInv, Salted
<1>2. DeviceKeys(uid).key # Unset
  BY <1>1, RingIs
<1> QED
  BY <1>1, <1>2, StoreKeeps

(* A call that changes the configuration. *)
LEMMA SavesStep ==
    ASSUME ConfigInv, NEW c, InMemory(c), Salted(c), c.up = TRUE, c.key = mem.key,
           Writes, Saves(c), promise' \in Passwords \cup {""},
           UNCHANGED <<machine, uid, lostKey>>,
           promise' # "" /\ ~lostKey =>
               c.salt # Unset /\ \E j \in Own : c.password = Today(j, promise', c.salt)
    PROVE  ConfigInv'
<1>1. mem.up /\ KeysInv /\ uid \in BOOLEAN
  BY DEF Writes, ConfigInv
<1>2. mem' = c /\ onDisk' = Stored(c, onDisk, DeviceKeys(uid))
  BY UpOf DEF Saves
<1>3. onDisk'.key = onDisk.key /\ mem'.key = onDisk.key /\ mem'.up
  BY <1>1, <1>2, StoredKey DEF KeysInv
<1>4. MadeKeys(uid) = made.keys
  BY <1>1 DEF MadeKeys, Generates, KeysInv
<1>5. /\ made' \in [keys : 0..MaxKeys, ids : Nat, writes : Nat, starts : Nat]
      /\ made'.keys = made.keys
  <2>1. made \in [keys : 0..MaxKeys, ids : Nat, writes : Nat, starts : Nat]
    BY <1>1 DEF KeysInv
  <2>2. made.keys \in 0..MaxKeys /\ made.writes + 1 \in Nat
    BY <2>1, MadeFields
  <2>3. made' = [made EXCEPT !.writes = made.writes + 1, !.keys = made.keys]
    BY <1>4 DEF Writes
  <2> DEFINE w == made.writes + 1
             n == made.keys
  <2>4. made' = [made EXCEPT !.writes = w, !.keys = n] /\ w \in Nat /\ n \in 0..MaxKeys
    BY <2>2, <2>3
  <2> HIDE DEF w, n
  <2>5. /\ made' \in [keys : 0..MaxKeys, ids : Nat, writes : Nat, starts : Nat]
        /\ made'.keys = n
    BY <2>1, <2>2, <2>4
  <2> QED
    BY <2>5 DEF n
<1>6. /\ cache' = IF cache # Unset THEN cache ELSE onDisk.key
      /\ saver' = saver
  BY <1>1 DEF Saves, UsesKeys, Pair, Generates, KeysInv
<1>7. KeysInv'
  BY <1>1, <1>3, <1>5, <1>6 DEF KeysInv
<1>8. OwnPair' = OwnPair
  BY <1>3, <1>6 DEF OwnPair
<1> QED
  BY <1>1, <1>2, <1>7, <1>8, StoreStep

LEMMA SaltOf ==
    ASSUME NEW c, InMemory(c), NEW x
    PROVE  [c EXCEPT !.salt = x] = [up |-> c.up, id |-> c.id, enc_id |-> c.enc_id,
                                    password |-> c.password, salt |-> x, key |-> c.key]
<1> DEFINE u == c.up  i == c.id  e == c.enc_id  p == c.password  t == c.salt  y == c.key
<1>1. c = [up |-> u, id |-> i, enc_id |-> e, password |-> p, salt |-> t, key |-> y]
  BY DEF InMemory
<1> HIDE DEF u, i, e, p, t, y
<1>2. [c EXCEPT !.salt = x] = [up |-> u, id |-> i, enc_id |-> e,
                               password |-> p, salt |-> x, key |-> y]
  BY <1>1
<1> QED
  BY <1>2 DEF u, i, e, p, t, y

LEMMA Running ==
    ASSUME ConfigInv, Writes
    PROVE  mem.up = TRUE /\ InMemory(mem) /\ Salted(mem) /\ KeysInv /\ uid \in BOOLEAN
BY DEF ConfigInv, Writes

LEMMA FreshSalt ==
    ASSUME NEW s
    PROVE  (IF s = Unset THEN 1 ELSE s) # Unset
<1>1. CASE s = Unset
  BY <1>1 DEF Unset
<1>2. CASE s # Unset
  BY <1>2, Zenon
<1> QED
  BY <1>1, <1>2

LEMMA EncodesToday ==
    ASSUME NEW k, NEW p, NEW s
    PROVE  encode_permanent_password(compute_permanent_password_h1(p, s), k) = Today(k.key, p, s)
<1>1. compute_permanent_password_h1(p, s) = Hash(p, s)
  BY DEF compute_permanent_password_h1, Hash
<1> QED
  BY <1>1, TodayForm DEF encode_permanent_password

(* set_permanent_password and set_permanent_password_storage_for_sync: the *)
(* password and the salt become a pair of today's form, or none.           *)
LEMMA PasswordStep ==
    ASSUME ConfigInv, Writes, NEW pw \in Passwords \cup {""}, NEW salt,
           pw # "" => salt # Unset,
           NEW stored, stored = IF pw = "" THEN Empty
                                ELSE encode_permanent_password(
                                       compute_permanent_password_h1(pw, salt), DeviceKeys(uid)),
           NEW c, c = [up |-> mem.up, id |-> mem.id, enc_id |-> mem.enc_id,
                       password |-> stored, salt |-> salt, key |-> mem.key],
           Saves(c), promise' = pw, UNCHANGED <<machine, uid, lostKey>>
    PROVE  ConfigInv'
<1>1. mem.up = TRUE /\ KeysInv /\ uid \in BOOLEAN
  BY Running
<1>2. /\ InMemory(c) /\ c.up = TRUE /\ c.key = mem.key
      /\ c.password = stored /\ c.salt = salt
  BY <1>1 DEF InMemory
<1>3. CASE pw = ""
  <2>1. Salted(c)
    <3>1. Empty.kind # "hash"
      BY DEF Empty, Text
    <3> QED
      BY <1>2, <1>3, <3>1 DEF Salted, InForm
  <2> QED
    BY <1>2, <1>3, <2>1, SavesStep
<1>4. CASE pw # ""
  <2> DEFINE j == DeviceKeys(uid).key
  <2>1. j \in Own
    BY <1>1, RingIs
  <2>2. stored = Today(j, pw, salt)
    BY <1>4, EncodesToday
  <2> HIDE DEF j
  <2>3. Salted(c)
    BY <1>2, <1>4, <2>2 DEF Salted, InForm
  <2>4. c.salt # Unset /\ \E i \in Own : c.password = Today(i, promise', c.salt)
    BY <1>2, <1>4, <2>1, <2>2
  <2> QED
    BY <1>2, <2>3, <2>4, SavesStep
<1> QED
  BY <1>3, <1>4

LEMMA SetPasswordStep ==
    ASSUME ConfigInv, NEW pw \in Passwords \cup {""}, SetPassword(pw)
    PROVE  ConfigInv'
<1> DEFINE fresh == IF mem.salt = Unset THEN 1 ELSE mem.salt
           salt == IF pw = "" THEN mem.salt ELSE fresh
           stored == IF pw = "" THEN Empty
                     ELSE encode_permanent_password(
                            compute_permanent_password_h1(pw, salt), DeviceKeys(uid))
<1>1. fresh # Unset
  BY FreshSalt
<1>2. /\ Writes /\ promise' = pw /\ UNCHANGED <<machine, uid, lostKey>>
      /\ Saves([mem EXCEPT !.password = stored, !.salt = salt])
  BY DEF SetPassword
<1>3. pw # "" => salt # Unset
  <2> HIDE DEF fresh
  <2> QED
    BY <1>1
<1>4. stored = IF pw = "" THEN Empty
               ELSE encode_permanent_password(
                      compute_permanent_password_h1(pw, salt), DeviceKeys(uid))
  OBVIOUS
<1> HIDE DEF salt, stored
<1> DEFINE c == [mem EXCEPT !.password = stored, !.salt = salt]
<1>5. InMemory(mem) /\ Saves(c)
  BY <1>2, Running
<1>6. c = [up |-> mem.up, id |-> mem.id, enc_id |-> mem.enc_id,
           password |-> stored, salt |-> salt, key |-> mem.key]
  BY <1>5, PasswordOf
<1> HIDE DEF c
<1> QED
  BY <1>2, <1>3, <1>4, <1>5, <1>6, PasswordStep

LEMMA SyncPasswordStep ==
    ASSUME ConfigInv, NEW pw \in Passwords \cup {""}, NEW given \in {Unset, 1, 2},
           SyncPassword(pw, given)
    PROVE  ConfigInv'
<1> DEFINE salt == IF given = Unset THEN mem.salt ELSE given
           stored == IF pw = "" THEN Empty
                     ELSE encode_permanent_password(
                            compute_permanent_password_h1(pw, given), DeviceKeys(uid))
<1>1. /\ Writes /\ promise' = pw /\ UNCHANGED <<machine, uid, lostKey>>
      /\ Saves([mem EXCEPT !.password = stored, !.salt = salt])
  BY DEF SyncPassword
<1>2. pw # "" => given # Unset /\ salt = given
  BY DEF SyncPassword
<1>3. stored = IF pw = "" THEN Empty
               ELSE encode_permanent_password(
                      compute_permanent_password_h1(pw, salt), DeviceKeys(uid))
  BY <1>2
<1> HIDE DEF salt, stored
<1> DEFINE c == [mem EXCEPT !.password = stored, !.salt = salt]
<1>4. InMemory(mem) /\ Saves(c)
  BY <1>1, Running
<1>5. c = [up |-> mem.up, id |-> mem.id, enc_id |-> mem.enc_id,
           password |-> stored, salt |-> salt, key |-> mem.key]
  BY <1>4, PasswordOf
<1> HIDE DEF c
<1> QED
  BY <1>1, <1>2, <1>3, <1>4, <1>5, PasswordStep

(* set_salt refuses while the salt belongs to a hash. *)
LEMMA SetSaltStep ==
    ASSUME ConfigInv, NEW salt \in {1, 2}, SetSalt(salt)
    PROVE  ConfigInv'
<1> DEFINE c == [mem EXCEPT !.salt = salt]
<1>1. Writes /\ Saves(c) /\ UNCHANGED <<machine, uid, promise, lostKey>>
  BY DEF SetSalt
<1>2. mem.up = TRUE /\ InMemory(mem) /\ Salted(mem)
  BY <1>1, Running
<1>3. c = [up |-> mem.up, id |-> mem.id, enc_id |-> mem.enc_id,
           password |-> mem.password, salt |-> salt, key |-> mem.key]
  BY <1>2, SaltOf
<1> HIDE DEF c
<1>4. /\ InMemory(c) /\ c.up = TRUE /\ c.key = mem.key
      /\ c.password = mem.password /\ c.salt = salt
  BY <1>2, <1>3 DEF InMemory
<1>5. salt # Unset
  BY DEF Unset
<1>6. Salted(c)
  BY <1>2, <1>4, <1>5 DEF Salted
<1>7. \A j, p, s : mem.password = Today(j, p, s) =>
         ~IsEmpty(mem.password) /\ Starts(mem.password, "01")
  BY TodayForm
<1>8. promise # "" /\ ~lostKey => FALSE
  <2> SUFFICES ASSUME promise # "", ~lostKey PROVE FALSE
    OBVIOUS
  <2>1. PICK j \in Own : mem.password = Today(j, promise, mem.salt)
    BY <1>2 DEF ConfigInv, PromiseKept, MemoryKeeps
  <2>2. mem.salt # Unset
    BY <1>2 DEF ConfigInv, PromiseKept, MemoryKeeps, FileKeeps
  <2>3. ~IsEmpty(mem.password) /\ Starts(mem.password, "01")
    BY <1>7, <2>1
  <2>4. Hashed(DeviceKeys(uid))
    BY <2>3 DEF Hashed
  <2> QED
    BY <2>2, <2>4 DEF SetSalt
<1>9. promise' = promise /\ promise' \in Passwords \cup {""} /\ lostKey' = lostKey
  BY <1>1 DEF ConfigInv
<1> QED
  BY <1>1, <1>4, <1>6, <1>8, <1>9, SavesStep

LEMMA SetIdStep ==
    ASSUME ConfigInv, NEW id, SetId(id)
    PROVE  ConfigInv'
<1> DEFINE c == [mem EXCEPT !.id = id]
<1>1. Writes /\ Saves(c) /\ UNCHANGED <<machine, uid, promise, lostKey>>
  BY DEF SetId
<1>2. mem.up = TRUE /\ InMemory(mem) /\ Salted(mem)
  BY <1>1, Running
<1>3. c = [up |-> mem.up, id |-> id, enc_id |-> mem.enc_id,
           password |-> mem.password, salt |-> mem.salt, key |-> mem.key]
  BY <1>2, IdOf
<1> HIDE DEF c
<1>4. /\ InMemory(c) /\ c.up = TRUE /\ c.key = mem.key
      /\ c.password = mem.password /\ c.salt = mem.salt
  BY <1>2, <1>3 DEF InMemory
<1>5. Salted(c)
  BY <1>2, <1>4 DEF Salted
<1>6. promise' = promise /\ promise' \in Passwords \cup {""} /\ lostKey' = lostKey
  BY <1>1 DEF ConfigInv
<1>7. ASSUME promise' # "", ~lostKey
      PROVE  c.salt # Unset /\ \E j \in Own : c.password = Today(j, promise', c.salt)
  <2>1. FileKeeps(onDisk, OwnPair, Own, promise) /\ MemoryKeeps(mem, onDisk, Own, promise)
    BY <1>2, <1>6, <1>7 DEF ConfigInv, PromiseKept
  <2> QED
    BY <1>4, <1>6, <2>1 DEF FileKeeps, MemoryKeeps
<1> QED
  BY <1>1, <1>4, <1>5, <1>6, <1>7, SavesStep

(* The same facts after a step. *)
LEMMA RingIsNext ==
    ASSUME KeysInv', mem'.up, uid' \in BOOLEAN
    PROVE  Opens(DeviceKeys(uid)') =
             ({OwnPair'} \ {Unset}) \cup (IF uid' THEN {UidKey} ELSE {})
<1>1. KeysInv /\ mem.up /\ uid \in BOOLEAN =>
        Opens(DeviceKeys(uid)) = ({OwnPair} \ {Unset}) \cup (IF uid THEN {UidKey} ELSE {})
  BY RingIs
<1>2. (KeysInv /\ mem.up /\ uid \in BOOLEAN =>
         Opens(DeviceKeys(uid)) = ({OwnPair} \ {Unset}) \cup (IF uid THEN {UidKey} ELSE {}))'
  BY <1>1, RingIs, PTL
<1> QED
  BY <1>2

(* A step that only adds keys to those in hand. *)
LEMMA KeyStep ==
    ASSUME ConfigInv, mem.up, UNCHANGED <<mem, onDisk, machine, promise, lostKey>>,
           KeysInv', uid' \in BOOLEAN, uid => uid', OwnPair # Unset => OwnPair' = OwnPair
    PROVE  ConfigInv'
<1> DEFINE k == DeviceKeys(uid)
           m == DeviceKeys(uid)'
<1>1. KeysInv /\ uid \in BOOLEAN /\ WrittenOf(mem, onDisk, k)
  BY DEF ConfigInv
<1>2. Opens(k) = ({OwnPair} \ {Unset}) \cup (IF uid THEN {UidKey} ELSE {})
  BY <1>1, RingIs
<1>3. Opens(m) = ({OwnPair'} \ {Unset}) \cup (IF uid' THEN {UidKey} ELSE {})
  BY RingIsNext
<1>4. Opens(k) \subseteq Opens(m)
  BY <1>2, <1>3
<1>5. Own \subseteq Own'
  BY DEF Own, UidKey
<1> HIDE DEF k, m
<1>6. WrittenOf(mem, onDisk, m)
  BY <1>1, <1>4, MoreKeysOpen DEF WrittenOf, Mirrors
<1>7. (mem.up => WrittenOf(mem, onDisk, DeviceKeys(uid)))'
  BY <1>6 DEF m
<1>8. PromiseKept'
  <2> SUFFICES ASSUME promise # "", ~lostKey
               PROVE  /\ FileKeeps(onDisk, OwnPair', Own', promise)
                      /\ MemoryKeeps(mem, onDisk, Own', promise)
    BY DEF PromiseKept
  <2>1. FileKeeps(onDisk, OwnPair, Own, promise) /\ MemoryKeeps(mem, onDisk, Own, promise)
    BY DEF ConfigInv, PromiseKept
  <2>2. MemoryKeeps(mem, onDisk, Own', promise)
    BY <1>5, <2>1 DEF MemoryKeeps
  <2>3. FileKeeps(onDisk, OwnPair', Own', promise)
    BY <1>5, <2>1 DEF FileKeeps
  <2> QED
    BY <2>2, <2>3
<1> QED
  BY <1>7, <1>8 DEF ConfigInv

LEMMA UidAppearsStep ==
    ASSUME ConfigInv, UidAppears
    PROVE  ConfigInv'
<1>1. KeysInv'
  BY DEF UidAppears, ConfigInv, KeysInv
<1>2. OwnPair' = OwnPair
  BY DEF UidAppears, OwnPair
<1> QED
  BY <1>1, <1>2, KeyStep DEF UidAppears

LEMMA GetKeyPairStep ==
    ASSUME ConfigInv, GetKeyPair
    PROVE  ConfigInv'
<1>1. /\ KeysInv /\ cache = Unset /\ saver = Unset /\ mem.up /\ uid \in BOOLEAN
      /\ UNCHANGED <<machine, onDisk, mem, uid, promise, lostKey>>
  BY DEF ConfigInv, KeysInv, GetKeyPair
<1>2. made \in [keys : 0..MaxKeys, ids : Nat, writes : Nat, starts : Nat]
  BY <1>1 DEF KeysInv
<1>3. CASE onDisk.key # Unset
  <2>1. cache' = onDisk.key /\ saver' = Unset
    BY <1>1, <1>3 DEF GetKeyPair, Generates, Pair
  <2>2. made' = [made EXCEPT !.keys = made.keys]
    BY <1>1, <1>3 DEF GetKeyPair, Generates
  <2>3. made' = made
    BY <1>2, <2>2
  <2>4. KeysInv'
    BY <1>1, <1>3, <2>1, <2>3 DEF KeysInv
  <2>5. OwnPair' = OwnPair
    BY <1>1, <1>3 DEF OwnPair
  <2> QED
    BY <1>1, <2>4, <2>5, KeyStep
<1>4. CASE onDisk.key = Unset
  <2> DEFINE n == made.keys + 1
  <2>1. cache' = n /\ saver' = n /\ made.keys < MaxKeys
    BY <1>1, <1>4 DEF GetKeyPair, Generates, Pair
  <2>2. made' = [made EXCEPT !.keys = n]
    BY <1>1, <1>4 DEF GetKeyPair, Generates
  <2>3. made.keys \in 0..MaxKeys
    BY <1>2, MadeFields
  <2>4. n \in 0..MaxKeys /\ n # Unset /\ made.keys \in 0..n
    BY <2>1, <2>3, ConfigConstants DEF Unset
  <2> HIDE DEF n
  <2>5. made' \in [keys : 0..MaxKeys, ids : Nat, writes : Nat, starts : Nat] /\ made'.keys = n
    BY <1>2, <2>2, <2>4
  <2>6. KeysInv'
    <3>1. onDisk'.key = Unset /\ Unset \in 0..n /\ n \in 0..n
      BY <1>1, <1>4, <2>4, ConfigConstants DEF Unset
    <3> QED
      BY <1>1, <1>4, <2>1, <2>4, <2>5, <3>1 DEF KeysInv
  <2>7. OwnPair = Unset
    BY <1>1, <1>4 DEF OwnPair
  <2> QED
    BY <1>1, <2>6, <2>7, KeyStep
<1> QED
  BY <1>3, <1>4

(* The thread of get_key_pair: the pair gets into the file. *)
LEMMA SaveKeyStep ==
    ASSUME ConfigInv, SaveKey
    PROVE  ConfigInv'
<1> DEFINE c == [mem EXCEPT !.key = saver]
<1>1. /\ KeysInv /\ mem.up = TRUE /\ uid \in BOOLEAN /\ InMemory(mem) /\ Salted(mem)
      /\ promise \in Passwords \cup {""}
  BY DEF ConfigInv, SaveKey
<1>2. /\ saver # Unset /\ cache = saver /\ onDisk.key = Unset
      /\ mem' = c /\ onDisk' = Stored(c, onDisk, DeviceKeys(uid)) /\ saver' = Unset
      /\ UNCHANGED <<machine, uid, cache, made, promise, lostKey>>
  BY <1>1 DEF SaveKey, KeysInv
<1>3. c = [up |-> mem.up, id |-> mem.id, enc_id |-> mem.enc_id,
           password |-> mem.password, salt |-> mem.salt, key |-> saver]
  <2> DEFINE u == mem.up  i == mem.id  e == mem.enc_id  p == mem.password
             t == mem.salt  y == mem.key
  <2>1. mem = [up |-> u, id |-> i, enc_id |-> e, password |-> p, salt |-> t, key |-> y]
    BY <1>1 DEF InMemory
  <2> HIDE DEF u, i, e, p, t, y
  <2>2. c = [up |-> u, id |-> i, enc_id |-> e, password |-> p, salt |-> t, key |-> saver]
    BY <2>1
  <2> QED
    BY <2>2 DEF u, i, e, p, t, y
<1> HIDE DEF c
<1>4. /\ InMemory(c) /\ c.up = TRUE /\ c.key = saver
      /\ c.password = mem.password /\ c.salt = mem.salt
  BY <1>1, <1>3 DEF InMemory
<1>5. Salted(c)
  BY <1>1, <1>4 DEF Salted
<1>6. onDisk'.key = saver /\ mem'.key = saver /\ mem'.up
  BY <1>1, <1>2, <1>4, <1>5, StoredKey
<1>7. KeysInv'
  BY <1>1, <1>2, <1>6 DEF KeysInv
<1>8. OwnPair' = OwnPair
  BY <1>2, <1>6 DEF OwnPair
<1>9. ASSUME promise' # "", ~lostKey
      PROVE  c.salt # Unset /\ \E j \in Own : c.password = Today(j, promise', c.salt)
  <2>1. FileKeeps(onDisk, OwnPair, Own, promise) /\ MemoryKeeps(mem, onDisk, Own, promise)
    BY <1>1, <1>2, <1>9 DEF ConfigInv, PromiseKept
  <2> QED
    BY <1>2, <1>4, <2>1 DEF FileKeeps, MemoryKeeps
<1> QED
  BY <1>1, <1>2, <1>4, <1>5, <1>7, <1>8, <1>9, StoreStep

(* What is not running holds nothing that is not in the file. *)
LEMMA DieStep ==
    ASSUME ConfigInv, Die
    PROVE  ConfigInv'
<1>1. KeysInv /\ mem.up /\ uid \in BOOLEAN /\ lostKey \in BOOLEAN /\ Salted(onDisk)
  BY DEF ConfigInv, Die
<1>2. /\ mem' = Down /\ uid' = FALSE /\ cache' = Unset /\ saver' = Unset
      /\ UNCHANGED <<machine, onDisk, made, promise>>
      /\ ~lostKey' => ~lostKey /\ saver = Unset
  BY DEF Die
<1>3. /\ Down.up = FALSE /\ InMemory(Down) /\ Down.password = Empty
  BY DEF Down, InMemory
<1>4. Salted(Down)
  <2>1. Empty.kind # "hash"
    BY DEF Empty, Text
  <2> QED
    BY <1>3, <2>1 DEF Salted, InForm
<1>5. Unset \in 0..made.keys
  BY <1>1 DEF KeysInv, Unset
<1>6. KeysInv'
  BY <1>1, <1>2, <1>3, <1>5 DEF KeysInv
<1>7. lostKey' \in BOOLEAN
  BY DEF Die
<1>8. PromiseKept'
  <2> SUFFICES ASSUME promise # "", ~lostKey'
               PROVE  FileKeeps(onDisk, OwnPair', Own', promise)
    BY <1>2, <1>3 DEF PromiseKept
  <2>1. OwnPair' = OwnPair
    BY <1>1, <1>2 DEF KeysInv, OwnPair
  <2>2. Own' = Own
    BY <1>2, <2>1 DEF Own, UidKey
  <2> QED
    BY <1>2, <2>1, <2>2 DEF ConfigInv, PromiseKept
<1> QED
  BY <1>1, <1>2, <1>3, <1>4, <1>6, <1>7, <1>8 DEF ConfigInv

(* The keys a process starts with: the pair of the file, or a new one when *)
(* it has none and the UID is not to be had.                               *)
StartsWith(hasUid) ==
    \/ /\ hasUid \/ onDisk.key # Unset
       /\ cache' = onDisk.key /\ saver' = Unset /\ made'.keys = made.keys
    \/ /\ ~hasUid /\ onDisk.key = Unset
       /\ cache' # Unset /\ saver' = cache' /\ made'.keys = cache'
       /\ cache' = made.keys + 1

LEMMA StartKeys ==
    ASSUME ConfigInv, NEW hasUid \in BOOLEAN, StartProcess(hasUid)
    PROVE  /\ made' \in [keys : 0..MaxKeys, ids : Nat, writes : Nat, starts : Nat]
           /\ StartsWith(hasUid)
<1>1. KeysInv /\ ~mem.up /\ cache = Unset /\ saver = Unset
  BY DEF ConfigInv, KeysInv, StartProcess
<1>2. made \in [keys : 0..MaxKeys, ids : Nat, writes : Nat, starts : Nat]
  BY <1>1 DEF KeysInv
<1>3. /\ made.keys \in 0..MaxKeys /\ made.starts + 1 \in Nat
      /\ made.ids \in Nat /\ made.ids + 1 \in Nat
  BY <1>2, MadeFields
<1> DEFINE w == made.starts + 1
           n == MadeKeys(hasUid)
           i == IF NewId(onDisk, DeviceKeys(hasUid)) THEN made.ids + 1 ELSE made.ids
<1>4. made' = [made EXCEPT !.starts = w, !.keys = n, !.ids = i]
  BY DEF StartProcess
<1>5. UsesKeys(hasUid)
  BY DEF StartProcess
<1>6. w \in Nat /\ i \in Nat
  BY <1>3
<1>7. CASE hasUid \/ onDisk.key # Unset
  <2>1. n = made.keys
    BY <1>7 DEF MadeKeys, Generates
  <2>2. cache' = onDisk.key /\ saver' = Unset
    BY <1>1, <1>5, <1>7 DEF UsesKeys, Pair, Generates
  <2> HIDE DEF w, n, i
  <2>3. made' \in [keys : 0..MaxKeys, ids : Nat, writes : Nat, starts : Nat] /\ made'.keys = n
    BY <1>2, <1>3, <1>4, <1>6, <2>1
  <2> QED
    BY <1>7, <2>1, <2>2, <2>3 DEF StartsWith
<1>8. CASE ~hasUid /\ onDisk.key = Unset
  <2>1. n = made.keys + 1
    BY <1>1, <1>8 DEF MadeKeys, Generates
  <2>2. cache' = made.keys + 1 /\ saver' = made.keys + 1 /\ made.keys < MaxKeys
    BY <1>1, <1>5, <1>8 DEF UsesKeys, Pair, Generates
  <2>3. n \in 0..MaxKeys /\ made.keys + 1 # Unset
    BY <1>3, <2>1, <2>2, ConfigConstants DEF Unset
  <2> HIDE DEF w, n, i
  <2>4. made' \in [keys : 0..MaxKeys, ids : Nat, writes : Nat, starts : Nat] /\ made'.keys = n
    BY <1>2, <1>4, <1>6, <2>3
  <2> QED
    BY <1>8, <2>1, <2>2, <2>3, <2>4 DEF StartsWith
<1> QED
  BY <1>7, <1>8

LEMMA StartRing ==
    ASSUME ConfigInv, NEW hasUid \in BOOLEAN, StartProcess(hasUid)
    PROVE  /\ DeviceKeys(hasUid).key # Unset
           /\ hasUid => Opens(DeviceKeys(hasUid)) = ({onDisk.key} \ {Unset}) \cup {UidKey}
           /\ ~hasUid => Opens(DeviceKeys(hasUid)) = {cache'} /\ cache' # Unset
           /\ ~hasUid /\ onDisk.key # Unset => cache' = onDisk.key
<1>1. KeysInv /\ ~mem.up /\ cache = Unset /\ saver = Unset
  BY DEF ConfigInv, KeysInv, StartProcess
<1>2. StartsWith(hasUid)
  BY StartKeys
<1>3. CASE hasUid
  <2>1. DeviceKeys(hasUid).key = UidKey /\ DeviceKeys(hasUid).pair = onDisk.key
    BY <1>1, <1>3 DEF DeviceKeys
  <2> QED
    BY <1>3, <2>1, UidIsApart DEF Opens
<1>4. CASE ~hasUid
  <2>1. cache' = Pair /\ cache' # Unset
    BY <1>1, <1>2, <1>4 DEF StartsWith, Pair
  <2>2. DeviceKeys(hasUid).key = cache' /\ DeviceKeys(hasUid).pair = cache'
    BY <1>4, <2>1 DEF DeviceKeys
  <2>3. onDisk.key # Unset => cache' = onDisk.key
    BY <1>2, <1>4 DEF StartsWith
  <2> QED
    BY <1>4, <2>1, <2>2, <2>3 DEF Opens
<1> QED
  BY <1>3, <1>4

(* What the first access to CONFIG leaves in memory and in the file. *)
LEMMA StartFile ==
    ASSUME ConfigInv, NEW hasUid \in BOOLEAN, StartProcess(hasUid)
    PROVE  /\ InMemory(mem') /\ mem'.up = TRUE /\ Salted(mem') /\ Salted(onDisk')
           /\ mem'.key = onDisk.key /\ onDisk'.key = onDisk.key
           /\ WrittenOf(mem', onDisk', DeviceKeys(hasUid))
           /\ Clear(onDisk.password) => mem'.password = onDisk.password
           /\ decrypts(onDisk.password, "00", DeviceKeys(hasUid)) =>
                mem'.password = Inner(onDisk.password)
           /\ mem'.salt = onDisk.salt
           /\ \/ onDisk' = onDisk
              \/ \A j, p, s : mem'.password = Today(j, p, s) =>
                   /\ onDisk'.salt = mem'.salt
                   /\ TodayIn(onDisk'.password, Opens(DeviceKeys(hasUid)), j, p, s)
<1> DEFINE k == DeviceKeys(hasUid)
           c == Loaded(onDisk, k)
           d == Stored(c, onDisk, k)
<1>1. k.key # Unset
  BY StartRing
<1>2. Salted(onDisk) /\ InForm(onDisk.password)
  BY DEF ConfigInv, Salted
<1>3. mem' = c /\ onDisk' = IF NewId(onDisk, k) THEN d ELSE onDisk
  BY DEF StartProcess
<1> HIDE DEF k
<1>4. /\ InMemory(c) /\ c.up = TRUE /\ c.key = onDisk.key /\ c.salt = onDisk.salt
      /\ Salted(c)
      /\ ~NewId(onDisk, k) => c.id = Inner(onDisk.enc_id).pw
      /\ Mirrors(onDisk, c, k)
      /\ Clear(onDisk.password) => c.password = onDisk.password
      /\ decrypts(onDisk.password, "00", k) => c.password = Inner(onDisk.password)
  BY <1>2, LoadKeeps
<1> HIDE DEF c
<1>5. /\ d.key = c.key
      /\ decrypts(d.enc_id, "00", k) /\ Inner(d.enc_id).pw = c.id
      /\ Salted(d)
      /\ Clear(c.password) => Mirrors(d, c, k)
  BY <1>1, <1>2, <1>4, StoreKeeps
<1>6. \A j, p, s : c.password = Today(j, p, s) =>
        d.salt = c.salt /\ TodayIn(d.password, Opens(k), j, p, s)
  BY <1>1, <1>2, <1>4, StoreKeeps
<1> HIDE DEF d
<1>7. CASE NewId(onDisk, k)
  <2>1. onDisk' = d /\ mem' = c
    BY <1>3, <1>7
  <2>2. WrittenOf(c, d, k)
    BY <1>5 DEF WrittenOf
  <2>3. \A j, p, s : mem'.password = Today(j, p, s) =>
          onDisk'.salt = mem'.salt /\ TodayIn(onDisk'.password, Opens(k), j, p, s)
    BY <1>6, <2>1
  <2> QED
    BY <1>4, <1>5, <2>1, <2>2, <2>3 DEF k
<1>8. CASE ~NewId(onDisk, k)
  <2>1. onDisk' = onDisk /\ mem' = c
    BY <1>3, <1>8
  <2>2. WrittenOf(c, onDisk, k)
    BY <1>4, <1>8 DEF WrittenOf, NewId
  <2> QED
    BY <1>2, <1>4, <2>1, <2>2 DEF k
<1> QED
  BY <1>7, <1>8

LEMMA StartStep ==
    ASSUME ConfigInv, NEW hasUid \in BOOLEAN, StartProcess(hasUid)
    PROVE  ConfigInv'
<1> DEFINE k == DeviceKeys(hasUid)
           m == DeviceKeys(uid)'
<1>1. /\ KeysInv /\ ~mem.up /\ cache = Unset /\ saver = Unset
      /\ uid' = hasUid /\ (hasUid => machine = "desktop")
      /\ UNCHANGED <<machine, promise, lostKey>>
  BY DEF ConfigInv, KeysInv, StartProcess
<1>2. /\ InMemory(mem') /\ mem'.up = TRUE /\ Salted(mem') /\ Salted(onDisk')
      /\ mem'.key = onDisk.key /\ onDisk'.key = onDisk.key
      /\ WrittenOf(mem', onDisk', k)
  BY StartFile
<1>3. /\ made' \in [keys : 0..MaxKeys, ids : Nat, writes : Nat, starts : Nat]
      /\ StartsWith(hasUid)
  BY StartKeys
<1>4. /\ hasUid => Opens(k) = ({onDisk.key} \ {Unset}) \cup {UidKey}
      /\ ~hasUid => Opens(k) = {cache'} /\ cache' # Unset
      /\ ~hasUid /\ onDisk.key # Unset => cache' = onDisk.key
  BY StartRing
<1>5. KeysInv'
  <2>1. made.keys \in 0..MaxKeys /\ onDisk.key \in 0..made.keys /\ MaxKeys \in Nat
    <3>1. made \in [keys : 0..MaxKeys, ids : Nat, writes : Nat, starts : Nat]
      BY <1>1 DEF KeysInv
    <3>2. made.keys \in 0..MaxKeys
      BY <3>1, MadeFields
    <3>3. onDisk.key \in 0..made.keys
      BY <1>1 DEF KeysInv
    <3> QED
      BY <3>2, <3>3, ConfigConstants
  <2>2. /\ cache' \in 0..made'.keys /\ saver' \in 0..made'.keys
        /\ onDisk'.key \in 0..made'.keys
    <3>1. CASE cache' = onDisk.key /\ saver' = Unset /\ made'.keys = made.keys
      BY <1>2, <2>1, <3>1 DEF Unset
    <3>2. CASE /\ onDisk.key = Unset /\ saver' = cache' /\ made'.keys = cache'
               /\ cache' = made.keys + 1
      <4>1. cache' \in Nat
        BY <2>1, <3>2
      <4> QED
        BY <1>2, <3>2, <4>1 DEF Unset
    <3> QED
      BY <1>3, <3>1, <3>2 DEF StartsWith
  <2>3. saver' # Unset => cache' = saver' /\ onDisk'.key = Unset
    BY <1>2, <1>3 DEF StartsWith
  <2>4. cache' # Unset /\ saver' = Unset => onDisk'.key = cache'
    BY <1>2, <1>3 DEF StartsWith
  <2> QED
    BY <1>1, <1>2, <1>3, <1>4, <2>2, <2>3, <2>4 DEF KeysInv
<1>6. OwnPair' = IF onDisk.key # Unset THEN onDisk.key ELSE cache'
  BY <1>2 DEF OwnPair
<1>7. Opens(m) = ({OwnPair'} \ {Unset}) \cup (IF hasUid THEN {UidKey} ELSE {})
  BY <1>1, <1>2, <1>5, RingIsNext
<1>8. Opens(m) = Opens(k)
  <2>1. CASE hasUid
    <3>1. cache' = onDisk.key
      BY <1>3, <2>1 DEF StartsWith
    <3>2. OwnPair' = onDisk.key
      BY <1>6, <3>1
    <3> QED
      BY <1>4, <1>7, <2>1, <3>2
  <2>2. CASE ~hasUid
    <3>1. OwnPair' = cache'
      BY <1>4, <1>6, <2>2
    <3> QED
      BY <1>4, <1>7, <2>2, <3>1
  <2> QED
    BY <2>1, <2>2
<1>9. Own' = ({OwnPair'} \ {Unset}) \cup (IF machine = "desktop" THEN {UidKey} ELSE {})
  BY <1>1 DEF Own, UidKey
<1>10. Own \subseteq Own' /\ OwnPair = onDisk.key /\ (OwnPair # Unset => OwnPair' = OwnPair)
  <2>1. OwnPair = onDisk.key
    BY <1>1 DEF OwnPair
  <2>2. OwnPair # Unset => OwnPair' = OwnPair
    BY <1>6, <2>1
  <2> QED
    BY <1>9, <2>1, <2>2 DEF Own
<1> HIDE DEF m
<1>11. WrittenOf(mem', onDisk', m)
  <2> HIDE DEF k
  <2> QED
    BY <1>2, <1>8, MoreKeysOpen DEF WrittenOf, Mirrors
<1>12. ASSUME promise # "", ~lostKey
       PROVE  /\ FileKeeps(onDisk', OwnPair', Own', promise)
              /\ MemoryKeeps(mem', onDisk', Own', promise)
  <2> DEFINE pw == promise
             s == onDisk.salt
             ks == Opens(k)
  <2>1. FileKeeps(onDisk, OwnPair, Own, pw)
    BY <1>12 DEF ConfigInv, PromiseKept
  <2>2. mem'.salt = s
    BY StartFile
  <2> HIDE DEF pw, s
  <2>3. PICK j \in Own : \/ onDisk.password = Today(j, pw, s)
                         \/ OwnPair # Unset /\ onDisk.password = Wrapped(OwnPair, j, pw, s)
    BY <2>1 DEF FileKeeps, s
  <2>4. mem'.password = Today(j, pw, s)
    <3>1. CASE onDisk.password = Today(j, pw, s)
      <4>1. Clear(onDisk.password)
        BY <3>1 DEF Clear
      <4> QED
        BY <3>1, <4>1, StartFile
    <3>2. CASE OwnPair # Unset /\ onDisk.password = Wrapped(OwnPair, j, pw, s)
      <4>1. OwnPair \in Opens(k)
        BY <1>4, <1>10, <3>2
      <4> HIDE DEF k
      <4>2. decrypts(onDisk.password, "00", k) /\ Inner(onDisk.password) = Today(j, pw, s)
        BY <3>2, <4>1, WrappedForm
      <4> QED
        BY <4>2, StartFile DEF k
    <3> QED
      BY <2>3, <3>1, <3>2
  <2>5. j \in Own' /\ s # Unset
    BY <1>10, <2>1 DEF FileKeeps, s
  <2>6. CASE onDisk' = onDisk
    <3>1. FileKeeps(onDisk', OwnPair', Own', pw)
      BY <1>10, <2>3, <2>5, <2>6 DEF FileKeeps, s
    <3>2. MemoryKeeps(mem', onDisk', Own', pw)
      BY <2>2, <2>4, <2>5, <2>6 DEF MemoryKeeps, s
    <3> QED
      BY <3>1, <3>2 DEF pw
  <2>7. CASE /\ onDisk'.salt = mem'.salt
             /\ TodayIn(onDisk'.password, ks, j, pw, s)
    <3>1. MemoryKeeps(mem', onDisk', Own', pw)
      BY <2>2, <2>4, <2>5, <2>7 DEF MemoryKeeps
    <3>2. CASE onDisk'.password = Today(j, pw, s)
      BY <2>2, <2>5, <2>7, <3>1, <3>2 DEF FileKeeps, pw
    <3>3. CASE j \notin ks /\ \E i \in ks : onDisk'.password = Wrapped(i, j, pw, s)
      <4>1. ~hasUid
        BY <1>4, <1>10, <3>3, <2>3 DEF Own
      <4>2. OwnPair' = cache' /\ cache' # Unset /\ ks = {cache'}
        BY <1>4, <1>6, <4>1
      <4>3. OwnPair' # Unset /\ onDisk'.password = Wrapped(OwnPair', j, pw, s)
        BY <3>3, <4>2
      <4> QED
        BY <2>2, <2>5, <2>7, <3>1, <4>3 DEF FileKeeps, pw
    <3> QED
      BY <2>7, <3>2, <3>3 DEF TodayIn
  <2>8. \/ onDisk' = onDisk
        \/ onDisk'.salt = mem'.salt /\ TodayIn(onDisk'.password, ks, j, pw, s)
    <3>1. \/ onDisk' = onDisk
          \/ \A i, p, t : mem'.password = Today(i, p, t) =>
               onDisk'.salt = mem'.salt /\ TodayIn(onDisk'.password, ks, i, p, t)
      BY StartFile
    <3> HIDE DEF ks
    <3> QED
      BY <2>4, <3>1
  <2> QED
    BY <2>6, <2>7, <2>8
<1>13. PromiseKept'
  BY <1>1, <1>12 DEF PromiseKept
<1>14. /\ (machine \in {"desktop", "ohos"} /\ uid \in BOOLEAN /\ lostKey \in BOOLEAN)'
       /\ (promise \in Passwords \cup {""})'
       /\ (mem.up \in BOOLEAN /\ InMemory(mem) /\ Salted(mem) /\ Salted(onDisk))'
  BY <1>1, <1>2 DEF ConfigInv
<1>15. (mem.up => WrittenOf(mem, onDisk, DeviceKeys(uid)))'
  BY <1>11 DEF m
<1> QED
  BY <1>5, <1>13, <1>14, <1>15 DEF ConfigInv

LEMMA ConfigInvInductive == ConfigInv /\ [ConfigNext]_configVars => ConfigInv'
<1> SUFFICES ASSUME ConfigInv, [ConfigNext]_configVars PROVE ConfigInv'
  OBVIOUS
<1>1. ASSUME NEW hasUid \in BOOLEAN, StartProcess(hasUid) PROVE ConfigInv'
  BY <1>1, StartStep
<1>2. CASE UidAppears \/ GetKeyPair \/ SaveKey \/ Die
  BY <1>2, UidAppearsStep, GetKeyPairStep, SaveKeyStep, DieStep
<1>3. ASSUME NEW pw \in Passwords \cup {""}, SetPassword(pw) PROVE ConfigInv'
  BY <1>3, SetPasswordStep
<1>4. ASSUME NEW salt \in {1, 2}, SetSalt(salt) PROVE ConfigInv'
  BY <1>4, SetSaltStep
<1>5. ASSUME NEW pw \in Passwords \cup {""}, NEW salt \in {Unset, 1, 2}, SyncPassword(pw, salt)
      PROVE  ConfigInv'
  BY <1>5, SyncPasswordStep
<1>6. CASE SetId("custom")
  BY <1>6, SetIdStep
<1>7. CASE UNCHANGED configVars
  BY <1>7 DEF configVars, ConfigInv, KeysInv, PromiseKept, OwnPair, Own, DeviceKeys, Pair,
              UidKey
<1> QED
  BY <1>1, <1>2, <1>3, <1>4, <1>5, <1>6, <1>7 DEF ConfigNext

LEMMA ConfigInvInit == ConfigInit => ConfigInv
<1> SUFFICES ASSUME ConfigInit PROVE ConfigInv
  OBVIOUS
<1> DEFINE own == IF machine = "ohos" THEN 1 ELSE UidKey
           pw == CHOOSE p \in Passwords : TRUE
<1>1. /\ machine \in {"desktop", "ohos"} /\ onDisk \in ConfigFiles(machine) /\ mem = Down
      /\ uid = FALSE /\ cache = Unset /\ saver = Unset /\ promise = "" /\ lostKey = FALSE
      /\ made = [keys |-> onDisk.key, ids |-> 0, writes |-> 0, starts |-> 0]
  BY DEF ConfigInit
<1>2. \/ onDisk = [password |-> Empty, salt |-> Unset, enc_id |-> Empty, key |-> Unset]
      \/ /\ onDisk.password \in {Empty, Plain(pw), Sealed("00", own, Plain(pw)),
                                 Sealed("01", own, Hash(pw, 1))}
         /\ onDisk.salt = 1 /\ onDisk.key = 1
  BY <1>1 DEF ConfigFiles, Plain, Hash
<1> HIDE DEF own, pw
<1>3. onDisk.key \in 0..MaxKeys
  BY <1>2, ConfigConstants DEF Unset
<1>4. Salted(onDisk)
  <2>1. Empty.kind # "hash" /\ 1 # Unset
    BY DEF Empty, Text, Unset
  <2>2. CASE onDisk.password = Empty
    BY <2>1, <2>2 DEF Salted, InForm
  <2>3. CASE onDisk.password # Empty
    <3>1. onDisk.salt # Unset
      BY <1>2, <2>1, <2>3
    <3>2. onDisk.password \in {Plain(pw), Old(own, pw), Today(own, pw, 1)}
      <4>1. Sealed("00", own, Plain(pw)) = Old(own, pw)
        BY OldForm
      <4>2. Sealed("01", own, Hash(pw, 1)) = Today(own, pw, 1)
        BY TodayForm
      <4> QED
        BY <1>2, <2>3, <4>1, <4>2
    <3>3. InForm(onDisk.password)
      BY <3>2 DEF InForm
    <3> QED
      BY <3>1, <3>3 DEF Salted
  <2> QED
    BY <2>2, <2>3
<1>5. Down.up = FALSE /\ InMemory(Down) /\ Down.password = Empty
  BY DEF Down, InMemory
<1>6. Salted(Down)
  <2>1. Empty.kind # "hash"
    BY DEF Empty, Text
  <2> QED
    BY <1>5, <2>1 DEF Salted, InForm
<1>7. KeysInv
  <2>1. made.keys = onDisk.key
    BY <1>1
  <2>2. made \in [keys : 0..MaxKeys, ids : Nat, writes : Nat, starts : Nat]
    BY <1>1, <1>3
  <2>3. Unset \in 0..onDisk.key /\ onDisk.key \in 0..onDisk.key
    BY <1>3, ConfigConstants DEF Unset
  <2> QED
    BY <1>1, <1>5, <2>1, <2>2, <2>3 DEF KeysInv
<1> QED
  BY <1>1, <1>4, <1>5, <1>6, <1>7 DEF ConfigInv, PromiseKept

LEMMA FormLength ==
    ASSUME NEW v, InForm(v)
    PROVE  Len(v.seals) <= 2
<1>1. CASE v = Empty \/ \E p : v = Plain(p)
  <2>1. v.seals = <<>>
    BY <1>1, EmptyForm, PlainForm
  <2> QED
    BY <2>1
<1>2. CASE \E j, p : v = Old(j, p)
  <2>1. PICK j, p : v = Old(j, p)
    BY <1>2
  <2>2. v.seals = <<Seal("00", j)>>
    BY <2>1 DEF Old
  <2> QED
    BY <2>2
<1>3. CASE \E j, p, s : v = Today(j, p, s)
  <2>1. PICK j, p, s : v = Today(j, p, s)
    BY <1>3
  <2>2. v.seals = <<Seal("01", j)>>
    BY <2>1 DEF Today
  <2> QED
    BY <2>2
<1>4. CASE \E i, j, p, s : v = Wrapped(i, j, p, s)
  <2>1. PICK i, j, p, s : v = Wrapped(i, j, p, s)
    BY <1>4
  <2>2. v.seals = <<Seal("00", i), Seal("01", j)>>
    BY <2>1 DEF Wrapped
  <2> QED
    BY <2>2
<1> QED
  BY <1>1, <1>2, <1>3, <1>4 DEF InForm

(* A password in the clear that accepts pw, with the keys ks. *)
Fits(v, salt, ks, pw) ==
    \/ v = Empty /\ pw = ""
    \/ v = Plain(pw)
    \/ salt # Unset /\ \E j \in ks : v = Today(j, pw, salt)

(* A password that would be accepted needs no opening first. *)
LEMMA AcceptedIsClear ==
    ASSUME NEW c, Salted(c), NEW k, NEW pw, Accepts(c, k, pw)
    PROVE  Fits(c.password, c.salt, Opens(k), pw)
<1>1. InForm(c.password)
  BY DEF Salted
<1>2. ASSUME c.password = Empty PROVE Fits(c.password, c.salt, Opens(k), pw)
  <2>1. Empty.kind # "plain"
    BY DEF Empty, Text
  <2>2. pw = ""
    BY <1>2, <2>1, EmptyForm DEF Accepts
  <2> QED
    BY <1>2, <2>2 DEF Fits
<1>3. ASSUME NEW p, c.password = Plain(p) PROVE Fits(c.password, c.salt, Opens(k), pw)
  <2>1. /\ ~IsEmpty(c.password) /\ ~decode_permanent_password_h1(c.password, k)
        /\ c.password.pw = p
    BY <1>3, PlainForm
  <2>2. pw = p
    BY <2>1 DEF Accepts
  <2> QED
    BY <1>3, <2>2 DEF Fits
<1>4. ASSUME NEW j, NEW p, c.password = Old(j, p) PROVE FALSE
  <2>1. /\ ~IsEmpty(c.password) /\ ~decode_permanent_password_h1(c.password, k)
        /\ c.password.seals # <<>>
    BY <1>4, OldForm
  <2> QED
    BY <2>1 DEF Accepts
<1>5. ASSUME NEW i, NEW j, NEW p, NEW s, c.password = Wrapped(i, j, p, s) PROVE FALSE
  <2>1. /\ ~IsEmpty(c.password) /\ ~decode_permanent_password_h1(c.password, k)
        /\ c.password.seals # <<>>
    BY <1>5, WrappedForm
  <2> QED
    BY <2>1 DEF Accepts
<1>6. ASSUME NEW j, NEW p, NEW s, c.password = Today(j, p, s)
      PROVE  Fits(c.password, c.salt, Opens(k), pw)
  <2>1. ~IsEmpty(c.password) /\ c.password.seals # <<>>
    BY <1>6, TodayForm
  <2>2. /\ decode_permanent_password_h1(c.password, k) /\ c.salt # Unset
        /\ Inner(c.password) = compute_permanent_password_h1(pw, c.salt)
    BY <2>1 DEF Accepts
  <2>3. j \in Opens(k) /\ Inner(c.password) = Hash(p, s)
    BY <1>6, <2>2, TodayForm
  <2>4. p = pw /\ s = c.salt
    BY <2>2, <2>3 DEF compute_permanent_password_h1, Hash, Text
  <2> QED
    BY <1>6, <2>2, <2>3, <2>4 DEF Fits
<1> QED
  BY <1>1, <1>2, <1>3, <1>4, <1>5, <1>6 DEF InForm

(* And the other way round. *)
LEMMA ClearIsAccepted ==
    ASSUME NEW c, NEW k, NEW pw, Fits(c.password, c.salt, Opens(k), pw)
    PROVE  Accepts(c, k, pw)
<1>1. ASSUME c.password = Empty, pw = "" PROVE Accepts(c, k, pw)
  BY <1>1, EmptyForm DEF Accepts
<1>2. ASSUME c.password = Plain(pw) PROVE Accepts(c, k, pw)
  <2>1. c.password.seals = <<>> /\ c.password.kind = "plain" /\ c.password.pw = pw
    BY <1>2, PlainForm
  <2> QED
    BY <2>1 DEF Accepts
<1>3. ASSUME NEW j \in Opens(k), c.password = Today(j, pw, c.salt), c.salt # Unset
      PROVE  Accepts(c, k, pw)
  <2>1. /\ decode_permanent_password_h1(c.password, k)
        /\ Inner(c.password) = Hash(pw, c.salt)
    BY <1>3, TodayForm
  <2>2. Hash(pw, c.salt) = compute_permanent_password_h1(pw, c.salt)
    BY DEF Hash, compute_permanent_password_h1
  <2> QED
    BY <1>3, <2>1, <2>2 DEF Accepts
<1> QED
  BY <1>1, <1>2, <1>3 DEF Fits

(* A restart with the keys t brings back what is in memory. *)
LEMMA LoadsTheSame ==
    ASSUME NEW m, Salted(m), NEW d, Salted(d), NEW k, NEW t, WrittenOf(m, d, k),
           Opens(k) \subseteq Opens(t)
    PROVE  /\ ~NewId(d, t) /\ Loaded(d, t).id = m.id
           /\ \A pw : Accepts(m, k, pw) => Accepts(Loaded(d, t), t, pw)
<1> DEFINE b == Loaded(d, t)
<1>1. /\ ~NewId(d, t) => b.id = Inner(d.enc_id).pw
      /\ b.salt = d.salt
      /\ Clear(d.password) => b.password = d.password
      /\ decrypts(d.password, "00", t) => b.password = Inner(d.password)
  BY LoadKeeps
<1> HIDE DEF b
<1>2. ~NewId(d, t) /\ b.id = m.id
  <2>1. decrypts(d.enc_id, "00", t)
    BY MoreKeysOpen DEF WrittenOf
  <2> QED
    BY <1>1, <2>1 DEF WrittenOf, NewId
<1>3. ASSUME NEW pw, Accepts(m, k, pw) PROVE Accepts(b, t, pw)
  <2>1. Fits(m.password, m.salt, Opens(k), pw)
    BY <1>3, AcceptedIsClear
  <2>2. Clear(m.password)
    BY <2>1 DEF Fits, Clear
  <2>3. Mirrors(d, m, k)
    BY <2>2 DEF WrittenOf
  <2>4. b.password = m.password /\ b.salt = m.salt
    <3>1. CASE d.password = m.password
      BY <1>1, <2>2, <2>3, <3>1 DEF Mirrors
    <3>2. CASE decrypts(d.password, "00", k) /\ Inner(d.password) = m.password
      <4>1. decrypts(d.password, "00", t)
        BY <3>2, MoreKeysOpen
      <4> QED
        BY <1>1, <2>3, <3>2, <4>1 DEF Mirrors
    <3> QED
      BY <2>3, <3>1, <3>2 DEF Mirrors
  <2>5. Fits(b.password, b.salt, Opens(t), pw)
    BY <2>1, <2>4 DEF Fits
  <2> QED
    BY <2>5, ClearIsAccepted
<1> QED
  BY <1>2, <1>3 DEF b

LEMMA ConfigInvImplies == ConfigInv => ConfigTypeOK /\ RestartIsTheSame /\ PasswordSurvives
<1> SUFFICES ASSUME ConfigInv PROVE ConfigTypeOK /\ RestartIsTheSame /\ PasswordSurvives
  OBVIOUS
<1>1. /\ KeysInv /\ uid \in BOOLEAN /\ InForm(onDisk.password) /\ InForm(mem.password)
      /\ Salted(onDisk) /\ Salted(mem)
  BY DEF ConfigInv, Salted
<1>2. ConfigTypeOK
  <2>1. made \in [keys : 0..MaxKeys, ids : Nat, writes : Nat, starts : Nat]
    BY <1>1 DEF KeysInv
  <2>2. made.keys \in 0..MaxKeys
    BY <2>1, MadeFields
  <2>3. cache \in 0..made.keys /\ saver \in 0..made.keys /\ onDisk.key \in 0..made.keys
    BY <1>1 DEF KeysInv
  <2>4. cache \in 0..MaxKeys /\ saver \in 0..MaxKeys /\ onDisk.key \in 0..MaxKeys
    BY <2>2, <2>3, ConfigConstants
  <2>5. Len(onDisk.password.seals) <= 2 /\ Len(mem.password.seals) <= 2
    BY <1>1, FormLength
  <2> QED
    BY <2>4, <2>5 DEF ConfigInv, ConfigTypeOK
<1>3. RestartIsTheSame
  <2> SUFFICES ASSUME mem.up, saver = Unset, NEW hasUid \in {uid, machine = "desktop"}
               PROVE  LET now == DeviceKeys(uid)
                          then == IF hasUid THEN [key |-> UidKey, pair |-> onDisk.key]
                                  ELSE [key |-> onDisk.key, pair |-> onDisk.key]
                          back == Loaded(onDisk, then)
                      IN  /\ cache # Unset => onDisk.key = cache
                          /\ ~NewId(onDisk, then) /\ back.id = mem.id
                          /\ \A pw \in Passwords : Accepts(mem, now, pw) => Accepts(back, then, pw)
    BY DEF RestartIsTheSame
  <2> DEFINE now == DeviceKeys(uid)
             then == IF hasUid THEN [key |-> UidKey, pair |-> onDisk.key]
                     ELSE [key |-> onDisk.key, pair |-> onDisk.key]
             back == Loaded(onDisk, then)
  <2>1. OwnPair = onDisk.key /\ (cache # Unset => onDisk.key = cache)
    BY <1>1 DEF KeysInv, OwnPair
  <2>2. uid => hasUid
    BY <1>1 DEF KeysInv
  <2>3. Opens(now) = ({onDisk.key} \ {Unset}) \cup (IF uid THEN {UidKey} ELSE {})
    BY <1>1, <2>1, RingIs
  <2>4. Opens(then) = ({onDisk.key} \ {Unset}) \cup (IF hasUid THEN {UidKey} ELSE {})
    BY UidIsApart DEF Opens
  <2>5. Opens(now) \subseteq Opens(then)
    BY <2>2, <2>3, <2>4
  <2>6. WrittenOf(mem, onDisk, now)
    BY DEF ConfigInv
  <2> HIDE DEF now, then
  <2>7. /\ ~NewId(onDisk, then) /\ back.id = mem.id
        /\ \A pw : Accepts(mem, now, pw) => Accepts(back, then, pw)
    BY <1>1, <2>5, <2>6, LoadsTheSame
  <2> QED
    BY <2>1, <2>7 DEF now, then
<1>4. \A j, p, s, k : mem.password = Today(j, p, s) /\ j \in Opens(k) =>
        ~IsEmpty(mem.password) /\ decode_permanent_password_h1(mem.password, k)
  BY TodayForm
<1>5. PasswordSurvives
  <2> SUFFICES ASSUME mem.up, promise # "", uid \/ machine = "ohos", ~lostKey
               PROVE  /\ UsableForAuth(mem, DeviceKeys(uid))
                      /\ Accepts(mem, DeviceKeys(uid), promise)
    BY DEF PasswordSurvives
  <2> DEFINE k == DeviceKeys(uid)
             pw == promise
  <2>1. FileKeeps(onDisk, OwnPair, Own, pw) /\ MemoryKeeps(mem, onDisk, Own, pw)
    BY DEF ConfigInv, PromiseKept
  <2>2. Own \subseteq Opens(k)
    <3>1. CASE uid
      BY <1>1, <3>1, RingIs
    <3>2. CASE ~uid
      <4>1. machine = "ohos" /\ Opens(k) = {OwnPair}
        BY <1>1, <3>2, RingIs
      <4> QED
        BY <4>1 DEF Own
    <3> QED
      BY <3>1, <3>2
  <2> HIDE DEF k, pw
  <2>3. PICK j \in Own : mem.password = Today(j, pw, mem.salt)
    BY <2>1 DEF MemoryKeeps
  <2>4. mem.salt # Unset /\ j \in Opens(k)
    BY <2>1, <2>2 DEF FileKeeps, MemoryKeeps
  <2>5. Accepts(mem, k, pw)
    <3>1. Fits(mem.password, mem.salt, Opens(k), pw)
      BY <2>3, <2>4 DEF Fits
    <3> QED
      BY <3>1, ClearIsAccepted
  <2>6. ~IsEmpty(mem.password) /\ decode_permanent_password_h1(mem.password, k)
    BY <1>4, <2>3, <2>4
  <2>7. UsableForAuth(mem, k)
    BY <2>4, <2>6 DEF UsableForAuth
  <2> QED
    BY <2>5, <2>7 DEF k, pw
<1> QED
  BY <1>2, <1>3, <1>5

(* However often the process dies, whether or not the machine gives its    *)
(* UID, and whatever is set in between: a restart brings back the ID, the  *)
(* key pair and the password in use, and the password the user set last    *)
(* opens the device, unless a key pair died before it was written          *)
(* (config.rs, load, store, get_key_pair; password_security.rs).           *)
THEOREM IdentityTheorem == ConfigSpec => [](RestartIsTheSame /\ PasswordSurvives)
BY ConfigInvInit, ConfigInvInductive, ConfigInvImplies, PTL DEF ConfigSpec

LEMMA PartConfig ==
    ASSUME part = "config" => ConfigInv,
           [Next]_<<part, framingVars, rtcVars, tlsVars, transferVars, configVars>>
    PROVE  (part = "config" => ConfigInv)'
<1>1. CASE part # "config"
  BY <1>1 DEF Next
<1>2. CASE part = "config" /\ Next
  <2>1. ConfigNext
    BY <1>2 DEF Next
  <2> QED
    BY <1>2, <2>1, ConfigInvInductive
<1>3. CASE UNCHANGED <<part, framingVars, rtcVars, tlsVars, transferVars, configVars>>
  <2>1. part' = part /\ UNCHANGED configVars
    BY <1>3
  <2> QED
    BY <2>1, ConfigInvInductive
<1> QED
  BY <1>1, <1>2, <1>3

(* The same of the library as a whole, whose parts share no state: for     *)
(* every set of passwords and any number of keys, writes and starts        *)
(* (config.rs, load, store; password_security.rs).                         *)
THEOREM SurvivalTheorem == Spec => []ConfigSurvives
<1>1. Init => (part = "config" => ConfigInv)
  BY ConfigInvInit DEF Init
<1>2. (part = "config" => ConfigInv)
      /\ [Next]_<<part, framingVars, rtcVars, tlsVars, transferVars, configVars>>
      => (part = "config" => ConfigInv)'
  BY PartConfig
<1>3. (part = "config" => ConfigInv) => ConfigSurvives
  BY ConfigInvImplies DEF ConfigSurvives
<1> QED
  BY <1>1, <1>2, <1>3, PTL DEF Spec

-----------------------------------------------------------------------------
(* The file transfer *)

Bytes == Seq(Nat \X Nat)
DiskFiles == [path : Bytes, download : Bytes, digest : Absent..MaxVersion]
FileNums == 1..(Len(Sizes) + 1)

(* The first k blocks of version v of a file. *)
Part(v, k) == [i \in 1..k |-> <<v, i>>]

Blocks == [kind : {"block"}, file_num : Files, data : Bytes]
Errors == [kind : {"error"}, file_num : FileNums]
Dones == [kind : {"done"}, file_num : FileNums]
Digests == [kind : {"digest"}, file_num : Files, digest : Versions]
Messages == Blocks \cup Errors \cup Dones \cup Digests
Replies == [file_num : Files, skip : BOOLEAN, offset : Nat]

(* A block is one of its file's, or the end. *)
Shaped(m) ==
    m.kind = "block" => m.data = <<>> \/ \E i \in 1..Sizes[m.file_num], v \in Versions :
                                           m.data = << <<v, i>> >>

(* What arrives of a file is of its version as it is now: it has not been   *)
(* changed in this attempt, or was last announced as it is now.             *)
Known(f, ver, w, h) == f \notin h.changed \/ w.digest = ver[f]

(* A message says the truth about the source. *)
Truthful(m, ver, w, h) ==
    /\ m.kind = "digest" =>
         /\ m.digest <= ver[m.file_num]
         /\ m.file_num \notin h.changed => m.digest = ver[m.file_num]
    /\ m.kind = "block" /\ m.data # <<>> /\ Known(m.file_num, ver, w, h)
         => m.data[1][1] = ver[m.file_num]

EndOf(m) == m.kind = "block" /\ m.data = <<>>

(* How many blocks of its file are ahead of a message, and where the        *)
(* reading job stands once it has sent it.                                  *)
PosBefore(m) ==
    IF m.kind # "block" THEN 0
    ELSE IF m.data = <<>> THEN Sizes[m.file_num] ELSE m.data[1][2] - 1
PosAfter(m) == IF m.kind # "block" \/ m.data = <<>> THEN 0 ELSE m.data[1][2]
FileAfter(m) == IF EndOf(m) THEN m.file_num + 1 ELSE m.file_num

(* What a reading job that stands at block k of file g may send. *)
Follows(m, g, k) ==
    /\ m.kind \in {"block", "digest"} => m.file_num = g /\ PosBefore(m) = k
    /\ m.kind = "error" => m.file_num = g + 1 \/ (m.file_num = g /\ k = 0)

(* The queue is one walk through the files: each message is what its        *)
(* predecessor leads to, and a digest or Done is waited behind.             *)
Walk(q, ver, w, h) ==
    /\ \A i \in 1..Len(q) : Shaped(q[i]) /\ Truthful(q[i], ver, w, h)
    /\ \A i \in 1..(Len(q) - 1) :
         /\ q[i].kind \notin {"digest", "done"}
         /\ Follows(q[i + 1], FileAfter(q[i]), PosAfter(q[i]))

(* The download holds the first k blocks of file g. *)
Holds(g, k, ver, w, dk, h) ==
    /\ dk[g].download # None /\ Len(dk[g].download) = k
    /\ dk[g].digest \in {Absent, NoDigest, w.digest} /\ w.digest <= ver[g]
    /\ Known(g, ver, w, h) => dk[g].download = Part(ver[g], k)

(* A writing job that can go on with block k + 1 of file g: a call for it   *)
(* has failed and nothing is claimed of it, or it is the file being         *)
(* written, or will be turned to.                                           *)
ReadyAt(g, k, ver, w, dk, h) ==
    /\ w.file_num <= g
    /\ \/ g \in h.failed
       \/ /\ w.file_num = g /\ w.data_stream = g
          /\ g \in h.suspect \/ (k > 0 /\ Holds(g, k, ver, w, dk, h))
       \/ k = 0 /\ (w.file_num = g => w.data_stream = Closed)

ReadyFor(m, ver, w, dk, h) ==
    m.kind # "done" => ReadyAt(m.file_num, PosBefore(m), ver, w, dk, h)

(* The end of a file has been written: the file is in its place, or is the  *)
(* one under way and will be put there.                                     *)
Landed(f, ver, w, dk, h) ==
    \/ f < w.file_num /\ (f \in h.suspect \/ dk[f].path = Content(f, ver[f]))
    \/ f = w.file_num /\ w.data_stream = f
       /\ (f \in h.suspect \/ dk[f].download = Content(f, ver[f]))

Pos(job) == IF job.data_stream = Closed THEN 0 ELSE job.data_stream

ReaderInv(job) ==
    /\ job.data_stream \in Closed..(IF Past(job) THEN Closed ELSE Sizes[job.file_num])
    /\ job.data_stream = Closed => ~job.confirmed /\ ~job.waiting
    /\ job.detection /\ job.data_stream # Closed /\ job.confirmed => job.waiting
    /\ job.detection /\ ~job.confirmed => job.data_stream \in {Closed, 0}

(* A stream that is not of the file being written has been left open by a   *)
(* turn that failed for both files.                                         *)
WriterInv(w, h) ==
    w.data_stream \notin {Closed, w.file_num} => w.data_stream \in h.failed

Asking(job) == job # NoJob /\ job.detection /\ job.waiting /\ ~job.confirmed

(* The queue leads to block k of file g: from its last message, or from     *)
(* the writing job's place when it is empty.                                *)
LeadsTo(q, g, k, ver, w, dk, h) ==
    IF q = <<>> THEN ReadyAt(g, k, ver, w, dk, h)
    ELSE FileAfter(q[Len(q)]) = g /\ PosAfter(q[Len(q)]) = k

Flows(q, ver, w, dk, h) ==
    Walk(q, ver, w, h) /\ (q # <<>> => ReadyFor(q[1], ver, w, dk, h))

(* The queue leads from the writing job's place to the reading job's. *)
QueueInv(q, a, ver, r, w, dk, h) ==
    /\ Flows(q, ver, w, dk, h)
    /\ r # NoJob /\ a = <<>> => LeadsTo(q, r.file_num, Pos(r), ver, w, dk, h)
    /\ q # <<>> /\ q[Len(q)].kind = "digest" => Asking(r)
    /\ q # <<>> /\ q[Len(q)].kind = "done" => r = NoJob

MarkInv(q, ver, r, w) ==
    /\ \A i \in 1..Len(q) : q[i].kind = "block" => w.digest <= ver[q[i].file_num]
    /\ r # NoJob /\ ~r.detection => w.digest = NoDigest
    /\ r # NoJob /\ r.confirmed /\ ~Past(r) => w.digest <= ver[r.file_num]

Clamped(f, k) == IF k > Sizes[f] THEN Sizes[f] ELSE k

AnswerInv(q, a, ver, r, w, dk, h) ==
    a # <<>> =>
      /\ q = <<>> /\ Len(a) = 1 /\ Asking(r) /\ r.data_stream = 0
      /\ a[1].file_num = r.file_num /\ w.digest <= ver[r.file_num]
      /\ r.file_num \in Files
      /\ IF a[1].skip THEN ReadyAt(r.file_num + 1, 0, ver, w, dk, h)
         ELSE ReadyAt(r.file_num, Clamped(r.file_num, a[1].offset), ver, w, dk, h)

SentInv(q, ft, ver, w, dk, h) ==
    \A f \in Files \ (h.changed \cup h.failed) : ft[f] = "sent" =>
      \/ \E i \in 1..Len(q) : EndOf(q[i]) /\ q[i].file_num = f
      \/ Landed(f, ver, w, dk, h)

ActiveInv(q, a, ver, r, w, dk, ft, h) ==
    /\ QueueInv(q, a, ver, r, w, dk, h) /\ MarkInv(q, ver, r, w) /\ WriterInv(w, h)
    /\ AnswerInv(q, a, ver, r, w, dk, h) /\ SentInv(q, ft, ver, w, dk, h)

(* What a digest vouches for. *)
Vouched(here, f, ver, h) ==
    f \notin h.suspect /\ here.download # None /\ here.digest \notin {Absent, NoDigest} =>
      /\ Len(here.download) <= Sizes[f] /\ here.digest <= ver[f]
      /\ here.digest = ver[f] => here.download = Part(ver[f], Len(here.download))
AllVouched(dk, ver, h) == \A f \in Files : Vouched(dk[f], f, ver, h)

TransferTypes ==
    /\ TransferTypeOK
    /\ disk \in [Files -> DiskFiles]
    /\ toWriter \in Seq(Messages) /\ toReader \in Seq(Replies)
    /\ done \in BOOLEAN

(* Which files came to harm, and how. *)
Hurts == [failed : SUBSET Files, changed : SUBSET Files, suspect : SUBSET Files]
Hurt(t) == [failed |-> t.failed, changed |-> t.changed, suspect |-> t.suspect]

TransferInv ==
    /\ TransferTypes
    /\ writing = NoJob => reading = NoJob /\ toWriter = <<>> /\ toReader = <<>>
    /\ done => writing = NoJob
    /\ reading # NoJob => ReaderInv(reading)
    /\ writing # NoJob =>
         ActiveInv(toWriter, toReader, version, reading, writing, disk, fate, Hurt(trouble))
    /\ trouble.failed \subseteq trouble.suspect
    /\ AllVouched(disk, version, Hurt(trouble))
    /\ SentIsWhole


(* Blocks of a file *)

LEMMA PartFacts ==
    ASSUME NEW v \in Nat, NEW k \in Nat
    PROVE  /\ Part(v, k) \in Bytes /\ Len(Part(v, k)) = k
           /\ \A i \in 1..k : Part(v, k)[i] = <<v, i>>
  <1>1. \A i \in 1..k : <<v, i>> \in Nat \X Nat
      OBVIOUS
  <1>2. Part(v, k) \in [1..k -> Nat \X Nat]
      BY <1>1 DEF Part
  <1>3. Part(v, k) \in Bytes
      BY <1>2 DEF Bytes
  <1> QED  BY <1>2, <1>3, LenProperties DEF Bytes, Part

LEMMA PartEmpty ==
    ASSUME NEW v \in Nat PROVE Part(v, 0) = <<>>
  <1>1. Part(v, 0) \in Seq(Nat \X Nat) /\ Len(Part(v, 0)) = 0
      BY PartFacts DEF Bytes
  <1> QED  BY <1>1, EmptySeq

LEMMA PartGrows ==
    ASSUME NEW v \in Nat, NEW k \in Nat
    PROVE  Part(v, k) \o << <<v, k + 1>> >> = Part(v, k + 1)
  <1> DEFINE S == Nat \X Nat
             e == [i \in Nat |-> <<v, i>>]
             s == Part(v, k)
             t == << <<v, k + 1>> >>
             u == Part(v, k + 1)
  <1>1. s \in Seq(S) /\ Len(s) = k /\ \A i \in 1..k : s[i] = e[i]
    <2>1. s \in Seq(S) /\ Len(s) = k /\ \A i \in 1..k : s[i] = <<v, i>>
        BY PartFacts DEF Bytes
    <2>2. \A i \in 1..k : e[i] = <<v, i>>
        OBVIOUS
    <2> QED  BY <2>1, <2>2
  <1>k. k + 1 \in Nat
      OBVIOUS
  <1>2. u \in Seq(S) /\ Len(u) = k + 1 /\ \A i \in 1..(k + 1) : u[i] = e[i]
    <2>1. u \in Seq(S) /\ Len(u) = k + 1 /\ \A i \in 1..(k + 1) : u[i] = <<v, i>>
        BY <1>k, PartFacts DEF Bytes
    <2>2. \A i \in 1..(k + 1) : e[i] = <<v, i>>
        BY <1>k
    <2> QED  BY <2>1, <2>2
  <1>3. t \in Seq(S) /\ Len(t) = 1 /\ t[1] = e[k + 1]
      BY <1>k
  <1> HIDE DEF S, e, s, t, u
  <1>4. /\ s \o t \in Seq(S) /\ Len(s \o t) = k + 1
        /\ \A i \in 1..(k + 1) : (s \o t)[i] = IF i <= k THEN s[i] ELSE t[i - k]
      BY <1>1, <1>3, ConcatProperties
  <1>5. \A i \in 1..(k + 1) : (s \o t)[i] = u[i]
      BY <1>1, <1>2, <1>3, <1>4
  <1>6. s \o t = u
      BY <1>2, <1>4, <1>5, SeqEqual
  <1> QED  BY <1>6 DEF s, t, u

LEMMA ContentIsPart ==
    ASSUME NEW f \in Files, NEW v
    PROVE  Content(f, v) = Part(v, Sizes[f])
  BY DEF Content, Part

LEMMA PartNotNone ==
    ASSUME NEW v \in Nat \ {0}, NEW k \in Nat
    PROVE  Part(v, k) # None
  <1> SUFFICES ASSUME Part(v, k) = None PROVE FALSE
      OBVIOUS
  <1>1. Len(None) = 1 /\ None[1] = <<0, 0>>
      BY DEF None
  <1>2. Len(Part(v, k)) = k /\ \A i \in 1..k : Part(v, k)[i] = <<v, i>>
      BY PartFacts
  <1>4. k = 1
      BY <1>1, <1>2
  <1>5. Part(v, k)[1] = <<v, 1>>
      BY <1>2, <1>4
  <1>3. <<v, 1>> = <<0, 0>>
      BY <1>1, <1>5
  <1> QED  BY <1>3

LEMMA PartIsPrefix ==
    ASSUME NEW v \in Nat, NEW k \in Nat, NEW n \in Nat, k <= n
    PROVE  IsPrefix(Part(v, k), Part(v, n))
  <1> DEFINE s == Part(v, k)
             t == Part(v, n)
  <1>1. /\ s \in Seq(Nat \X Nat) /\ Len(s) = k
        /\ \A i \in 1..k : s[i] = <<v, i>>
      BY PartFacts DEF Bytes
  <1>2. /\ t \in Seq(Nat \X Nat) /\ Len(t) = n
        /\ \A i \in 1..n : t[i] = <<v, i>>
      BY PartFacts DEF Bytes
  <1> HIDE DEF s, t
  <1>3. \A i \in 1..k : s[i] = t[i]
      BY <1>1, <1>2
  <1>4. SubSeq(s, 1, k) = SubSeq(t, 1, k)
      BY <1>1, <1>2, <1>3
  <1>5. IsPrefix(s, t)
      BY <1>1, <1>2, <1>4 DEF IsPrefix
  <1> QED  BY <1>5 DEF s, t

(* The queue *)

(* What came to harm.                                                      *)
Troubles == [failed : SUBSET Files, changed : SUBSET Files, suspect : SUBSET Files,
             faults : Nat]

LEMMA HurtFacts ==
    ASSUME NEW t \in Troubles, t.failed \subseteq t.suspect
    PROVE  /\ Hurt(t) \in Hurts /\ Hurt(t).failed \subseteq Hurt(t).suspect
           /\ Hurt(t).failed = t.failed /\ Hurt(t).changed = t.changed
           /\ Hurt(t).suspect = t.suspect
           /\ Fails(t, {}) \in Troubles /\ Fails(t, {}).failed = t.failed
           /\ Fails(t, {}).suspect = t.suspect /\ Fails(t, {}).changed = t.changed
           /\ Hurt(Fails(t, {})) = Hurt(t)
           /\ Forgets(t) \in Troubles
           /\ Forgets(t).failed = {} /\ Forgets(t).suspect = t.suspect
  <1>1. /\ Hurt(t) \in Hurts /\ Hurt(t).failed \subseteq Hurt(t).suspect
        /\ Hurt(t).failed = t.failed /\ Hurt(t).changed = t.changed
        /\ Hurt(t).suspect = t.suspect
      BY DEF Hurt, Hurts, Troubles
  <1>2. t.failed \cup {} = t.failed /\ t.suspect \cup {} = t.suspect
      OBVIOUS
  <1>3. /\ Fails(t, {}) \in Troubles /\ Fails(t, {}).failed = t.failed
        /\ Fails(t, {}).suspect = t.suspect /\ Fails(t, {}).changed = t.changed
    <2>1. /\ Harms(t, {}) \in Troubles /\ Harms(t, {}).failed = t.failed
          /\ Harms(t, {}).suspect = t.suspect /\ Harms(t, {}).changed = t.changed
        BY <1>2 DEF Harms, Troubles
    <2> QED  BY <2>1 DEF Fails, Troubles
  <1>4. Hurt(Fails(t, {})) = Hurt(t)
      BY <1>3 DEF Hurt
  <1>5. /\ Forgets(t) \in Troubles
        /\ Forgets(t).failed = {} /\ Forgets(t).suspect = t.suspect
      BY DEF Forgets, Troubles
  <1> QED  BY <1>1, <1>3, <1>4, <1>5

LEMMA FailsFacts ==
    ASSUME NEW t \in Troubles, t.failed \subseteq t.suspect, NEW s \in SUBSET Files,
           NEW u \in {Harms(t, s), Fails(t, s)}
    PROVE  /\ u \in Troubles /\ u.failed \subseteq u.suspect
           /\ u.failed = t.failed \cup s /\ u.suspect = t.suspect \cup s
           /\ u.changed = t.changed
  <1>1. /\ Harms(t, s) \in Troubles
        /\ Harms(t, s).failed = t.failed \cup s /\ Harms(t, s).suspect = t.suspect \cup s
        /\ Harms(t, s).changed = t.changed
      BY DEF Harms, Troubles
  <1>2. /\ Fails(t, s) \in Troubles
        /\ Fails(t, s).failed = t.failed \cup s /\ Fails(t, s).suspect = t.suspect \cup s
        /\ Fails(t, s).changed = t.changed
      BY <1>1 DEF Fails, Troubles
  <1> QED  BY <1>1, <1>2

LEMMA BeginsFacts ==
    ASSUME NEW t \in Troubles, t.failed \subseteq t.suspect, NEW f \in Files
    PROVE  /\ Begins(t, f) \in Troubles
           /\ Begins(t, f).failed = t.failed /\ Begins(t, f).changed = t.changed
           /\ Begins(t, f).suspect = t.suspect \ ({f} \ t.failed)
           /\ Begins(t, f).failed \subseteq Begins(t, f).suspect
  BY DEF Begins, Troubles


(* A message is an end, a block or something else, and says where it       *)
(* stands.                                                                 *)
LEMMA MessageFacts ==
    ASSUME NEW m \in Messages, Shaped(m)
    PROVE  /\ m.kind \in {"block", "error", "done", "digest"}
           /\ m.file_num \in FileNums /\ m.file_num \in Nat
           /\ PosBefore(m) \in Nat /\ PosAfter(m) \in Nat /\ FileAfter(m) \in Nat
           /\ m.kind = "block" =>
                /\ m \in Blocks /\ m.file_num \in Files
                /\ PosBefore(m) <= Sizes[m.file_num] /\ Sizes[m.file_num] \in Nat
           /\ EndOf(m) =>
                /\ m.kind = "block" /\ m.data = <<>> /\ PosBefore(m) = Sizes[m.file_num]
                /\ PosAfter(m) = 0 /\ FileAfter(m) = m.file_num + 1
           /\ m.kind = "block" /\ ~EndOf(m) =>
                /\ PosAfter(m) = PosBefore(m) + 1 /\ FileAfter(m) = m.file_num
                /\ PosAfter(m) <= Sizes[m.file_num] /\ m.data # <<>>
                /\ \E v \in Versions : m.data = << <<v, PosBefore(m) + 1>> >>
           /\ m.kind # "block" =>
                /\ PosBefore(m) = 0 /\ PosAfter(m) = 0 /\ FileAfter(m) = m.file_num
                /\ ~EndOf(m)
           /\ m.kind = "digest" =>
                /\ m \in Digests /\ m.file_num \in Files /\ m.digest \in Versions
  <1>1. Files = 1..Len(Sizes) /\ Len(Sizes) \in Nat /\ \A f \in Files : Sizes[f] \in Nat
      BY TransferAssumption DEF Files
  <1>2. CASE m \in Blocks
    <2>1. m.kind = "block" /\ m.file_num \in Files /\ m.data \in Bytes
        BY <1>2 DEF Blocks
    <2>2. m.file_num \in FileNums /\ m.file_num \in Nat
        BY <1>1, <2>1 DEF FileNums
    <2>3. CASE m.data = <<>>
        BY <1>1, <1>2, <2>1, <2>2, <2>3 DEF EndOf, PosBefore, PosAfter, FileAfter
    <2>4. CASE m.data # <<>>
      <3>1. PICK i \in 1..Sizes[m.file_num], v \in Versions : m.data = << <<v, i>> >>
          BY <2>1, <2>4 DEF Shaped
      <3>2. m.data[1][2] = i /\ i \in Nat /\ i <= Sizes[m.file_num] /\ i >= 1
          BY <3>1, <1>1, <2>1
      <3>3. PosAfter(m) = i /\ PosBefore(m) = i - 1 /\ FileAfter(m) = m.file_num /\ ~EndOf(m)
          BY <2>1, <2>4, <3>2 DEF EndOf, PosBefore, PosAfter, FileAfter
      <3>4. i - 1 \in Nat /\ i = (i - 1) + 1 /\ i - 1 <= Sizes[m.file_num]
          BY <3>2, <1>1, <2>1
      <3> QED  BY <1>1, <1>2, <2>1, <2>2, <2>4, <3>1, <3>2, <3>3, <3>4
    <2> QED  BY <2>3, <2>4
  <1>3. CASE m \in Errors \cup Dones
      BY <1>1, <1>3 DEF Errors, Dones, FileNums, EndOf, PosBefore, PosAfter, FileAfter
  <1>4. CASE m \in Digests
    <2>1. m.kind = "digest" /\ m.file_num \in Files /\ m.digest \in Versions
        BY <1>4 DEF Digests
    <2> QED  BY <1>1, <1>4, <2>1 DEF FileNums, EndOf, PosBefore, PosAfter, FileAfter
  <1> QED  BY <1>2, <1>3, <1>4 DEF Messages

(* A block that says the truth of a file that is known as it is.           *)
LEMMA KnownBlock ==
    ASSUME NEW ver \in [Files -> Versions], NEW w, NEW h, NEW m \in Messages,
           Shaped(m), Truthful(m, ver, w, h), m.kind = "block", ~EndOf(m),
           Known(m.file_num, ver, w, h)
    PROVE  m.data = << <<ver[m.file_num], PosBefore(m) + 1>> >>
  <1>1. PICK v \in Versions : m.data = << <<v, PosBefore(m) + 1>> >>
      BY MessageFacts
  <1>2. m.data # <<>>
      BY DEF EndOf
  <1>3. m.data[1][1] = ver[m.file_num]
      BY <1>2 DEF Truthful
  <1>4. m.data[1][1] = v
      BY <1>1
  <1> QED  BY <1>1, <1>3, <1>4

(* A writing job ready where the reading job stands is ready for what it   *)
(* sends.                                                                  *)
LEMMA ReadyFollows ==
    ASSUME NEW ver, NEW w, NEW dk, NEW h, NEW m \in Messages, NEW g \in Nat,
           NEW k \in Nat, w.file_num \in Nat, m.file_num \in Nat,
           ReadyAt(g, k, ver, w, dk, h), Follows(m, g, k)
    PROVE  ReadyFor(m, ver, w, dk, h)
  <1>1. m.kind \in {"block", "error", "done", "digest"}
      BY DEF Messages, Blocks, Errors, Dones, Digests
  <1>2. CASE m.kind \in {"block", "digest"}
      BY <1>2 DEF ReadyFor, Follows
  <1>3. CASE m.kind = "error"
    <2>1. PosBefore(m) = 0
        BY <1>3 DEF PosBefore
    <2>2. m.file_num = g + 1 \/ (m.file_num = g /\ k = 0)
        BY <1>3 DEF Follows
    <2>3. w.file_num <= g
        BY DEF ReadyAt
    <2>4. ReadyAt(m.file_num, 0, ver, w, dk, h)
      <3>1. CASE m.file_num = g + 1
          BY <2>3, <3>1 DEF ReadyAt
      <3>2. CASE m.file_num = g /\ k = 0
          BY <3>2
      <3> QED  BY <2>2, <3>1, <3>2
    <2> QED  BY <2>1, <2>4 DEF ReadyFor
  <1>4. CASE m.kind = "done"
      BY <1>4 DEF ReadyFor
  <1> QED  BY <1>1, <1>2, <1>3, <1>4

(* A message may be sent behind it. *)
Unblocked(q) == q # <<>> => q[Len(q)].kind \notin {"digest", "done"}

(* Sending what follows keeps the queue one walk, which now leads to where *)
(* the message does.                                                       *)
LEMMA FlowsAppend ==
    ASSUME NEW ver \in [Files -> Versions], NEW w, NEW dk, NEW h, w.file_num \in Nat,
           NEW q \in Seq(Messages), NEW m \in Messages, Shaped(m), Truthful(m, ver, w, h),
           NEW g \in Nat, NEW k \in Nat,
           Flows(q, ver, w, dk, h), LeadsTo(q, g, k, ver, w, dk, h), Follows(m, g, k),
           Unblocked(q)
    PROVE  /\ Append(q, m) \in Seq(Messages) /\ Append(q, m) # <<>>
           /\ Append(q, m)[Len(Append(q, m))] = m
           /\ Flows(Append(q, m), ver, w, dk, h)
           /\ LeadsTo(Append(q, m), FileAfter(m), PosAfter(m), ver, w, dk, h)
  <1> DEFINE s == Append(q, m)
             n == Len(q)
  <1>1. /\ s \in Seq(Messages) /\ Len(s) = n + 1 /\ s[n + 1] = m /\ n \in Nat
        /\ \A i \in 1..n : s[i] = q[i]
      BY AppendProperties
  <1>2. s # <<>> /\ s[Len(s)] = m
      BY <1>1
  <1>s. s = Append(q, m) /\ n = Len(q)
      OBVIOUS
  <1> HIDE DEF s, n
  <1>3. \A i \in 1..Len(s) : Shaped(s[i]) /\ Truthful(s[i], ver, w, h)
      BY <1>1, <1>s DEF Flows, Walk
  <1>4. ASSUME NEW i \in 1..(Len(s) - 1)
        PROVE  /\ s[i].kind \notin {"digest", "done"}
               /\ Follows(s[i + 1], FileAfter(s[i]), PosAfter(s[i]))
    <2>1. CASE i = n
      <3>1. n # 0 /\ q # <<>> /\ s[i] = q[n] /\ s[i + 1] = m
          BY <1>1, <1>s, <2>1
      <3>2. FileAfter(q[n]) = g /\ PosAfter(q[n]) = k
          BY <3>1, <1>s DEF LeadsTo
      <3> QED  BY <3>1, <3>2, <1>s DEF Unblocked
    <2>2. CASE i # n
      <3>1. i \in 1..(n - 1) /\ s[i] = q[i] /\ s[i + 1] = q[i + 1]
          BY <1>1, <2>2
      <3> QED  BY <3>1, <1>s DEF Flows, Walk
    <2> QED  BY <2>1, <2>2
  <1>5. Walk(s, ver, w, h)
      BY <1>3, <1>4 DEF Walk
  <1>6. ReadyFor(s[1], ver, w, dk, h)
    <2>1. CASE q = <<>>
      <3>1. n = 0 /\ s[1] = m
          BY <1>1, <1>s, <2>1
      <3>2. ReadyAt(g, k, ver, w, dk, h)
          BY <2>1 DEF LeadsTo
      <3>3. m.file_num \in Nat
          BY MessageFacts
      <3> QED  BY <3>1, <3>2, <3>3, ReadyFollows
    <2>2. CASE q # <<>>
      <3>1. n > 0 /\ s[1] = q[1]
          BY <1>1, <1>s, <2>2, EmptySeq
      <3> QED  BY <3>1, <2>2 DEF Flows
    <2> QED  BY <2>1, <2>2
  <1>7. Flows(s, ver, w, dk, h)
      BY <1>5, <1>6 DEF Flows
  <1>8. LeadsTo(s, FileAfter(m), PosAfter(m), ver, w, dk, h)
      BY <1>2 DEF LeadsTo
  <1> QED  BY <1>1, <1>2, <1>7, <1>8 DEF s

(* What is behind the first message, for a writing job that has dealt with *)
(* it.                                                                     *)
LEMMA FlowsTail ==
    ASSUME NEW ver \in [Files -> Versions], NEW w, NEW dk, NEW h, NEW w2, NEW dk2,
           NEW h2, w2.file_num \in Nat, w2.digest = w.digest, h2.changed = h.changed,
           NEW q \in Seq(Messages), q # <<>>, Flows(q, ver, w, dk, h),
           ReadyAt(FileAfter(q[1]), PosAfter(q[1]), ver, w2, dk2, h2)
    PROVE  /\ Tail(q) \in Seq(Messages) /\ Flows(Tail(q), ver, w2, dk2, h2)
           /\ Tail(q) # <<>> => Tail(q)[Len(Tail(q))] = q[Len(q)]
           /\ \A g, k : LeadsTo(q, g, k, ver, w, dk, h) => LeadsTo(Tail(q), g, k, ver, w2, dk2, h2)
  <1> DEFINE s == Tail(q)
             n == Len(q)
  <1>1. /\ s \in Seq(Messages) /\ n \in Nat /\ n > 0 /\ Len(s) = n - 1
        /\ \A i \in 1..(n - 1) : s[i] = q[i + 1]
      BY HeadTailProperties, EmptySeq
  <1>s. n = Len(q) /\ s = Tail(q)
      OBVIOUS
  <1> HIDE DEF s, n
  <1>t. \A i \in 1..n : q[i] \in Messages /\ Shaped(q[i])
      BY <1>1, <1>s, ElementOfSeq DEF Flows, Walk
  <1>u. \A i \in 1..n : Truthful(q[i], ver, w2, h2)
    <2>1. \A i \in 1..n : Truthful(q[i], ver, w, h)
        BY <1>s DEF Flows, Walk
    <2> QED  BY <2>1 DEF Truthful, Known
  <1>2. Walk(s, ver, w2, h2)
    <2>1. \A i \in 1..Len(s) : Shaped(s[i]) /\ Truthful(s[i], ver, w2, h2)
        BY <1>1, <1>t, <1>u
    <2>2. ASSUME NEW i \in 1..(Len(s) - 1)
          PROVE  /\ s[i].kind \notin {"digest", "done"}
                 /\ Follows(s[i + 1], FileAfter(s[i]), PosAfter(s[i]))
      <3>1. /\ i + 1 \in 1..(n - 1) /\ s[i] = q[i + 1] /\ s[i + 1] = q[(i + 1) + 1]
          BY <1>1
      <3> QED  BY <3>1, <1>s DEF Flows, Walk
    <2> QED  BY <2>1, <2>2 DEF Walk
  <1>3. ASSUME s # <<>> PROVE ReadyFor(s[1], ver, w2, dk2, h2) /\ s[Len(s)] = q[n]
    <2>1. n - 1 > 0 /\ s[1] = q[2] /\ s[Len(s)] = q[n]
        BY <1>1, <1>3, EmptySeq
    <2>2. Follows(q[1 + 1], FileAfter(q[1]), PosAfter(q[1]))
        BY <2>1, <1>1, <1>s DEF Flows, Walk
    <2>3. /\ q[2] \in Messages /\ q[2].file_num \in Nat
          /\ FileAfter(q[1]) \in Nat /\ PosAfter(q[1]) \in Nat
      <3>1. /\ q[1] \in Messages /\ Shaped(q[1])
            /\ q[2] \in Messages /\ Shaped(q[2])
          BY <1>1, <1>t, <2>1
      <3>2. FileAfter(q[1]) \in Nat /\ PosAfter(q[1]) \in Nat
          BY <3>1, MessageFacts
      <3>3. q[2].file_num \in Nat
          BY <3>1, MessageFacts
      <3> QED  BY <3>1, <3>2, <3>3
    <2>4. ReadyFor(q[2], ver, w2, dk2, h2)
        BY <2>2, <2>3, ReadyFollows
    <2> QED  BY <2>1, <2>4
  <1>4. Flows(s, ver, w2, dk2, h2)
      BY <1>2, <1>3 DEF Flows
  <1>5. ASSUME NEW g, NEW k, LeadsTo(q, g, k, ver, w, dk, h) PROVE LeadsTo(s, g, k, ver, w2, dk2, h2)
    <2>1. FileAfter(q[n]) = g /\ PosAfter(q[n]) = k
        BY <1>5, <1>s DEF LeadsTo
    <2>2. CASE s = <<>>
      <3>1. n = 1
          BY <2>2, <1>1
      <3> QED  BY <2>1, <2>2, <3>1 DEF LeadsTo
    <2>3. CASE s # <<>>
        BY <2>1, <2>3, <1>3 DEF LeadsTo
    <2> QED  BY <2>2, <2>3
  <1> QED  BY <1>1, <1>3, <1>4, <1>5 DEF s, n

(* The disk *)

LEMMA TransferNumbers ==
    /\ Files = 1..Len(Sizes) /\ Len(Sizes) \in Nat \ {0} /\ \A f \in Files : Sizes[f] \in Nat
    /\ MaxVersion \in Nat \ {0} /\ Absent = -1 /\ NoDigest = 0 /\ Closed = -1
    /\ Absent \in Absent..MaxVersion /\ NoDigest \in Absent..MaxVersion
    /\ None \in Bytes /\ None # <<>> /\ <<>> \in Bytes
    /\ Versions \subseteq Nat \ {0} /\ Versions \subseteq Absent..MaxVersion
    /\ 0..MaxVersion \subseteq Absent..MaxVersion
  BY TransferAssumption DEF Files, Absent, NoDigest, Closed, None, Bytes, Versions

LEMMA FileFacts ==
    ASSUME NEW ver \in [Files -> Versions], NEW g \in Files
    PROVE  /\ g \in Nat /\ g # Closed /\ Sizes[g] \in Nat
           /\ g \in FileNums /\ g + 1 \in FileNums
           /\ ver[g] \in Versions /\ ver[g] \in Nat \ {0} /\ ver[g] \in Nat
           /\ ver[g] \notin {Absent, NoDigest}
  <1>1. ver[g] \in Versions
      OBVIOUS
  <1>2. ver[g] \in Nat \ {0}
      BY <1>1, TransferNumbers
  <1>3. g \in Nat /\ Sizes[g] \in Nat /\ g >= 1 /\ g <= Len(Sizes)
      BY TransferNumbers
  <1>4. g \in FileNums /\ g + 1 \in FileNums /\ g # Closed
      BY <1>3, TransferNumbers DEF FileNums
  <1> QED  BY <1>1, <1>2, <1>3, <1>4, TransferNumbers

SetDownload(dk, f, x) == [dk EXCEPT ![f].download = x]
SetDigest(dk, f, v) == [dk EXCEPT ![f].digest = v]

LEMMA DownloadSet ==
    ASSUME NEW dk \in [Files -> DiskFiles], NEW f \in Files, NEW x \in Bytes,
           NEW d, d = SetDownload(dk, f, x)
    PROVE  /\ d \in [Files -> DiskFiles]
           /\ d[f].download = x /\ d[f].path = dk[f].path /\ d[f].digest = dk[f].digest
           /\ \A g \in Files : g # f => d[g] = dk[g]
  BY DEF DiskFiles, SetDownload

LEMMA DigestSet ==
    ASSUME NEW dk \in [Files -> DiskFiles], NEW f \in Files, NEW v \in Absent..MaxVersion,
           NEW d, d = SetDigest(dk, f, v)
    PROVE  /\ d \in [Files -> DiskFiles]
           /\ d[f].digest = v /\ d[f].path = dk[f].path /\ d[f].download = dk[f].download
           /\ \A g \in Files : g # f => d[g] = dk[g]
  BY DEF DiskFiles, SetDigest

(* A finished download is in its place, and vouched for by nothing.        *)
LEMMA ModifyTimeFacts ==
    ASSUME disk \in [Files -> DiskFiles], trouble \in Troubles,
           trouble.failed \subseteq trouble.suspect,
           NEW ver, AllVouched(disk, ver, Hurt(trouble)), NEW f, NEW after \in ModifyTime(f)
    PROVE  /\ after.files \in [Files -> DiskFiles] /\ after.trouble \in Troubles
           /\ after.trouble.failed \subseteq after.trouble.suspect
           /\ trouble.failed \subseteq after.trouble.failed
           /\ trouble.suspect \subseteq after.trouble.suspect
           /\ after.trouble.changed = trouble.changed
           /\ \A g \in Files : g # f => after.files[g] = disk[g]
           /\ f \in Files /\ f \notin after.trouble.failed =>
                /\ after.files[f].path = IF disk[f].download = None THEN disk[f].path
                                         ELSE disk[f].download
                /\ after.files[f].download = None
           /\ AllVouched(after.files, ver, Hurt(after.trouble))
  <1>1. CASE f \notin Files
    <2>1. after = [files |-> disk, trouble |-> trouble]
        BY <1>1 DEF ModifyTime
    <2> QED  BY <1>1, <2>1
  <1>2. CASE f \in Files
    <2>1. PICK here \in {disk[f], Placed(disk[f])}, left \in {disk[f].digest, Absent} :
            after = [files |-> [disk EXCEPT ![f] = [here EXCEPT !.digest = left]],
                     trouble |-> IF here.download # None THEN Fails(trouble, {f})
                                 ELSE IF left # Absent THEN Fails(trouble, {}) ELSE trouble]
        BY <1>2 DEF ModifyTime
    <2>2. disk[f] \in DiskFiles
        BY <1>2
    <2>3. /\ here \in DiskFiles
          /\ here.download = None =>
               here.path = IF disk[f].download = None THEN disk[f].path ELSE disk[f].download
          /\ here.download # None => here = disk[f]
        BY <2>1, <2>2, TransferNumbers DEF Placed, DiskFiles
    <2>4. left \in Absent..MaxVersion
        BY <2>1, <2>2, TransferNumbers DEF DiskFiles
    <2> DEFINE new == [here EXCEPT !.digest = left]
    <2>5. /\ new \in DiskFiles /\ new.path = here.path /\ new.download = here.download
          /\ new.digest = left
        BY <2>3, <2>4 DEF DiskFiles
    <2>6. after.files = [disk EXCEPT ![f] = new]
        BY <2>1
    <2> HIDE DEF new
    <2>7. /\ after.files \in [Files -> DiskFiles] /\ after.files[f] = new
          /\ \A g \in Files : g # f => after.files[g] = disk[g]
        BY <1>2, <2>5, <2>6
    <2>8. /\ after.trouble = IF here.download # None THEN Fails(trouble, {f})
                             ELSE IF left # Absent THEN Fails(trouble, {}) ELSE trouble
        BY <2>1
    <2>9. /\ after.trouble \in Troubles /\ after.trouble.failed \subseteq after.trouble.suspect
          /\ trouble.failed \subseteq after.trouble.failed
          /\ trouble.suspect \subseteq after.trouble.suspect
          /\ after.trouble.changed = trouble.changed
          /\ here.download # None => f \in after.trouble.failed
      <3>1. {f} \in SUBSET Files /\ {} \in SUBSET Files
          BY <1>2
      <3>2. /\ Fails(trouble, {f}) \in Troubles
            /\ Fails(trouble, {f}).failed \subseteq Fails(trouble, {f}).suspect
            /\ Fails(trouble, {f}).failed = trouble.failed \cup {f}
            /\ Fails(trouble, {f}).suspect = trouble.suspect \cup {f}
            /\ Fails(trouble, {f}).changed = trouble.changed
          BY <3>1, FailsFacts
      <3>3. /\ Fails(trouble, {}) \in Troubles
            /\ Fails(trouble, {}).failed = trouble.failed
            /\ Fails(trouble, {}).suspect = trouble.suspect
            /\ Fails(trouble, {}).changed = trouble.changed
          BY HurtFacts
      <3> QED  BY <2>8, <3>2, <3>3
    <2>10. AllVouched(after.files, ver, Hurt(after.trouble))
      <3>1. /\ Hurt(after.trouble).suspect = after.trouble.suspect
            /\ Hurt(trouble).suspect = trouble.suspect
          BY DEF Hurt
      <3>2. ASSUME NEW g \in Files, g # f
            PROVE  Vouched(after.files[g], g, ver, Hurt(after.trouble))
          BY <2>7, <2>9, <3>1, <3>2 DEF AllVouched, Vouched
      <3>3. Vouched(after.files[f], f, ver, Hurt(after.trouble))
        <4>1. CASE here.download = None
            BY <4>1, <2>5, <2>7 DEF Vouched
        <4>2. CASE here.download # None
            BY <4>2, <2>9, <3>1 DEF Vouched
        <4> QED  BY <4>1, <4>2
      <3> QED  BY <3>2, <3>3 DEF AllVouched
    <2>11. f \notin after.trouble.failed =>
             /\ after.files[f].path = IF disk[f].download = None THEN disk[f].path
                                      ELSE disk[f].download
             /\ after.files[f].download = None
        BY <2>3, <2>5, <2>7, <2>9
    <2> QED  BY <2>7, <2>9, <2>10, <2>11
  <1> QED  BY <1>1, <1>2

(* The user gives up.                                                      *)
LEMMA RemoveFacts ==
    ASSUME disk \in [Files -> DiskFiles], trouble \in Troubles,
           trouble.failed \subseteq trouble.suspect,
           NEW ver, AllVouched(disk, ver, Hurt(trouble)), NEW f, NEW after \in RemoveDownload(f)
    PROVE  /\ after.files \in [Files -> DiskFiles] /\ after.trouble \in Troubles
           /\ after.trouble.failed \subseteq after.trouble.suspect
           /\ AllVouched(after.files, ver, Hurt(after.trouble))
  <1>1. CASE f \notin Files
    <2>1. after = [files |-> disk, trouble |-> trouble]
        BY <1>1 DEF RemoveDownload
    <2> QED  BY <2>1
  <1>2. CASE f \in Files
    <2>1. PICK kept \in {disk[f].download, None}, left \in {disk[f].digest, Absent} :
            after = [files |-> [disk EXCEPT ![f] = [path |-> @.path, download |-> kept,
                                                    digest |-> left]],
                     trouble |-> IF kept # None \/ left # Absent THEN Fails(trouble, {})
                                 ELSE trouble]
        BY <1>2 DEF RemoveDownload
    <2> DEFINE new == [path |-> disk[f].path, download |-> kept, digest |-> left]
    <2>2. disk[f] \in DiskFiles
        BY <1>2
    <2>3. new \in DiskFiles /\ new.download = kept /\ new.digest = left
        BY <2>1, <2>2, TransferNumbers DEF DiskFiles
    <2>4. after.files = [disk EXCEPT ![f] = new]
        BY <2>1
    <2> HIDE DEF new
    <2>5. /\ after.files \in [Files -> DiskFiles] /\ after.files[f] = new
          /\ \A g \in Files : g # f => after.files[g] = disk[g]
        BY <1>2, <2>3, <2>4
    <2>6. after.trouble \in {trouble, Fails(trouble, {})}
        BY <2>1
    <2>7. /\ after.trouble \in Troubles /\ after.trouble.failed \subseteq after.trouble.suspect
          /\ Hurt(after.trouble) = Hurt(trouble)
      <3>1. /\ Fails(trouble, {}) \in Troubles
            /\ Fails(trouble, {}).failed = trouble.failed
            /\ Fails(trouble, {}).suspect = trouble.suspect
            /\ Hurt(Fails(trouble, {})) = Hurt(trouble)
          BY HurtFacts
      <3> QED  BY <2>6, <3>1
    <2>8. Vouched(new, f, ver, Hurt(trouble))
        BY <2>1, <2>3, <1>2 DEF AllVouched, Vouched
    <2> QED  BY <2>5, <2>7, <2>8 DEF AllVouched
  <1> QED  BY <1>1, <1>2

(* The steps of turning to another file, and what is on disk after each: a *)
(* digest is there again only once the download is the new, empty one.     *)
LEMMA TurnFacts ==
    ASSUME writing \in WriteJob, NEW files \in [Files -> DiskFiles], NEW m,
           m.file_num \in Files
    PROVE  /\ Unmarked(files, m) \in [Files -> DiskFiles]
           /\ Unmarked(files, m)[m.file_num].digest = Absent
           /\ \A g \in Files : g # m.file_num => Unmarked(files, m)[g] = files[g]
           /\ \A b \in {Created(files, m), Marked(files, m)} :
                /\ b \in [Files -> DiskFiles] /\ b[m.file_num].download = <<>>
                /\ b[m.file_num].digest \in {Absent, writing.digest}
                /\ \A g \in Files : g # m.file_num => b[g] = files[g]
  <1> DEFINE f == m.file_num
             b0 == Unmarked(files, m)
             b1 == Created(files, m)
             b2 == Marked(files, m)
  <1>1. f \in Files /\ writing.digest \in Absent..MaxVersion
      BY TransferNumbers DEF WriteJob
  <1>2. /\ b0 = SetDigest(files, f, Absent) /\ b1 = SetDownload(b0, f, <<>>)
        /\ b2 = SetDigest(b1, f, writing.digest)
      BY DEF Unmarked, Created, Marked, SetDigest, SetDownload
  <1>d. f = m.file_num /\ b0 = Unmarked(files, m) /\ b1 = Created(files, m)
        /\ b2 = Marked(files, m)
      OBVIOUS
  <1> HIDE DEF f, b0, b1, b2
  <1>3. /\ b0 \in [Files -> DiskFiles] /\ b0[f].digest = Absent
        /\ \A g \in Files : g # f => b0[g] = files[g]
      BY <1>1, <1>2, DigestSet, TransferNumbers
  <1>4. /\ b1 \in [Files -> DiskFiles] /\ b1[f].digest = Absent /\ b1[f].download = <<>>
        /\ \A g \in Files : g # f => b1[g] = b0[g]
    <2>1. b1[f].digest = b0[f].digest
        BY <1>1, <1>2, <1>3, DownloadSet, TransferNumbers
    <2> QED  BY <2>1, <1>1, <1>2, <1>3, DownloadSet, TransferNumbers
  <1>5. /\ b2 \in [Files -> DiskFiles] /\ b2[f].digest = writing.digest
        /\ b2[f].download = <<>> /\ \A g \in Files : g # f => b2[g] = b1[g]
    <2>1. b2[f].download = b1[f].download
        BY <1>1, <1>2, <1>4, DigestSet
    <2> QED  BY <2>1, <1>1, <1>2, <1>4, DigestSet
  <1> QED  BY <1>3, <1>4, <1>5, <1>d

(* The writing job can go on with the block m.                             *)
PutReady(m, ver, w, dk, h) ==
    /\ w.file_num = m.file_num /\ w.data_stream \in Files
    /\ w.data_stream # m.file_num => w.data_stream \in h.failed /\ m.file_num \in h.failed
    /\ m.file_num \notin h.suspect => Holds(m.file_num, PosBefore(m), ver, w, dk, h)

(* It can when it has turned to the block's file, and lets no file that     *)
(* has landed go.                                                           *)
LEMMA TurnLands ==
    ASSUME disk \in [Files -> DiskFiles], version \in [Files -> Versions],
           writing \in WriteJob, trouble \in Troubles, trouble.failed \subseteq trouble.suspect,
           AllVouched(disk, version, Hurt(trouble)),
           NEW m \in Messages, m.kind = "block", Shaped(m), TurnsTo(m),
           ReadyFor(m, version, writing, disk, Hurt(trouble)),
           writing.digest <= version[m.file_num],
           NEW after \in ModifyTime(writing.file_num),
           NEW b \in {Created(after.files, m), Marked(after.files, m)},
           NEW w, w = Turned(writing, m),
           NEW t, t = Begins(after.trouble, m.file_num), NEW h, h = Hurt(t)
    PROVE  /\ b \in [Files -> DiskFiles] /\ t \in Troubles /\ t.failed \subseteq t.suspect
           /\ t.changed = trouble.changed /\ trouble.failed \subseteq t.failed
           /\ w \in WriteJob /\ w.digest = writing.digest
           /\ AllVouched(b, version, h) /\ PutReady(m, version, w, b, h)
           /\ \A g \in Files \ t.failed :
                Landed(g, version, writing, disk, Hurt(trouble)) => Landed(g, version, w, b, h)
  <1> DEFINE f == m.file_num
             e == writing.file_num
             k == PosBefore(m)
  <1>1. /\ f \in Files /\ f \in Nat /\ k \in Nat /\ version[f] \in Versions
        /\ version[f] \in Nat /\ Sizes[f] \in Nat
    <2>1. f \in Files /\ f \in Nat /\ k \in Nat
        BY MessageFacts
    <2>2. version[f] \in Versions
        BY <2>1
    <2> QED  BY <2>1, <2>2, TransferNumbers
  <1>2. e \in Nat /\ writing.digest \in 0..MaxVersion
        /\ (TurnsTo(m) <=> (f # e \/ writing.data_stream = Closed))
      BY TransferNumbers DEF WriteJob, TurnsTo
  <1>3. /\ ReadyAt(f, k, version, writing, disk, Hurt(trouble)) /\ e <= f
      BY <1>1 DEF ReadyFor, ReadyAt
  <1>4. /\ w.file_num = f /\ w.data_stream = f /\ w.digest = writing.digest /\ w \in WriteJob
    <2>1. f \in 1..(Len(Sizes) + 1)
        BY <1>1, TransferNumbers
    <2> QED  BY <2>1, <1>1 DEF WriteJob, Turned
  <1>5. /\ after.files \in [Files -> DiskFiles] /\ after.trouble \in Troubles
        /\ after.trouble.failed \subseteq after.trouble.suspect
        /\ trouble.failed \subseteq after.trouble.failed
        /\ trouble.suspect \subseteq after.trouble.suspect
        /\ after.trouble.changed = trouble.changed
        /\ \A g \in Files : g # e => after.files[g] = disk[g]
        /\ AllVouched(after.files, version, Hurt(after.trouble))
      BY ModifyTimeFacts
  <1>6. e \in Files /\ e \notin after.trouble.failed =>
          after.files[e].path = IF disk[e].download = None THEN disk[e].path
                                ELSE disk[e].download
      BY ModifyTimeFacts
  <1>7. /\ t \in Troubles /\ t.failed = after.trouble.failed /\ t.changed = trouble.changed
        /\ t.suspect = after.trouble.suspect \ ({f} \ after.trouble.failed)
        /\ t.failed \subseteq t.suspect
      BY <1>1, <1>5, BeginsFacts
  <1>8. /\ h.failed = t.failed /\ h.suspect = t.suspect /\ h.changed = t.changed
        /\ Hurt(after.trouble).suspect = after.trouble.suspect
        /\ Hurt(trouble).suspect = trouble.suspect /\ Hurt(trouble).failed = trouble.failed
      BY DEF Hurt
  <1>9. /\ b \in [Files -> DiskFiles] /\ b[f].download = <<>>
        /\ b[f].digest \in {Absent, writing.digest}
        /\ \A g \in Files : g # f => b[g] = after.files[g]
      BY <1>1, <1>5, TurnFacts
  <1>d. f = m.file_num /\ e = writing.file_num /\ k = PosBefore(m)
      OBVIOUS
  <1> HIDE DEF f, e, k
  <1>0. Len(<<>>) = 0 /\ Part(version[f], 0) = <<>> /\ <<>> # None
      BY <1>1, PartEmpty, TransferNumbers
  <1>10. AllVouched(b, version, h)
    <2>1. Vouched(b[f], f, version, h)
        BY <1>0, <1>1, <1>2, <1>9, <1>d DEF Vouched
    <2>2. ASSUME NEW g \in Files, g # f PROVE Vouched(b[g], g, version, h)
        BY <2>2, <1>5, <1>7, <1>8, <1>9 DEF AllVouched, Vouched
    <2> QED  BY <2>1, <2>2 DEF AllVouched
  <1>11. PutReady(m, version, w, b, h)
    <2>1. ASSUME f \notin h.suspect PROVE Holds(f, k, version, w, b, h)
      <3>1. f \notin trouble.failed
          BY <2>1, <1>5, <1>7, <1>8
      <3>2. f # Closed
          BY <1>1, TransferNumbers
      <3>3. k = 0
          BY <3>1, <3>2, <1>2, <1>3, <1>8, <1>d DEF ReadyAt
      <3> QED  BY <3>3, <1>0, <1>4, <1>9, <1>d DEF Holds
    <2> QED  BY <2>1, <1>1, <1>4, <1>d DEF PutReady
  <1>12. ASSUME NEW g \in Files \ t.failed,
                Landed(g, version, writing, disk, Hurt(trouble))
         PROVE  Landed(g, version, w, b, h)
    <2>g. /\ g \in Nat /\ version[g] \in Nat \ {0} /\ Sizes[g] \in Nat /\ g # Closed
          /\ version[g] \in Nat
        BY FileFacts
    <2>1. g # f => (g \in trouble.suspect => g \in h.suspect)
        BY <1>5, <1>7, <1>8
    <2>2. CASE g < e
      <3>1. g # f /\ g < f /\ g # e
          BY <2>2, <2>g, <1>1, <1>2, <1>3
      <3>2. b[g] = disk[g]
          BY <3>1, <1>5, <1>9
      <3>3. g \in trouble.suspect \/ disk[g].path = Content(g, version[g])
          BY <3>1, <1>12, <1>8, <1>d DEF Landed
      <3> QED  BY <3>1, <3>2, <3>3, <2>1, <1>4 DEF Landed
    <2>3. CASE ~(g < e)
      <3>1. /\ g = e /\ writing.data_stream = g
            /\ g \in trouble.suspect \/ disk[g].download = Content(g, version[g])
          BY <2>3, <1>12, <1>8, <1>d DEF Landed
      <3>2. f # g /\ g < f
        <4>1. g # Closed
            BY <2>g
        <4> QED  BY <4>1, <3>1, <2>g, <1>1, <1>2, <1>3
      <3>3. disk[g].download = Content(g, version[g]) => disk[g].download # None
          BY <2>g, ContentIsPart, PartNotNone
      <3>4. b[g] = after.files[g]
          BY <3>2, <1>9
      <3>5. disk[g].download = Content(g, version[g]) => b[g].path = Content(g, version[g])
          BY <3>1, <3>3, <3>4, <1>6, <1>7
      <3> QED  BY <3>1, <3>2, <3>5, <2>1, <1>4 DEF Landed
    <2> QED  BY <2>2, <2>3
  <1> QED  BY <1>4, <1>5, <1>7, <1>9, <1>10, <1>11, <1>12

(* It can, too, when the block is of the file under way.                   *)
LEMMA StaysReady ==
    ASSUME writing \in WriteJob, NEW h \in Hurts, h.failed \subseteq h.suspect,
           WriterInv(writing, h), NEW m \in Messages, m.kind = "block", Shaped(m),
           ~TurnsTo(m), ReadyFor(m, version, writing, disk, h)
    PROVE  PutReady(m, version, writing, disk, h)
  <1> DEFINE f == m.file_num
             k == PosBefore(m)
             s == writing.data_stream
  <1>1. writing.file_num = f /\ s # Closed /\ s \in Files /\ f \in Files
    <2>1. f \in Files
        BY MessageFacts
    <2> QED  BY <2>1 DEF TurnsTo, WriteJob
  <1>2. ReadyAt(f, k, version, writing, disk, h)
      BY DEF ReadyFor
  <1>3. s # f => s \in h.failed /\ f \in h.failed
      BY <1>1, <1>2 DEF WriterInv, ReadyAt
  <1>4. f \notin h.suspect => Holds(f, k, version, writing, disk, h)
      BY <1>1, <1>2 DEF ReadyAt
  <1> QED  BY <1>1, <1>3, <1>4 DEF PutReady

LEMMA AppendedFacts ==
    ASSUME NEW b \in [Files -> DiskFiles], NEW s \in Files, NEW data \in Bytes,
           NEW d, d = Appended(b, s, data)
    PROVE  /\ d \in [Files -> DiskFiles] /\ d[s].digest = b[s].digest
           /\ b[s].download # None => d[s].download = b[s].download \o data
           /\ \A g \in Files : g # s => d[g] = b[g]
  <1>1. b[s] \in DiskFiles
      OBVIOUS
  <1>2. b[s].download \o data \in Bytes /\ b[s].path \o data \in Bytes
      BY <1>1 DEF DiskFiles, Bytes
  <1>3. CASE b[s].download # None
    <2> DEFINE new == b[s].download \o data
    <2>1. d = SetDownload(b, s, new)
        BY <1>3 DEF Appended, SetDownload
    <2>2. new \in Bytes /\ new = b[s].download \o data
        BY <1>2
    <2> HIDE DEF new
    <2>3. d \in [Files -> DiskFiles] /\ \A g \in Files : g # s => d[g] = b[g]
        BY <2>1, <2>2, DownloadSet
    <2>4. d[s].download = new
        BY <2>1, <1>1 DEF SetDownload, DiskFiles
    <2>5. d[s].digest = b[s].digest
        BY <2>1, <2>2, DownloadSet
    <2> QED  BY <2>2, <2>3, <2>4, <2>5
  <1>4. CASE b[s].download = None
    <2>1. d = [b EXCEPT ![s].path = b[s].path \o data]
        BY <1>4 DEF Appended
    <2> QED  BY <2>1, <1>2, <1>4 DEF DiskFiles
  <1> QED  BY <1>3, <1>4

(* What the last part of write leaves of the files b and the trouble t.     *)
PutsTo(d, u, m, b, w, t) ==
    \/ d = Appended(b, w.data_stream, m.data) /\ u = t
    \/ m.data # <<>> /\ d = b /\ u = Fails(t, {m.file_num, w.data_stream})

(* Writing a block puts it behind the blocks before it, lets no file that   *)
(* has landed go, and leaves the writing job where the block leads; if      *)
(* write_all fails, nothing is claimed of the file any more.                *)
LEMMA PutLands ==
    ASSUME NEW ver \in [Files -> Versions], NEW w \in WriteJob, NEW b \in [Files -> DiskFiles],
           NEW t \in Troubles, t.failed \subseteq t.suspect, NEW h, h = Hurt(t),
           AllVouched(b, ver, h),
           NEW m \in Messages, m.kind = "block", Shaped(m), Truthful(m, ver, w, h),
           PutReady(m, ver, w, b, h), w.digest <= ver[m.file_num],
           NEW d, NEW u, PutsTo(d, u, m, b, w, t), NEW h2, h2 = Hurt(u)
    PROVE  /\ d \in [Files -> DiskFiles] /\ u \in Troubles /\ u.failed \subseteq u.suspect
           /\ u.changed = t.changed /\ t.failed \subseteq u.failed
           /\ AllVouched(d, ver, h2) /\ WriterInv(w, h2)
           /\ ReadyAt(FileAfter(m), PosAfter(m), ver, w, d, h2)
           /\ \A g \in Files \ (u.changed \cup u.failed) :
                Landed(g, ver, w, b, h) => Landed(g, ver, w, d, h2)
           /\ EndOf(m) /\ m.file_num \notin u.changed \cup u.failed
                => Landed(m.file_num, ver, w, d, h2)
  <1> DEFINE f == m.file_num
             s == w.data_stream
             k == PosBefore(m)
             n == Sizes[f]
             v == ver[f]
  <1>1. /\ f \in Files /\ f \in Nat /\ k \in Nat /\ n \in Nat /\ k <= n
        /\ v \in Nat /\ v \in Nat \ {0} /\ m.data \in Bytes
    <2>1. f \in Files /\ k \in Nat /\ k <= n /\ m \in Blocks
        BY MessageFacts
    <2> QED  BY <2>1, FileFacts DEF Blocks
  <1>2. /\ EndOf(m) => /\ m.data = <<>> /\ k = n /\ PosAfter(m) = 0 /\ FileAfter(m) = f + 1
        /\ ~EndOf(m) => /\ m.data # <<>> /\ k + 1 <= n
                        /\ PosAfter(m) = k + 1 /\ FileAfter(m) = f
                        /\ \E x \in Versions : m.data = << <<x, k + 1>> >>
      BY MessageFacts
  <1>3. Known(f, ver, w, h) /\ ~EndOf(m) => m.data = << <<v, k + 1>> >>
      BY KnownBlock
  <1>4. /\ w.file_num = f /\ s \in Files
        /\ s # f => s \in t.failed /\ f \in t.failed
        /\ f \notin t.suspect => Holds(f, k, ver, w, b, h)
      BY DEF PutReady, Hurt
  <1>5. h.failed = t.failed /\ h.suspect = t.suspect /\ h.changed = t.changed
        /\ h2.failed = u.failed /\ h2.suspect = u.suspect /\ h2.changed = u.changed
      BY DEF Hurt
  <1>c. Content(f, v) = Part(v, n)
      BY <1>1, ContentIsPart
  <1>d. f = m.file_num /\ s = w.data_stream /\ k = PosBefore(m) /\ v = ver[f] /\ n = Sizes[f]
      OBVIOUS
  <1> HIDE DEF f, s, k, v, n
  <1>6. CASE m.data # <<>> /\ d = b /\ u = Fails(t, {f, s})
    <2>1. /\ u \in Troubles /\ u.failed \subseteq u.suspect
          /\ u.failed = t.failed \cup {f, s} /\ u.suspect = t.suspect \cup {f, s}
          /\ u.changed = t.changed
      <3>1. {f, s} \in SUBSET Files
          BY <1>1, <1>4
      <3> QED  BY <3>1, <1>6, FailsFacts
    <2>2. AllVouched(d, ver, h2)
        BY <2>1, <1>5, <1>6 DEF AllVouched, Vouched
    <2>3. WriterInv(w, h2)
        BY <2>1, <1>5, <1>d DEF WriterInv
    <2>4. ~EndOf(m) /\ ReadyAt(FileAfter(m), PosAfter(m), ver, w, d, h2)
        BY <2>1, <1>1, <1>2, <1>4, <1>5, <1>6 DEF ReadyAt, EndOf
    <2>5. \A g \in Files : Landed(g, ver, w, b, h) => Landed(g, ver, w, d, h2)
        BY <2>1, <1>5, <1>6 DEF Landed
    <2> QED  BY <2>1, <2>2, <2>3, <2>4, <2>5, <1>6
  <1>7. CASE d = Appended(b, s, m.data) /\ u = t
    <2>1. /\ d \in [Files -> DiskFiles] /\ d[s].digest = b[s].digest
          /\ b[s].download # None => d[s].download = b[s].download \o m.data
          /\ \A g \in Files : g # s => d[g] = b[g]
      <3> DEFINE data == m.data
      <3>1. data \in Bytes /\ s \in Files /\ d = Appended(b, s, data)
          BY <1>1, <1>4, <1>7
      <3> HIDE DEF data
      <3>2. /\ d \in [Files -> DiskFiles] /\ d[s].digest = b[s].digest
            /\ b[s].download # None => d[s].download = b[s].download \o data
            /\ \A g \in Files : g # s => d[g] = b[g]
          BY <3>1, AppendedFacts
      <3> QED  BY <3>2 DEF data
    <2> DEFINE k2 == IF EndOf(m) THEN k ELSE k + 1
    <2>2. k2 \in Nat /\ k2 <= n /\ (EndOf(m) => k2 = k) /\ (~EndOf(m) => k2 = k + 1)
        BY <1>1, <1>2
    <2> HIDE DEF k2
    <2>3. ASSUME f \notin t.suspect PROVE Holds(f, k2, ver, w, d, h)
      <3>1. /\ s = f /\ b[f].download # None /\ Len(b[f].download) = k
            /\ b[f].digest \in {Absent, NoDigest, w.digest} /\ w.digest <= v
            /\ Known(f, ver, w, h) => b[f].download = Part(v, k)
          BY <2>3, <1>4, <1>d DEF Holds
      <3>2. /\ d[f].download = b[f].download \o m.data /\ d[f].digest = b[f].digest
            /\ b[f].download \in Bytes /\ d[f].download \in Bytes
        <4>1. b[f] \in DiskFiles /\ d[f] \in DiskFiles
            BY <2>1, <1>1
        <4> QED  BY <4>1, <3>1, <2>1 DEF DiskFiles
      <3>3. Len(d[f].download) = k2 /\ (Known(f, ver, w, h) => d[f].download = Part(v, k2))
        <4>1. CASE EndOf(m)
          <5>1. b[f].download \o <<>> = b[f].download
              BY <3>2 DEF Bytes
          <5> QED  BY <5>1, <4>1, <3>1, <3>2, <2>2, <1>2
        <4>2. CASE ~EndOf(m)
          <5>1. PICK x \in Versions : m.data = << <<x, k + 1>> >>
              BY <4>2, <1>2
          <5>2. Len(b[f].download \o << <<x, k + 1>> >>) = k + 1
            <6>1. Len(<< <<x, k + 1>> >>) = 1
                OBVIOUS
            <6>2. Len(b[f].download \o m.data) = Len(b[f].download) + Len(m.data)
                BY <3>2, <1>1, ConcatProperties DEF Bytes
            <6> QED  BY <6>1, <6>2, <5>1, <3>1
          <5>3. Known(f, ver, w, h) => d[f].download = Part(v, k + 1)
              BY <4>2, <3>1, <3>2, <1>1, <1>3, PartGrows
          <5> QED  BY <5>1, <5>2, <5>3, <4>2, <3>2, <2>2
        <4> QED  BY <4>1, <4>2
      <3>4. d[f].download # None
        <4>1. None = << <<0, 0>> >> /\ Len(None) = 1 /\ None[1] = <<0, 0>>
            BY DEF None
        <4>2. CASE EndOf(m)
          <5>1. b[f].download \o <<>> = b[f].download
              BY <3>2 DEF Bytes
          <5> QED  BY <5>1, <4>2, <3>1, <3>2, <1>2
        <4>3. CASE ~EndOf(m)
          <5>1. PICK x \in Versions : m.data = << <<x, k + 1>> >>
              BY <4>3, <1>2
          <5>2. x # 0 /\ k2 = k + 1
              BY <4>3, <2>2, TransferNumbers
          <5>3. CASE k = 0
            <6>1. b[f].download = <<>>
                BY <5>3, <3>1, <3>2, EmptySeq DEF Bytes
            <6>2. d[f].download = << <<x, 1>> >>
                BY <6>1, <5>1, <5>3, <3>2
            <6> QED  BY <6>2, <5>2, <4>1
          <5>4. CASE k # 0
            <6>1. Len(d[f].download) = k + 1
                BY <5>2, <3>3
            <6>2. k + 1 # 1
                BY <5>4, <1>1
            <6> QED  BY <6>1, <6>2, <4>1
          <5> QED  BY <5>3, <5>4
        <4> QED  BY <4>2, <4>3
      <3> QED  BY <3>1, <3>2, <3>3, <3>4, <1>d DEF Holds
    <2>4. AllVouched(d, ver, h2)
      <3>1. ASSUME NEW g \in Files, g # s PROVE Vouched(d[g], g, ver, h2)
          BY <3>1, <2>1, <1>5, <1>7 DEF AllVouched, Vouched
      <3>2. Vouched(d[s], s, ver, h2)
        <4>1. CASE s \in t.suspect
            BY <4>1, <1>5, <1>7 DEF Vouched
        <4>2. CASE s \notin t.suspect
          <5>1. s = f
              BY <4>2, <1>4
          <5>2. Holds(f, k2, ver, w, d, h)
              BY <4>2, <5>1, <2>3
          <5>3. w.digest = v => Known(f, ver, w, h)
              BY <1>d DEF Known
          <5> QED  BY <5>1, <5>2, <5>3, <2>2, <1>1, <1>d DEF Vouched, Holds
        <4> QED  BY <4>1, <4>2
      <3> QED  BY <3>1, <3>2 DEF AllVouched
    <2>5. WriterInv(w, h2)
        BY <1>4, <1>5, <1>7, <1>d DEF WriterInv
    <2>6. ReadyAt(FileAfter(m), PosAfter(m), ver, w, d, h2)
      <3>1. CASE EndOf(m)
          BY <3>1, <1>1, <1>2, <1>4 DEF ReadyAt
      <3>2. CASE ~EndOf(m)
        <4>1. f \notin t.suspect => Holds(f, k + 1, ver, w, d, h2)
            BY <3>2, <2>2, <2>3, <1>5, <1>7 DEF Holds, Known
        <4>2. s # f => f \in h2.failed
            BY <1>4, <1>5, <1>7
        <4>3. k + 1 > 0 /\ f <= f
            BY <1>1
        <4> QED  BY <4>1, <4>2, <4>3, <3>2, <1>2, <1>4, <1>5, <1>7, <1>d DEF ReadyAt
      <3> QED  BY <3>1, <3>2
    <2>7. EndOf(m) /\ f \notin u.changed \cup u.failed => Landed(f, ver, w, d, h2)
      <3>1. ASSUME EndOf(m), f \notin u.changed \cup u.failed, f \notin u.suspect
            PROVE  d[f].download = Content(f, v)
        <4>1. Known(f, ver, w, h)
            BY <3>1, <1>5, <1>7 DEF Known
        <4> QED  BY <4>1, <3>1, <2>2, <2>3, <1>2, <1>7, <1>c, <1>d DEF Holds
      <3> QED  BY <3>1, <1>4, <1>5, <1>7, <1>d DEF Landed
    <2>8. ASSUME NEW g \in Files, g \notin u.changed \cup u.failed, Landed(g, ver, w, b, h)
          PROVE  Landed(g, ver, w, d, h2)
      <3>g. g \in Nat
          BY FileFacts
      <3>1. CASE g = f
        <4>1. s = f
            BY <3>1, <2>8, <1>4, <1>7
        <4>2. CASE f \in t.suspect
            BY <4>1, <4>2, <3>1, <1>4, <1>5, <1>7, <1>d DEF Landed
        <4>3. CASE f \notin t.suspect
          <5>1. b[f].download = Part(v, n)
              BY <4>3, <3>1, <2>8, <1>1, <1>4, <1>5, <1>c, <1>d DEF Landed
          <5>2. Len(b[f].download) = k
              BY <4>3, <1>4 DEF Holds
          <5>3. k = n
              BY <5>1, <5>2, <1>1, PartFacts
          <5>4. EndOf(m)
              BY <5>3, <1>1, <1>2
          <5> QED  BY <5>4, <3>1, <2>7, <2>8
        <4> QED  BY <4>2, <4>3
      <3>2. CASE g # f
        <4>1. g # s
            BY <3>2, <2>8, <1>4, <1>7
        <4>2. d[g] = b[g]
            BY <4>1, <2>1
        <4> QED  BY <4>2, <3>2, <2>8, <1>4, <1>5, <1>7 DEF Landed
      <3> QED  BY <3>1, <3>2
    <2> QED  BY <2>1, <2>4, <2>5, <2>6, <2>7, <2>8, <1>7, <1>d
  <1> QED  BY <1>6, <1>7, <1>d DEF PutsTo

(* Starting and losing a job *)

LEMMA JobFacts ==
    ASSUME TransferInv
    PROVE  /\ writing # NoJob => writing \in WriteJob /\ ~done
           /\ reading # NoJob => reading \in ReadJob /\ writing # NoJob
           /\ disk \in [Files -> DiskFiles] /\ version \in [Files -> Versions]
           /\ trouble \in Troubles /\ trouble.failed \subseteq trouble.suspect
           /\ AllVouched(disk, version, Hurt(trouble))
           /\ Hurt(trouble) \in Hurts /\ Hurt(trouble).failed = trouble.failed
           /\ Hurt(trouble).changed = trouble.changed
           /\ Hurt(trouble).suspect = trouble.suspect
  <1>1. /\ writing # NoJob => writing \in WriteJob /\ ~done
        /\ reading # NoJob => reading \in ReadJob /\ writing # NoJob
        /\ disk \in [Files -> DiskFiles] /\ version \in [Files -> Versions]
        /\ trouble.failed \subseteq trouble.suspect
        /\ AllVouched(disk, version, Hurt(trouble))
      BY DEF TransferInv, TransferTypes, TransferTypeOK
  <1>2. trouble \in [failed : SUBSET Files, changed : SUBSET Files, suspect : SUBSET Files,
                     faults : 0..MaxFaults]
      BY DEF TransferInv, TransferTypes, TransferTypeOK
  <1>3. trouble \in Troubles
      BY <1>2, TransferAssumption DEF Troubles
  <1> QED  BY <1>1, <1>3, HurtFacts

LEMMA TroubleType ==
    ASSUME NEW t \in Troubles, t.faults <= MaxFaults
    PROVE  t \in [failed : SUBSET Files, changed : SUBSET Files, suspect : SUBSET Files,
                  faults : 0..MaxFaults]
  BY TransferAssumption DEF Troubles

LEMMA EmptyFlows ==
    ASSUME NEW ver, NEW w, NEW dk, NEW h
    PROVE  Flows(<<>>, ver, w, dk, h)
  BY DEF Flows, Walk

LEMMA TransferInitInv == ASSUME TransferInit PROVE TransferInv
  <1> USE TransferNumbers DEF TransferInit
  <1>1. disk \in [Files -> DiskFiles]
    <2>1. NoFiles \in DiskFiles /\ NoFiles.digest = Absent
        BY DEF NoFiles, DiskFiles
    <2>2. [NoFiles EXCEPT !.path = <<>>] \in DiskFiles
        BY <2>1 DEF DiskFiles
    <2> QED  BY <2>1, <2>2
  <1>2. \A f \in Files : disk[f].digest = Absent
      BY DEF NoFiles
  <1>3. AllVouched(disk, version, Hurt(trouble))
      BY <1>2 DEF AllVouched, Vouched
  <1>4. TransferTypeOK
    <2>1. version \in [Files -> Versions]
        BY DEF Versions
    <2>2. attempts \in 0..MaxAttempts /\ saved \in 0..(Len(Sizes) + 1)
        BY TransferAssumption
    <2>3. fate \in [Files -> {"none", "sent", "skipped", "error"}]
        OBVIOUS
    <2>4. DOMAIN disk = Files
        BY <1>1
    <2>5. 0 \in 0..MaxFaults
        BY TransferAssumption
    <2> QED  BY <2>1, <2>2, <2>3, <2>4, <2>5 DEF TransferTypeOK
  <1>5. TransferTypes
      BY <1>1, <1>4, EmptySeq DEF TransferTypes
  <1>6. trouble.failed \subseteq trouble.suspect
      OBVIOUS
  <1> QED  BY <1>3, <1>5, <1>6 DEF TransferInv, SentIsWhole

LEMMA TransferStutter == ASSUME TransferInv, UNCHANGED transferVars PROVE TransferInv'
  <1> USE DEF transferVars
  <1>1. TransferTypes'
      BY DEF TransferInv, TransferTypes, TransferTypeOK
  <1>2. SentIsWhole'
      BY DEF TransferInv, SentIsWhole
  <1> QED  BY <1>1, <1>2 DEF TransferInv

(* When both jobs are gone, what counts is what is on disk.                *)
LEMMA EndsInv ==
    ASSUME TransferInv, writing # NoJob, Ends, saved' \in 0..(Len(Sizes) + 1),
           disk' \in [Files -> DiskFiles], trouble' \in Troubles,
           trouble'.failed \subseteq trouble'.suspect, trouble'.faults <= MaxFaults,
           AllVouched(disk', version, Hurt(trouble'))
    PROVE  TransferInv'
  <1>1. /\ reading' = NoJob /\ writing' = NoJob /\ toWriter' = <<>> /\ toReader' = <<>>
        /\ fate' = [f \in Files |-> "none"] /\ ~done
        /\ UNCHANGED <<version, attempts, done>>
      BY JobFacts DEF Ends
  <1>2. trouble' \in [failed : SUBSET Files, changed : SUBSET Files, suspect : SUBSET Files,
                      faults : 0..MaxFaults]
      BY TroubleType
  <1>3. DOMAIN disk' = Files
      OBVIOUS
  <1>4. TransferTypes'
      BY <1>1, <1>2, <1>3, EmptySeq DEF TransferInv, TransferTypes, TransferTypeOK
  <1> QED  BY <1>1, <1>4 DEF TransferInv, SentIsWhole

LEMMA StopsInv ==
    ASSUME TransferInv, writing # NoJob, Stops,
           NEW t \in Troubles, t.failed \subseteq t.suspect, trouble' = Forgets(t),
           trouble'.faults <= MaxFaults,
           disk' \in [Files -> DiskFiles], AllVouched(disk', version, Hurt(t))
    PROVE  TransferInv'
  <1>1. writing.file_num \in 0..(Len(Sizes) + 1)
      BY JobFacts, TransferNumbers DEF WriteJob
  <1>2. /\ trouble' \in Troubles /\ trouble'.failed = {} /\ trouble'.suspect = t.suspect
      BY HurtFacts
  <1>3. AllVouched(disk', version, Hurt(trouble'))
    <2>1. Hurt(t).suspect = t.suspect /\ Hurt(trouble').suspect = trouble'.suspect
        BY DEF Hurt
    <2> QED  BY <2>1, <1>2 DEF AllVouched, Vouched
  <1> QED  BY <1>1, <1>2, <1>3, EndsInv DEF Stops

LEMMA ConnectionLostInv ==
    ASSUME TransferInv, ConnectionLost, trouble'.faults <= MaxFaults PROVE TransferInv'
  BY JobFacts, StopsInv DEF ConnectionLost

LEMMA CancelInv ==
    ASSUME TransferInv, Cancel, trouble'.faults <= MaxFaults PROVE TransferInv'
  <1>1. PICK after \in RemoveDownload(writing.file_num) :
          disk' = after.files /\ trouble' = Forgets(after.trouble)
      BY DEF Cancel
  <1>2. /\ after.files \in [Files -> DiskFiles] /\ after.trouble \in Troubles
        /\ after.trouble.failed \subseteq after.trouble.suspect
        /\ AllVouched(after.files, version, Hurt(after.trouble))
      BY JobFacts, RemoveFacts
  <1>3. /\ trouble' \in Troubles /\ trouble'.failed = {}
        /\ trouble'.suspect = after.trouble.suspect
      BY <1>1, <1>2, HurtFacts
  <1>4. AllVouched(disk', version, Hurt(trouble'))
    <2>1. /\ Hurt(after.trouble).suspect = after.trouble.suspect
          /\ Hurt(trouble').suspect = trouble'.suspect
        BY DEF Hurt
    <2> QED  BY <2>1, <1>1, <1>2, <1>3 DEF AllVouched, Vouched
  <1>5. 0 \in 0..(Len(Sizes) + 1)
      BY TransferNumbers
  <1> QED  BY <1>1, <1>2, <1>3, <1>4, <1>5, EndsInv DEF Cancel

(* What a change of the source does to what was said of it.                *)
LEMMA SourceChangesInv ==
    ASSUME TransferInv, NEW f \in Files, SourceChanges(f), trouble'.faults <= MaxFaults
    PROVE  TransferInv'
  <1> DEFINE h == Hurt(trouble)
             h2 == Hurt(trouble')
  <1>1. /\ version' = [version EXCEPT ![f] = version[f] + 1]
        /\ trouble' = [trouble EXCEPT !.changed = trouble.changed \cup {f}]
        /\ UNCHANGED <<reading, writing, disk, toWriter, toReader, saved, attempts, fate, done>>
      BY DEF SourceChanges, connection
  <1>j. /\ disk \in [Files -> DiskFiles] /\ version \in [Files -> Versions]
        /\ trouble \in Troubles /\ trouble.failed \subseteq trouble.suspect
        /\ AllVouched(disk, version, Hurt(trouble))
        /\ h.failed = trouble.failed /\ h.changed = trouble.changed
        /\ h.suspect = trouble.suspect
      BY JobFacts
  <1>2. /\ version' \in [Files -> Versions] /\ version'[f] = version[f] + 1
        /\ \A g \in Files : g # f => version'[g] = version[g]
        /\ \A g \in Files : version[g] \in Nat /\ version'[g] \in Nat /\ version[g] <= version'[g]
        /\ version[f] < version'[f]
    <2>1. version[f] < MaxVersion /\ version[f] \in Versions
        BY <1>j DEF SourceChanges
    <2>2. version[f] + 1 \in Versions
        BY <2>1, TransferNumbers DEF Versions
    <2>3. /\ version' \in [Files -> Versions] /\ version'[f] = version[f] + 1
          /\ \A g \in Files : g # f => version'[g] = version[g]
        BY <2>2, <1>1, <1>j
    <2>4. \A g \in Files : version[g] \in Nat /\ version'[g] \in Nat
        BY <2>3, <1>j, FileFacts
    <2> QED  BY <2>3, <2>4
  <1>3. /\ trouble' \in Troubles /\ trouble'.failed = trouble.failed
        /\ trouble'.suspect = trouble.suspect /\ trouble'.changed = trouble.changed \cup {f}
      BY <1>1, <1>j DEF Troubles
  <1>4. h2.failed = trouble.failed /\ h2.suspect = trouble.suspect
        /\ h2.changed = trouble.changed \cup {f}
      BY <1>3 DEF Hurt
  <1>5. TransferTypes'
    <2>1. trouble' \in [failed : SUBSET Files, changed : SUBSET Files, suspect : SUBSET Files,
                        faults : 0..MaxFaults]
        BY <1>3, TroubleType
    <2> QED  BY <2>1, <1>1, <1>2 DEF TransferInv, TransferTypes, TransferTypeOK
  <1>6. AllVouched(disk, version', h2)
    <2>1. ASSUME NEW g \in Files, Vouched(disk[g], g, version, h)
          PROVE  Vouched(disk[g], g, version', h2)
      <3>1. disk[g].digest \in Int
        <4>1. disk[g] \in DiskFiles
            BY <1>j
        <4> QED  BY <4>1, TransferNumbers DEF DiskFiles
      <3> QED  BY <3>1, <2>1, <1>2, <1>4, <1>j DEF Vouched
    <2> QED  BY <2>1, <1>j DEF AllVouched
  <1>7. ASSUME writing # NoJob
        PROVE  ActiveInv(toWriter, toReader, version', reading, writing, disk, fate, h2)
    <2> DEFINE q == toWriter
               w == writing
    <2>1. /\ QueueInv(q, toReader, version, reading, w, disk, h)
          /\ MarkInv(q, version, reading, w) /\ WriterInv(w, h)
          /\ AnswerInv(q, toReader, version, reading, w, disk, h)
          /\ SentInv(q, fate, version, w, disk, h)
        BY <1>7 DEF TransferInv, ActiveInv
    <2>2. q \in Seq(Messages) /\ w.digest \in Nat /\ w.file_num \in Nat
        BY <1>7, JobFacts, TransferNumbers DEF TransferInv, TransferTypes, WriteJob
    <2> HIDE DEF q, w, h, h2
    <2>3. \A g, k : ReadyAt(g, k, version, w, disk, h) /\ g \in Files
                      => ReadyAt(g, k, version', w, disk, h2)
      <3>1. \A g \in Files : Known(g, version', w, h2) /\ w.digest <= version[g]
                               => Known(g, version, w, h) /\ version'[g] = version[g]
          BY <1>2, <1>4, <1>j, <2>2 DEF Known
      <3>2. \A g, k : g \in Files /\ Holds(g, k, version, w, disk, h)
                        => Holds(g, k, version', w, disk, h2)
          BY <3>1, <1>2, <2>2 DEF Holds
      <3> QED  BY <3>2, <1>4, <1>j DEF ReadyAt
    <2>4. \A g : ReadyAt(g, 0, version, w, disk, h) => ReadyAt(g, 0, version', w, disk, h2)
        BY <1>4, <1>j DEF ReadyAt
    <2>5. \A i \in 1..Len(q) : q[i] \in Messages /\ Shaped(q[i])
        BY <2>1, <2>2, ElementOfSeq DEF QueueInv, Flows, Walk
    <2>6. ASSUME NEW i \in 1..Len(q) PROVE Truthful(q[i], version', w, h2)
      <3> DEFINE m == q[i]
      <3>1. m \in Messages /\ Shaped(m) /\ Truthful(m, version, w, h)
          BY <2>1, <2>5 DEF QueueInv, Flows, Walk
      <3>2. m.kind = "block" => m.file_num \in Files /\ w.digest <= version[m.file_num]
          BY <3>1, <2>1, MessageFacts DEF MarkInv
      <3>3. m.kind = "digest" => m.file_num \in Files /\ m.digest \in Nat
          BY <3>1, MessageFacts, TransferNumbers
      <3> HIDE DEF m
      <3>4. m.kind = "digest" =>
              /\ m.digest <= version'[m.file_num]
              /\ m.file_num \notin h2.changed => m.digest = version'[m.file_num]
          BY <3>1, <3>3, <1>2, <1>4, <1>j DEF Truthful
      <3>5. m.kind = "block" /\ m.data # <<>> /\ Known(m.file_num, version', w, h2)
              => m.data[1][1] = version'[m.file_num]
        <4>1. ASSUME m.kind = "block", Known(m.file_num, version', w, h2)
              PROVE  Known(m.file_num, version, w, h) /\ version'[m.file_num] = version[m.file_num]
            BY <4>1, <3>2, <2>2, <1>2, <1>4, <1>j DEF Known
        <4> QED  BY <4>1, <3>1 DEF Truthful
      <3> QED  BY <3>4, <3>5 DEF Truthful, m
    <2>7. Walk(q, version', w, h2)
        BY <2>1, <2>5, <2>6 DEF QueueInv, Flows, Walk
    <2>8. ASSUME q # <<>> PROVE ReadyFor(q[1], version', w, disk, h2)
      <3>1. 1 \in 1..Len(q)
          BY <2>2, <2>8, EmptySeq
      <3>2. q[1] \in Messages /\ Shaped(q[1]) /\ ReadyFor(q[1], version, w, disk, h)
          BY <3>1, <2>1, <2>5, <2>8 DEF QueueInv, Flows
      <3>3. CASE q[1].kind = "block"
        <4>1. q[1].file_num \in Files
            BY <3>2, <3>3, MessageFacts
        <4> QED  BY <4>1, <3>2, <2>3 DEF ReadyFor
      <3>4. CASE q[1].kind # "block"
          BY <3>2, <3>4, <2>4 DEF ReadyFor, PosBefore
      <3> QED  BY <3>3, <3>4
    <2>9. ASSUME q = <<>>, reading # NoJob, toReader = <<>>
          PROVE  ReadyAt(reading.file_num, Pos(reading), version', w, disk, h2)
      <3>1. ReadyAt(reading.file_num, Pos(reading), version, w, disk, h)
          BY <2>1, <2>9 DEF QueueInv, LeadsTo
      <3>2. ReaderInv(reading) /\ reading \in ReadJob
          BY <2>9, JobFacts DEF TransferInv
      <3>3. CASE Past(reading)
        <4>1. reading.data_stream = Closed
            BY <3>2, <3>3, TransferNumbers DEF ReaderInv
        <4> QED  BY <4>1, <3>1, <2>4 DEF Pos
      <3>4. CASE ~Past(reading)
          BY <3>1, <3>4, <2>3 DEF Past
      <3> QED  BY <3>3, <3>4
    <2>10. QueueInv(q, toReader, version', reading, w, disk, h2)
        BY <2>1, <2>7, <2>8, <2>9 DEF QueueInv, Flows, LeadsTo
    <2>11. MarkInv(q, version', reading, w)
      <3>1. ASSUME NEW i \in 1..Len(q), q[i].kind = "block"
            PROVE  w.digest <= version'[q[i].file_num]
        <4>1. q[i].file_num \in Files /\ w.digest <= version[q[i].file_num]
            BY <3>1, <2>1, <2>5, MessageFacts DEF MarkInv
        <4> QED  BY <4>1, <2>2, <1>2
      <3>2. reading # NoJob /\ reading.confirmed /\ ~Past(reading)
              => w.digest <= version'[reading.file_num]
          BY <2>1, <2>2, <1>2 DEF MarkInv, Past
      <3> QED  BY <3>1, <3>2, <2>1 DEF MarkInv
    <2>12. AnswerInv(q, toReader, version', reading, w, disk, h2)
        BY <2>1, <2>2, <2>3, <2>4, <1>2 DEF AnswerInv
    <2>13. SentInv(q, fate, version', w, disk, h2)
      <3>1. ASSUME NEW g \in Files \ (h2.changed \cup h2.failed), fate[g] = "sent"
            PROVE  \/ \E i \in 1..Len(q) : EndOf(q[i]) /\ q[i].file_num = g
                   \/ Landed(g, version', w, disk, h2)
        <4>1. /\ g \in Files \ (h.changed \cup h.failed) /\ g # f
              /\ version'[g] = version[g]
            BY <1>2, <1>4, <1>j
        <4>2. \/ \E i \in 1..Len(q) : EndOf(q[i]) /\ q[i].file_num = g
              \/ Landed(g, version, w, disk, h)
            BY <4>1, <3>1, <2>1 DEF SentInv
        <4> QED  BY <4>1, <4>2, <1>4, <1>j DEF Landed
      <3> QED  BY <3>1 DEF SentInv
    <2>14. WriterInv(w, h2)
        BY <2>1, <1>4, <1>j DEF WriterInv
    <2> QED  BY <2>10, <2>11, <2>12, <2>13, <2>14 DEF ActiveInv, q, w
  <1>8. SentIsWhole'
      BY <1>1, <1>2, <1>3 DEF TransferInv, SentIsWhole
  <1> QED  BY <1>1, <1>3, <1>5, <1>6, <1>7, <1>8, <1>j DEF TransferInv

LEMMA StartInv ==
    ASSUME TransferInv, NEW detection \in BOOLEAN, NEW is_resume \in BOOLEAN,
           Start(detection, is_resume), trouble'.faults <= MaxFaults
    PROVE  TransferInv'
  <1> DEFINE first == IF is_resume THEN saved ELSE 1
  <1>1. first \in 1..(Len(Sizes) + 1)
    <2>1. saved \in 0..(Len(Sizes) + 1) /\ (is_resume => saved # 0)
        BY DEF TransferInv, TransferTypes, TransferTypeOK, Start
    <2> QED  BY <2>1, TransferNumbers
  <1>2. /\ reading' = [file_num |-> first, data_stream |-> Closed, detection |-> detection,
                       confirmed |-> FALSE, waiting |-> FALSE, skipped |-> FALSE]
        /\ writing' = [file_num |-> first, data_stream |-> Closed, digest |-> NoDigest,
                       is_resume |-> is_resume]
        /\ toWriter = <<>> /\ toReader = <<>> /\ reading = NoJob /\ writing = NoJob
        /\ attempts < MaxAttempts /\ attempts' = attempts + 1 /\ saved' = 0
        /\ trouble' = Forgets(trouble)
        /\ fate' = [f \in Files |-> "none"] /\ done' = FALSE
        /\ UNCHANGED <<version, disk, toWriter, toReader>>
      BY DEF Start, TransferInv, connection
  <1> HIDE DEF first
  <1>3. reading' \in ReadJob /\ writing' \in WriteJob
      BY <1>1, <1>2, TransferNumbers DEF ReadJob, WriteJob
  <1>4. attempts' \in 0..MaxAttempts /\ saved' \in 0..(Len(Sizes) + 1)
      BY <1>2, TransferNumbers, TransferAssumption DEF TransferInv, TransferTypes, TransferTypeOK
  <1>j. /\ trouble \in Troubles /\ trouble.failed \subseteq trouble.suspect
        /\ AllVouched(disk, version, Hurt(trouble))
      BY JobFacts
  <1>t. /\ trouble' \in Troubles /\ trouble'.failed = {} /\ trouble'.suspect = trouble.suspect
      BY <1>2, <1>j, HurtFacts
  <1>u. trouble' \in [failed : SUBSET Files, changed : SUBSET Files, suspect : SUBSET Files,
                      faults : 0..MaxFaults]
      BY <1>t, TroubleType
  <1>5. TransferTypes'
      BY <1>2, <1>3, <1>4, <1>u DEF TransferInv, TransferTypes, TransferTypeOK
  <1>6. AllVouched(disk', version', Hurt(trouble')) /\ SentIsWhole'
    <2>1. Hurt(trouble').suspect = Hurt(trouble).suspect
        BY <1>t DEF Hurt
    <2> QED  BY <2>1, <1>2, <1>j DEF AllVouched, Vouched, SentIsWhole
  <1>7. ReaderInv(reading')
    <2>1. ~Past(reading') => Sizes[reading'.file_num] \in Nat
        BY TransferNumbers DEF Past
    <2> QED  BY <2>1, <1>2, TransferNumbers DEF ReaderInv
  <1>8. QueueInv(<<>>, <<>>, version', reading', writing', disk', Hurt(trouble'))
    <2>1. Pos(reading') = 0 /\ reading'.file_num = first
        BY <1>2 DEF Pos
    <2>2. ReadyAt(first, 0, version', writing', disk', Hurt(trouble'))
        BY <1>1, <1>2 DEF ReadyAt
    <2> QED  BY <2>1, <2>2, EmptyFlows DEF QueueInv, LeadsTo
  <1>9. MarkInv(<<>>, version', reading', writing') /\ WriterInv(writing', Hurt(trouble'))
      BY <1>2 DEF MarkInv, WriterInv
  <1>10. AnswerInv(<<>>, <<>>, version', reading', writing', disk', Hurt(trouble'))
      BY DEF AnswerInv
  <1>11. SentInv(<<>>, fate', version', writing', disk', Hurt(trouble'))
      BY <1>2 DEF SentInv
  <1>12. ActiveInv(toWriter', toReader', version', reading', writing', disk', fate',
                   Hurt(trouble'))
      BY <1>2, <1>8, <1>9, <1>10, <1>11 DEF ActiveInv
  <1>13. writing' # NoJob
      BY <1>3, TransferNumbers DEF WriteJob, NoJob
  <1> QED  BY <1>2, <1>5, <1>6, <1>7, <1>12, <1>13, <1>t DEF TransferInv

(* The writing job's steps *)

(* The message that a step of the writing job takes.                       *)
LEMMA MessageTaken ==
    ASSUME TransferInv, writing # NoJob, toWriter # <<>>
    PROVE  /\ toWriter \in Seq(Messages) /\ Head(toWriter) = toWriter[1]
           /\ toWriter[1] \in Messages /\ Shaped(toWriter[1])
           /\ Truthful(toWriter[1], version, writing, Hurt(trouble))
           /\ Tail(toWriter) \in Seq(Messages)
           /\ ReadyFor(toWriter[1], version, writing, disk, Hurt(trouble))
           /\ WriterInv(writing, Hurt(trouble))
           /\ toReader = <<>>
           /\ toWriter[1].kind \in {"digest", "done"} => Tail(toWriter) = <<>> /\ Len(toWriter) = 1
           /\ toWriter[1].kind = "done" => reading = NoJob
           /\ toWriter[1].kind = "digest" => Asking(reading)
           /\ toWriter[1].kind = "block" => writing.digest <= version[toWriter[1].file_num]
  <1> DEFINE n == Len(toWriter)
             h == Hurt(trouble)
  <1>1. toWriter \in Seq(Messages) /\ n \in Nat /\ n > 0
      BY EmptySeq DEF TransferInv, TransferTypes
  <1>2. Head(toWriter) = toWriter[1] /\ toWriter[1] \in Messages /\ Tail(toWriter) \in Seq(Messages)
      BY <1>1, ElementOfSeq, HeadTailProperties
  <1>3. /\ QueueInv(toWriter, toReader, version, reading, writing, disk, h)
        /\ MarkInv(toWriter, version, reading, writing) /\ WriterInv(writing, h)
        /\ AnswerInv(toWriter, toReader, version, reading, writing, disk, h)
      BY DEF TransferInv, ActiveInv
  <1>4. 1 \in 1..n
      BY <1>1
  <1>5. /\ Shaped(toWriter[1]) /\ Truthful(toWriter[1], version, writing, h)
        /\ ReadyFor(toWriter[1], version, writing, disk, h)
      BY <1>3, <1>4 DEF QueueInv, Flows, Walk
  <1>6. toReader = <<>>
      BY <1>3 DEF AnswerInv
  <1>7. toWriter[1].kind \in {"digest", "done"} => n = 1
    <2>1. \A i \in 1..(n - 1) : toWriter[i].kind \notin {"digest", "done"}
        BY <1>3 DEF QueueInv, Flows, Walk
    <2>n. n \in Nat /\ n > 0
        BY <1>1
    <2> HIDE DEF n
    <2>2. n # 1 => 1 \in 1..(n - 1)
        BY <2>n
    <2> QED  BY <2>1, <2>2
  <1>8. n = 1 => Tail(toWriter) = <<>>
    <2>1. Len(Tail(toWriter)) = n - 1
        BY <1>1, HeadTailProperties
    <2> QED  BY <1>2, <2>1, EmptySeq
  <1>9. /\ toWriter[1].kind = "done" => reading = NoJob
        /\ toWriter[1].kind = "digest" => Asking(reading)
      BY <1>3, <1>7 DEF QueueInv
  <1>10. toWriter[1].kind = "block" => writing.digest <= version[toWriter[1].file_num]
      BY <1>3, <1>4 DEF MarkInv
  <1>11. toWriter[1].kind \in {"digest", "done"} => Tail(toWriter) = <<>> /\ Len(toWriter) = 1
      BY <1>7, <1>8
  <1> HIDE DEF n
  <1> QED  BY <1>1, <1>2, <1>3, <1>5, <1>6, <1>9, <1>10, <1>11

LEMMA StopsInWriteInv ==
    ASSUME TransferInv, StopsInWrite, trouble'.faults <= MaxFaults PROVE TransferInv'
  <1> DEFINE m == toWriter[1]
  <1>1. /\ writing # NoJob /\ toWriter # <<>> /\ Head(toWriter) = m /\ m.kind = "block"
        /\ m \in Messages /\ Shaped(m) /\ writing.digest <= version[m.file_num]
        /\ ReadyFor(m, version, writing, disk, Hurt(trouble)) /\ m.file_num \in Files
    <2>1. writing # NoJob /\ toWriter # <<>> /\ Head(toWriter).kind = "block"
        BY DEF StopsInWrite, Incoming
    <2> QED  BY <2>1, MessageTaken, MessageFacts
  <1>2. /\ TurnsTo(m) /\ Stops
        /\ \/ /\ disk' = [disk EXCEPT ![writing.file_num].digest = Absent]
              /\ trouble' = Forgets(trouble)
           \/ \E after \in ModifyTime(writing.file_num) :
                \/ /\ disk' \in {after.files, Unmarked(after.files, m)}
                   /\ trouble' = Forgets(after.trouble)
                \/ /\ disk' \in {Created(after.files, m), Marked(after.files, m)}
                   /\ trouble' = Forgets(Begins(after.trouble, m.file_num))
      BY <1>1 DEF StopsInWrite
  <1>j. /\ writing \in WriteJob /\ disk \in [Files -> DiskFiles]
        /\ version \in [Files -> Versions] /\ trouble \in Troubles
        /\ trouble.failed \subseteq trouble.suspect
        /\ AllVouched(disk, version, Hurt(trouble))
      BY <1>1, JobFacts
  <1> HIDE DEF m
  <1>3. CASE /\ disk' = [disk EXCEPT ![writing.file_num].digest = Absent]
             /\ trouble' = Forgets(trouble)
    <2>1. CASE writing.file_num \in Files
      <3> DEFINE f == writing.file_num
      <3>1. f \in Files /\ disk' = SetDigest(disk, f, Absent)
          BY <1>3, <2>1 DEF SetDigest
      <3> HIDE DEF f
      <3>2. /\ disk' \in [Files -> DiskFiles] /\ disk'[f].digest = Absent
            /\ \A g \in Files : g # f => disk'[g] = disk[g]
          BY <3>1, <1>j, DigestSet, TransferNumbers
      <3>3. AllVouched(disk', version, Hurt(trouble))
          BY <3>2, <1>j DEF AllVouched, Vouched
      <3> QED  BY <3>2, <3>3, <1>1, <1>2, <1>3, <1>j, StopsInv
    <2>2. CASE writing.file_num \notin Files
      <3>1. disk' = disk
          BY <1>3, <2>2, <1>j
      <3> QED  BY <3>1, <1>1, <1>2, <1>3, <1>j, StopsInv
    <2> QED  BY <2>1, <2>2
  <1>4. ASSUME NEW after \in ModifyTime(writing.file_num),
               disk' \in {after.files, Unmarked(after.files, m)},
               trouble' = Forgets(after.trouble)
        PROVE  TransferInv'
    <2>1. /\ after.files \in [Files -> DiskFiles] /\ after.trouble \in Troubles
          /\ after.trouble.failed \subseteq after.trouble.suspect
          /\ AllVouched(after.files, version, Hurt(after.trouble))
        BY <1>j, ModifyTimeFacts
    <2>2. /\ Unmarked(after.files, m) \in [Files -> DiskFiles]
          /\ Unmarked(after.files, m)[m.file_num].digest = Absent
          /\ \A g \in Files : g # m.file_num => Unmarked(after.files, m)[g] = after.files[g]
        BY <1>1, <1>j, <2>1, TurnFacts
    <2>3. AllVouched(Unmarked(after.files, m), version, Hurt(after.trouble))
        BY <2>1, <2>2 DEF AllVouched, Vouched
    <2> QED  BY <2>1, <2>2, <2>3, <1>1, <1>2, <1>4, StopsInv
  <1>5. ASSUME NEW after \in ModifyTime(writing.file_num),
               disk' \in {Created(after.files, m), Marked(after.files, m)},
               trouble' = Forgets(Begins(after.trouble, m.file_num))
        PROVE  TransferInv'
    <2> DEFINE t == Begins(after.trouble, m.file_num)
    <2>1. /\ disk' \in [Files -> DiskFiles] /\ t \in Troubles /\ t.failed \subseteq t.suspect
          /\ AllVouched(disk', version, Hurt(t))
        BY <1>1, <1>2, <1>5, <1>j, TurnLands
    <2> QED  BY <2>1, <1>1, <1>2, <1>5, StopsInv
  <1> QED  BY <1>2, <1>3, <1>4, <1>5

(* After a message the writing job goes on with: nothing it has sent or    *)
(* marked is forgotten.                                                    *)
LEMMA GoesOn ==
    ASSUME TransferInv, writing # NoJob, toWriter # <<>>,
           toWriter[1].kind \in {"block", "error"},
           NEW w, NEW d, NEW h, w.file_num \in Nat, w.digest = writing.digest,
           h.changed = trouble.changed, trouble.failed \subseteq h.failed, WriterInv(w, h),
           ReadyAt(FileAfter(toWriter[1]), PosAfter(toWriter[1]), version, w, d, h),
           \A g \in Files \ (h.changed \cup h.failed) :
             Landed(g, version, writing, disk, Hurt(trouble)) => Landed(g, version, w, d, h),
           EndOf(toWriter[1]) /\ toWriter[1].file_num \notin h.changed \cup h.failed
             => Landed(toWriter[1].file_num, version, w, d, h)
    PROVE  ActiveInv(Tail(toWriter), toReader, version, reading, w, d, fate, h)
  <1> DEFINE q == toWriter
             s == Tail(toWriter)
             n == Len(q)
             h0 == Hurt(trouble)
  <1>1. /\ q \in Seq(Messages) /\ q # <<>> /\ toReader = <<>>
        /\ version \in [Files -> Versions] /\ writing.file_num \in Nat
        /\ h0.failed = trouble.failed /\ h0.changed = trouble.changed
      BY MessageTaken, JobFacts, TransferNumbers DEF WriteJob
  <1>2. /\ QueueInv(q, toReader, version, reading, writing, disk, h0)
        /\ MarkInv(q, version, reading, writing)
        /\ SentInv(q, fate, version, writing, disk, h0)
        /\ Flows(q, version, writing, disk, h0)
      BY DEF TransferInv, ActiveInv, QueueInv
  <1>s. s = Tail(q) /\ n = Len(q) /\ q[1] = toWriter[1] /\ h0 = Hurt(trouble)
      OBVIOUS
  <1>3. n > 0 /\ n \in Nat /\ Len(s) = n - 1 /\ \A i \in 1..(n - 1) : s[i] = q[i + 1]
      BY <1>1, EmptySeq, HeadTailProperties
  <1>q. q = toWriter
      OBVIOUS
  <1> HIDE DEF q, s, n, h0
  <1>4. /\ s \in Seq(Messages) /\ Flows(s, version, w, d, h)
        /\ s # <<>> => s[Len(s)] = q[Len(q)]
        /\ \A g, k : LeadsTo(q, g, k, version, writing, disk, h0) => LeadsTo(s, g, k, version, w, d, h)
    <2>1. ReadyAt(FileAfter(q[1]), PosAfter(q[1]), version, w, d, h) /\ h.changed = h0.changed
        BY <1>s, <1>1
    <2>2. s \in Seq(Messages) /\ Flows(s, version, w, d, h)
        BY <2>1, <1>1, <1>2, <1>s, FlowsTail
    <2>3. s # <<>> => s[Len(s)] = q[Len(q)]
        BY <2>1, <1>1, <1>2, <1>s, FlowsTail
    <2>4. \A g, k : LeadsTo(q, g, k, version, writing, disk, h0) => LeadsTo(s, g, k, version, w, d, h)
        BY <2>1, <1>1, <1>2, <1>s, FlowsTail
    <2> QED  BY <2>2, <2>3, <2>4
  <1>5. QueueInv(s, toReader, version, reading, w, d, h)
      BY <1>1, <1>2, <1>4 DEF QueueInv
  <1>6. MarkInv(s, version, reading, w)
    <2>1. \A i \in 1..Len(s) : i + 1 \in 1..n /\ s[i] = q[i + 1]
        BY <1>3
    <2> QED  BY <2>1, <1>2, <1>s DEF MarkInv
  <1>7. AnswerInv(s, toReader, version, reading, w, d, h)
      BY <1>1 DEF AnswerInv
  <1>8. ASSUME NEW f \in Files \ (h.changed \cup h.failed), fate[f] = "sent"
        PROVE  \/ \E i \in 1..Len(s) : EndOf(s[i]) /\ s[i].file_num = f
               \/ Landed(f, version, w, d, h)
    <2>0. f \in Files \ (h0.changed \cup h0.failed)
        BY <1>8, <1>1
    <2>1. CASE Landed(f, version, writing, disk, h0)
        BY <2>1, <1>8, <1>s
    <2>2. CASE \E i \in 1..Len(q) : EndOf(q[i]) /\ q[i].file_num = f
      <3>1. PICK i \in 1..n : EndOf(q[i]) /\ q[i].file_num = f
          BY <2>2, <1>s
      <3>2. CASE i = 1
          BY <3>1, <3>2, <1>8, <1>s
      <3>3. CASE i # 1
        <4>1. i - 1 \in 1..Len(s) /\ s[i - 1] = q[i]
            BY <3>3, <1>3
        <4> QED  BY <3>1, <4>1
      <3> QED  BY <3>2, <3>3
    <2> QED  BY <2>0, <2>1, <2>2, <1>2, <1>8 DEF SentInv
  <1>9. SentInv(s, fate, version, w, d, h)
      BY <1>8 DEF SentInv
  <1>10. ActiveInv(s, toReader, version, reading, w, d, fate, h)
      BY <1>5, <1>6, <1>7, <1>9 DEF ActiveInv
  <1> QED  BY <1>10 DEF s

LEMMA GoesOnInv ==
    ASSUME TransferInv, writing # NoJob, toWriter # <<>>,
           toWriter[1].kind \in {"block", "error"}, toWriter' = Tail(toWriter),
           UNCHANGED <<version, reading, toReader, saved, attempts, fate, done>>,
           NEW w \in WriteJob, writing' = w, w.digest = writing.digest,
           NEW d \in [Files -> DiskFiles], disk' = d,
           NEW t \in Troubles, trouble' = t, t.failed \subseteq t.suspect,
           t.faults <= MaxFaults, t.changed = trouble.changed,
           trouble.failed \subseteq t.failed,
           AllVouched(d, version, Hurt(t)), WriterInv(w, Hurt(t)),
           ReadyAt(FileAfter(toWriter[1]), PosAfter(toWriter[1]), version, w, d, Hurt(t)),
           \A g \in Files \ (t.changed \cup t.failed) :
             Landed(g, version, writing, disk, Hurt(trouble))
             => Landed(g, version, w, d, Hurt(t)),
           EndOf(toWriter[1]) /\ toWriter[1].file_num \notin t.changed \cup t.failed
             => Landed(toWriter[1].file_num, version, w, d, Hurt(t))
    PROVE  TransferInv'
  <1> DEFINE h == Hurt(t)
  <1>1. /\ h.failed = t.failed /\ h.changed = t.changed /\ h = Hurt(t)
        /\ h.changed = trouble.changed /\ trouble.failed \subseteq h.failed
      BY DEF Hurt
  <1>2. w.file_num \in Nat
      BY TransferNumbers DEF WriteJob
  <1>3. ActiveInv(Tail(toWriter), toReader, version, reading, w, d, fate, h)
    <2> HIDE DEF h
    <2> QED  BY <1>1, <1>2, GoesOn
  <1>4. Tail(toWriter) \in Seq(Messages) /\ ~done
      BY MessageTaken, JobFacts
  <1>5. trouble' \in [failed : SUBSET Files, changed : SUBSET Files, suspect : SUBSET Files,
                      faults : 0..MaxFaults]
      BY TroubleType
  <1>6. TransferTypes'
      BY <1>4, <1>5 DEF TransferInv, TransferTypes, TransferTypeOK
  <1>7. SentIsWhole'
      BY <1>4 DEF SentIsWhole
  <1>8. writing' # NoJob
      BY TransferNumbers DEF WriteJob, NoJob
  <1> QED  BY <1>3, <1>4, <1>6, <1>7, <1>8 DEF TransferInv

LEMMA WriteInv ==
    ASSUME TransferInv, Write, trouble'.faults <= MaxFaults PROVE TransferInv'
  <1> DEFINE m == toWriter[1]
             h == Hurt(trouble)
  <1>1. /\ writing # NoJob /\ toWriter # <<>> /\ Head(toWriter) = m /\ m.kind = "block"
        /\ m \in Messages /\ Shaped(m) /\ Truthful(m, version, writing, h)
        /\ ReadyFor(m, version, writing, disk, h) /\ WriterInv(writing, h)
        /\ writing.digest <= version[m.file_num] /\ m.file_num \in Files
    <2>1. writing # NoJob /\ toWriter # <<>> /\ Head(toWriter).kind = "block"
        BY DEF Write, Incoming
    <2> QED  BY <2>1, MessageTaken, MessageFacts
  <1>2. /\ \/ ~TurnsTo(m) /\ Puts(m, disk, writing, trouble)
           \/ /\ TurnsTo(m)
              /\ \E after \in ModifyTime(writing.file_num) :
                 \/ Puts(m, Marked(after.files, m), Turned(writing, m),
                         Begins(after.trouble, m.file_num))
                 \/ Puts(m, Created(after.files, m), Turned(writing, m),
                         Fails(Begins(after.trouble, m.file_num), {}))
        /\ toWriter' = Tail(toWriter)
        /\ UNCHANGED <<version, reading, toReader, saved, attempts, fate, done>>
      BY <1>1 DEF Write
  <1>j. /\ writing \in WriteJob /\ disk \in [Files -> DiskFiles]
        /\ version \in [Files -> Versions] /\ AllVouched(disk, version, h)
        /\ trouble \in Troubles /\ trouble.failed \subseteq trouble.suspect
        /\ h \in Hurts /\ h.failed = trouble.failed /\ h.changed = trouble.changed
        /\ h.failed \subseteq h.suspect /\ h.suspect = trouble.suspect
      BY <1>1, JobFacts
  <1>d. m = toWriter[1] /\ h = Hurt(trouble)
      OBVIOUS
  <1> HIDE DEF m, h
  <1>3. ASSUME NEW b \in [Files -> DiskFiles], NEW w \in WriteJob, w.digest = writing.digest,
               NEW t \in Troubles, t.failed \subseteq t.suspect, t.changed = trouble.changed,
               trouble.failed \subseteq t.failed, AllVouched(b, version, Hurt(t)),
               PutReady(m, version, w, b, Hurt(t)),
               \A g \in Files \ t.failed :
                 Landed(g, version, writing, disk, h) => Landed(g, version, w, b, Hurt(t)),
               Puts(m, b, w, t)
        PROVE  TransferInv'
    <2>1. writing' = w /\ PutsTo(disk', trouble', m, b, w, t)
        BY <1>3 DEF Puts, PutsTo
    <2>2. Truthful(m, version, w, Hurt(t))
      <3>1. Hurt(t).changed = h.changed
          BY <1>3, <1>j DEF Hurt
      <3> QED  BY <3>1, <1>1, <1>3 DEF Truthful, Known
    <2>3. w.digest <= version[m.file_num]
        BY <1>1, <1>3
    <2> DEFINE d == disk'
               u == trouble'
               h1 == Hurt(t)
               h2 == Hurt(u)
    <2>d. d = disk' /\ u = trouble' /\ h1 = Hurt(t) /\ h2 = Hurt(u)
        OBVIOUS
    <2> HIDE DEF d, u, h1, h2
    <2>4. /\ d \in [Files -> DiskFiles] /\ u \in Troubles /\ u.failed \subseteq u.suspect
          /\ u.changed = t.changed /\ t.failed \subseteq u.failed
          /\ AllVouched(d, version, h2) /\ WriterInv(w, h2)
          /\ ReadyAt(FileAfter(m), PosAfter(m), version, w, d, h2)
          /\ \A g \in Files \ (u.changed \cup u.failed) :
               Landed(g, version, w, b, h1) => Landed(g, version, w, d, h2)
          /\ EndOf(m) /\ m.file_num \notin u.changed \cup u.failed
               => Landed(m.file_num, version, w, d, h2)
      <3>1. PutsTo(d, u, m, b, w, t)
          BY <2>1, <2>d
      <3>2. AllVouched(b, version, h1) /\ PutReady(m, version, w, b, h1)
            /\ Truthful(m, version, w, h1)
          BY <1>3, <2>2, <2>d
      <3>3. /\ m \in Messages /\ m.kind = "block" /\ Shaped(m)
            /\ version \in [Files -> Versions] /\ t.failed \subseteq t.suspect
          BY <1>1, <1>3, <1>j
      <3>4. h1 = Hurt(t) /\ h2 = Hurt(u)
          BY <2>d
      <3> QED  BY <3>1, <3>2, <3>3, <3>4, <2>3, PutLands
    <2>5. \A g \in Files \ (u.changed \cup u.failed) :
            Landed(g, version, writing, disk, h) => Landed(g, version, w, d, h2)
        BY <2>4, <2>d, <1>3
    <2>6. u.changed = trouble.changed /\ trouble.failed \subseteq u.failed
        BY <2>4, <1>3
    <2>7. u.faults <= MaxFaults
        BY <2>d
    <2> QED  BY <1>1, <1>2, <1>3, <1>d, <2>1, <2>4, <2>5, <2>6, <2>7, <2>d, GoesOnInv
  <1>4. CASE ~TurnsTo(m) /\ Puts(m, disk, writing, trouble)
    <2>1. PutReady(m, version, writing, disk, h)
        BY <1>1, <1>4, <1>j, StaysReady
    <2> QED  BY <2>1, <1>3, <1>4, <1>j, <1>d
  <1>5. ASSUME TurnsTo(m), NEW after \in ModifyTime(writing.file_num),
               NEW b \in {Created(after.files, m), Marked(after.files, m)},
               NEW t, \/ t = Begins(after.trouble, m.file_num)
                      \/ t = Fails(Begins(after.trouble, m.file_num), {}),
               Puts(m, b, Turned(writing, m), t)
        PROVE  TransferInv'
    <2> DEFINE begun == Begins(after.trouble, m.file_num)
               w == Turned(writing, m)
               h1 == Hurt(begun)
    <2>d. begun = Begins(after.trouble, m.file_num) /\ w = Turned(writing, m)
          /\ h1 = Hurt(begun)
        OBVIOUS
    <2> HIDE DEF begun, w, h1
    <2>1. /\ b \in [Files -> DiskFiles] /\ begun \in Troubles /\ begun.failed \subseteq begun.suspect
          /\ begun.changed = trouble.changed /\ trouble.failed \subseteq begun.failed
          /\ w \in WriteJob /\ w.digest = writing.digest
          /\ AllVouched(b, version, h1) /\ PutReady(m, version, w, b, h1)
          /\ \A g \in Files \ begun.failed :
               Landed(g, version, writing, disk, Hurt(trouble)) => Landed(g, version, w, b, h1)
        BY <1>1, <1>5, <1>j, <1>d, <2>d, TurnLands
    <2>2. /\ t \in Troubles /\ t.failed = begun.failed /\ t.suspect = begun.suspect
          /\ t.changed = begun.changed /\ Hurt(t) = h1
        BY <1>5, <2>1, <2>d, HurtFacts
    <2> QED  BY <2>1, <2>2, <2>d, <1>3, <1>5, <1>d
  <1> QED  BY <1>2, <1>4, <1>5

(* An error of write leaves nothing that is claimed of the file before or   *)
(* of the one turned to; the others are as they were.                       *)
LEMMA WriteFailsInv ==
    ASSUME TransferInv, WriteFails, trouble'.faults <= MaxFaults PROVE TransferInv'
  <1> DEFINE m == toWriter[1]
             h == Hurt(trouble)
             f == m.file_num
             e == writing.file_num
             s == Files \intersect {f, e}
             d == disk'
             w == writing'
             t == trouble'
             h2 == Hurt(t)
  <1>1. /\ writing # NoJob /\ toWriter # <<>> /\ Head(toWriter) = m /\ m.kind = "block"
        /\ m \in Messages /\ Shaped(m)
        /\ ReadyFor(m, version, writing, disk, h) /\ WriterInv(writing, h)
        /\ f \in Files /\ f \in Nat
        /\ EndOf(m) => PosAfter(m) = 0 /\ FileAfter(m) = f + 1
        /\ ~EndOf(m) => FileAfter(m) = f
    <2>1. writing # NoJob /\ toWriter # <<>> /\ Head(toWriter).kind = "block"
        BY DEF WriteFails, Incoming
    <2> QED  BY <2>1, MessageTaken, MessageFacts
  <1>j. /\ writing \in WriteJob /\ disk \in [Files -> DiskFiles]
        /\ version \in [Files -> Versions] /\ AllVouched(disk, version, h)
        /\ trouble \in Troubles /\ trouble.failed \subseteq trouble.suspect
        /\ h.failed = trouble.failed /\ h.suspect = trouble.suspect
      BY <1>1, JobFacts
  <1>e. e \in Nat /\ e \in 1..(Len(Sizes) + 1)
      BY <1>j, TransferNumbers DEF WriteJob
  <1>2. PICK after \in ModifyTime(e) :
          \/ d = after.files /\ w = writing
          \/ /\ d \in {after.files, Unmarked(after.files, m)}
             /\ w = [writing EXCEPT !.file_num = f]
      BY <1>1 DEF WriteFails
  <1>3. /\ t = Fails(trouble, s) /\ toWriter' = Tail(toWriter)
        /\ UNCHANGED <<version, reading, toReader, saved, attempts, fate, done>>
      BY <1>1 DEF WriteFails
  <1>4. e <= f
      BY <1>1 DEF ReadyFor, ReadyAt
  <1>d. /\ m = toWriter[1] /\ h = Hurt(trouble) /\ f = m.file_num /\ e = writing.file_num
        /\ d = disk' /\ w = writing' /\ t = trouble' /\ h2 = Hurt(t)
        /\ s = Files \intersect {f, e}
      OBVIOUS
  <1> HIDE DEF m, h, f, e, s, d, w, t, h2
  <1>5. /\ after.files \in [Files -> DiskFiles]
        /\ \A g \in Files : g # e => after.files[g] = disk[g]
      BY <1>d, <1>j, ModifyTimeFacts
  <1>6. /\ d \in [Files -> DiskFiles]
        /\ \A g \in Files : g # e /\ g # f => d[g] = disk[g]
    <2>1. /\ Unmarked(after.files, m) \in [Files -> DiskFiles]
          /\ \A g \in Files : g # f => Unmarked(after.files, m)[g] = after.files[g]
        BY <1>d, <1>1, <1>j, <1>5, TurnFacts
    <2> QED  BY <2>1, <1>2, <1>5
  <1>7. /\ t \in Troubles /\ t.failed \subseteq t.suspect
        /\ t.failed = trouble.failed \cup s /\ t.suspect = trouble.suspect \cup s
        /\ t.changed = trouble.changed
    <2>1. s \in SUBSET Files
        BY <1>d
    <2> QED  BY <2>1, <1>3, <1>j, FailsFacts
  <1>8. h2.failed = t.failed /\ h2.suspect = t.suspect /\ h2.changed = t.changed
      BY <1>d DEF Hurt
  <1>9. AllVouched(d, version, h2)
    <2>1. ASSUME NEW g \in Files PROVE Vouched(d[g], g, version, h2)
      <3>1. CASE g \in s
          BY <3>1, <1>7, <1>8 DEF Vouched
      <3>2. CASE g \notin s
        <4>1. g # e /\ g # f
            BY <3>2, <1>d
        <4> QED  BY <4>1, <1>6, <1>7, <1>8, <1>j DEF AllVouched, Vouched
      <3> QED  BY <3>1, <3>2
    <2> QED  BY <2>1 DEF AllVouched
  <1>10. /\ w \in WriteJob /\ w.digest = writing.digest
         /\ w.data_stream = writing.data_stream
         /\ w.file_num \in {e, f} /\ w.file_num \in Nat
         /\ w.file_num <= f /\ e <= w.file_num
    <2>1. CASE w = writing
        BY <2>1, <1>4, <1>d, <1>e, <1>j, <1>1
    <2>2. CASE w = [writing EXCEPT !.file_num = f]
      <3>1. f \in 1..(Len(Sizes) + 1)
          BY <1>1, TransferNumbers
      <3> QED  BY <3>1, <2>2, <1>1, <1>4, <1>j DEF WriteJob
    <2> QED  BY <2>1, <2>2, <1>2
  <1>11. WriterInv(w, h2)
    <2> SUFFICES ASSUME w.data_stream \notin {Closed, w.file_num}
                 PROVE  w.data_stream \in h2.failed
        BY DEF WriterInv
    <2>1. w.data_stream \in Files
        BY <1>10 DEF WriteJob
    <2>2. CASE w.data_stream = e
        BY <2>1, <2>2, <1>7, <1>8, <1>d
    <2>3. CASE w.data_stream # e
        BY <2>3, <1>1, <1>7, <1>8, <1>10, <1>d, <1>j DEF WriterInv
    <2> QED  BY <2>2, <2>3
  <1>12. ReadyAt(FileAfter(m), PosAfter(m), version, w, d, h2)
    <2>1. f \in h2.failed
        BY <1>1, <1>7, <1>8, <1>d
    <2>2. w.file_num <= f + 1 /\ w.file_num # f + 1
        BY <1>1, <1>10
    <2> QED  BY <2>1, <2>2, <1>1, <1>10 DEF ReadyAt
  <1>13. ASSUME NEW g \in Files \ (t.changed \cup t.failed), Landed(g, version, writing, disk, h)
         PROVE  Landed(g, version, w, d, h2)
    <2>1. g # e /\ g # f /\ g \in Nat
        BY <1>7, <1>d, TransferNumbers
    <2>2. g < e /\ (g \in h.suspect \/ disk[g].path = Content(g, version[g]))
        BY <2>1, <1>13, <1>d DEF Landed
    <2>3. g < w.file_num
        BY <2>1, <2>2, <1>10, <1>e
    <2> QED  BY <2>1, <2>2, <2>3, <1>6, <1>7, <1>8, <1>j DEF Landed
  <1>14. f \in t.failed
      BY <1>1, <1>7, <1>d
  <1>15. t.faults <= MaxFaults /\ trouble.failed \subseteq t.failed
      BY <1>7, <1>d
  <1> QED  BY <1>1, <1>3, <1>6, <1>7, <1>9, <1>10, <1>11, <1>12, <1>13, <1>14, <1>15, <1>d,
              GoesOnInv

LEMMA WriterErrorInv ==
    ASSUME TransferInv, WriterError, trouble'.faults <= MaxFaults PROVE TransferInv'
  <1> DEFINE m == toWriter[1]
             h == Hurt(trouble)
  <1>1. /\ writing # NoJob /\ toWriter # <<>> /\ m.kind = "error"
        /\ m \in Messages /\ Shaped(m)
        /\ ReadyFor(m, version, writing, disk, h) /\ WriterInv(writing, h)
        /\ Tail(toWriter) \in Seq(Messages) /\ toReader = <<>>
    <2>1. writing # NoJob /\ toWriter # <<>> /\ Head(toWriter).kind = "error"
        BY DEF WriterError, Incoming
    <2> QED  BY <2>1, MessageTaken
  <1>2. /\ writing' = IF reading = NoJob /\ Tail(toWriter) = <<>> THEN NoJob ELSE writing
        /\ toWriter' = Tail(toWriter)
        /\ UNCHANGED <<version, reading, disk, toReader, saved, attempts, fate, trouble, done>>
      BY DEF WriterError
  <1>j. /\ writing \in WriteJob /\ version \in [Files -> Versions] /\ ~done
        /\ disk \in [Files -> DiskFiles] /\ AllVouched(disk, version, h)
        /\ trouble \in Troubles /\ trouble.failed \subseteq trouble.suspect
      BY <1>1, JobFacts
  <1>d. m = toWriter[1] /\ h = Hurt(trouble)
      OBVIOUS
  <1>3. CASE reading = NoJob /\ Tail(toWriter) = <<>>
    <2>1. TransferTypes'
        BY <1>1, <1>2, <1>3 DEF TransferInv, TransferTypes, TransferTypeOK
    <2>2. SentIsWhole'
        BY <1>2, <1>j DEF SentIsWhole
    <2> QED  BY <2>1, <2>2, <1>1, <1>2, <1>3, <1>j DEF TransferInv
  <1>4. CASE ~(reading = NoJob /\ Tail(toWriter) = <<>>)
    <2> HIDE DEF m, h
    <2>1. writing' = writing
        BY <1>2, <1>4
    <2>2. /\ PosBefore(m) = 0 /\ PosAfter(m) = 0 /\ FileAfter(m) = m.file_num /\ ~EndOf(m)
        BY <1>1, MessageFacts
    <2>3. ReadyAt(FileAfter(m), PosAfter(m), version, writing, disk, h)
        BY <1>1, <2>2 DEF ReadyFor
    <2>4. trouble.faults <= MaxFaults
        BY <1>2
    <2> QED  BY <2>1, <2>2, <2>3, <2>4, <1>1, <1>2, <1>d, <1>j, GoesOnInv
  <1> QED  BY <1>3, <1>4

(* Done: the last file takes its place, so every file that has landed is   *)
(* whole.                                                                  *)
LEMMA WriterDoneInv ==
    ASSUME TransferInv, WriterDone, trouble'.faults <= MaxFaults PROVE TransferInv'
  <1> DEFINE m == toWriter[1]
             h == Hurt(trouble)
             e == writing.file_num
  <1>1. /\ writing # NoJob /\ toWriter # <<>> /\ m.kind = "done"
        /\ Tail(toWriter) = <<>> /\ Len(toWriter) = 1 /\ toReader = <<>> /\ reading = NoJob
    <2>1. writing # NoJob /\ toWriter # <<>> /\ Head(toWriter).kind = "done"
        BY DEF WriterDone, Incoming
    <2> QED  BY <2>1, MessageTaken
  <1>2. PICK after \in ModifyTime(e) : disk' = after.files /\ trouble' = after.trouble
      BY DEF WriterDone
  <1>3. /\ writing' = NoJob /\ toWriter' = <<>> /\ toReader' = <<>> /\ done' = TRUE
        /\ UNCHANGED <<version, reading, saved, attempts, fate>>
      BY <1>1 DEF WriterDone
  <1>j. /\ writing \in WriteJob /\ version \in [Files -> Versions]
        /\ disk \in [Files -> DiskFiles] /\ AllVouched(disk, version, h)
        /\ trouble \in Troubles /\ trouble.failed \subseteq trouble.suspect
        /\ h.failed = trouble.failed /\ h.suspect = trouble.suspect
        /\ h.changed = trouble.changed
      BY <1>1, JobFacts
  <1>d. e = writing.file_num /\ h = Hurt(trouble)
      OBVIOUS
  <1> HIDE DEF e, h, m
  <1>4. /\ after.files \in [Files -> DiskFiles] /\ after.trouble \in Troubles
        /\ after.trouble.failed \subseteq after.trouble.suspect
        /\ trouble.failed \subseteq after.trouble.failed
        /\ trouble.suspect \subseteq after.trouble.suspect
        /\ after.trouble.changed = trouble.changed
        /\ \A g \in Files : g # e => after.files[g] = disk[g]
        /\ e \in Files /\ e \notin after.trouble.failed =>
              after.files[e].path = IF disk[e].download = None THEN disk[e].path
                                    ELSE disk[e].download
        /\ AllVouched(after.files, version, Hurt(after.trouble))
      BY <1>d, <1>j, ModifyTimeFacts
  <1>5. trouble' \in [failed : SUBSET Files, changed : SUBSET Files, suspect : SUBSET Files,
                      faults : 0..MaxFaults]
      BY <1>2, <1>4, TroubleType
  <1>6. TransferTypes'
      BY <1>1, <1>2, <1>3, <1>4, <1>5, EmptySeq DEF TransferInv, TransferTypes, TransferTypeOK
  <1>7. ASSUME NEW f \in Files \ (trouble'.failed \cup trouble'.changed \cup trouble'.suspect),
               fate[f] = "sent"
        PROVE  disk'[f].path = Content(f, version[f])
    <2>1. f \notin h.changed \cup h.failed /\ f \notin h.suspect /\ f \notin after.trouble.failed
        BY <1>2, <1>4, <1>j
    <2>2. Landed(f, version, writing, disk, h)
      <3>1. \A i \in 1..Len(toWriter) : ~EndOf(toWriter[i])
          BY <1>1 DEF EndOf, m
      <3>2. SentInv(toWriter, fate, version, writing, disk, h)
          BY <1>1, <1>d DEF TransferInv, ActiveInv
      <3> QED  BY <3>1, <3>2, <2>1, <1>7 DEF SentInv
    <2>n. /\ f \in Nat /\ e \in Nat /\ version[f] \in Nat \ {0} /\ Sizes[f] \in Nat
      <3>1. e \in Nat
          BY <1>d, <1>j, TransferNumbers DEF WriteJob
      <3> QED  BY <3>1, <1>j, FileFacts
    <2>3. CASE f < e /\ disk[f].path = Content(f, version[f])
      <3>1. f # e
          BY <2>3, <2>n
      <3> QED  BY <3>1, <2>3, <1>2, <1>4
    <2>4. CASE f = e /\ disk[f].download = Content(f, version[f])
      <3>1. disk[f].download # None
          BY <2>4, <2>n, ContentIsPart, PartNotNone
      <3> QED  BY <3>1, <2>1, <2>4, <1>2, <1>4
    <2> QED  BY <2>1, <2>2, <2>3, <2>4, <1>d DEF Landed
  <1>8. SentIsWhole'
      BY <1>3, <1>7 DEF SentIsWhole
  <1> QED  BY <1>1, <1>2, <1>3, <1>4, <1>6, <1>8 DEF TransferInv

(* An answer to a digest: where one end alone goes to the offset, or the    *)
(* download cannot be opened again, nothing is claimed of the file.         *)
LEMMA AnswerTaken ==
    ASSUME TransferInv, writing # NoJob, toWriter # <<>>, toWriter[1].kind = "digest",
           Answer(toWriter[1]), trouble'.faults <= MaxFaults
    PROVE  TransferInv'
  <1> DEFINE m == toWriter[1]
             g == m.file_num
             w1 == [writing EXCEPT !.digest = m.digest]
             w == writing'
             t == trouble'
             h == Hurt(trouble)
             h2 == Hurt(t)
  <1>1. /\ writing # NoJob /\ toWriter # <<>> /\ Head(toWriter) = m /\ m.kind = "digest"
        /\ m \in Messages /\ Shaped(m) /\ Truthful(m, version, writing, h)
        /\ ReadyFor(m, version, writing, disk, h) /\ WriterInv(writing, h)
        /\ Tail(toWriter) = <<>> /\ Len(toWriter) = 1 /\ toReader = <<>> /\ Asking(reading)
      BY MessageTaken
  <1>2. /\ toWriter' = <<>>
        /\ UNCHANGED <<version, reading, disk, saved, attempts, fate, done>>
      BY <1>1 DEF Answer
  <1>3. PICK r \in Answers(m) :
          /\ w \in WriterConfirm(w1, r) /\ toReader' = Append(toReader, r)
          /\ t = IF r.offset = 0 \/ w.data_stream = r.file_num THEN trouble
                 ELSE IF writing.file_num # r.file_num THEN Harms(trouble, {r.file_num})
                 ELSE Fails(trouble, {r.file_num})
      BY DEF Answer
  <1>j. /\ writing \in WriteJob /\ version \in [Files -> Versions] /\ ~done
        /\ disk \in [Files -> DiskFiles] /\ AllVouched(disk, version, h)
        /\ reading \in ReadJob
        /\ trouble \in Troubles /\ trouble.failed \subseteq trouble.suspect
        /\ h.failed = trouble.failed /\ h.suspect = trouble.suspect
        /\ h.changed = trouble.changed
      BY <1>1, JobFacts DEF Asking
  <1>4. /\ g \in Files /\ g \in Nat /\ m.digest \in Versions /\ m.digest \in 0..MaxVersion
        /\ PosBefore(m) = 0 /\ FileAfter(m) = g /\ PosAfter(m) = 0
        /\ Sizes[g] \in Nat /\ version[g] \in Nat /\ m.digest \in Nat \ {0}
      BY <1>1, <1>j, MessageFacts, FileFacts, TransferNumbers DEF Versions
  <1>t. m.digest <= version[g] /\ (g \notin h.changed => m.digest = version[g])
      BY <1>1 DEF Truthful
  <1>5. reading.file_num = g /\ Pos(reading) = 0 /\ reading.data_stream = 0 /\ ~Past(reading)
    <2>1. /\ QueueInv(toWriter, toReader, version, reading, writing, disk, h)
          /\ ReaderInv(reading)
        BY <1>1 DEF TransferInv, ActiveInv, Asking
    <2>2. toWriter[Len(toWriter)] = m
        BY <1>1
    <2>3. g = reading.file_num /\ Pos(reading) = 0
        BY <2>1, <2>2, <1>1, <1>4 DEF QueueInv, LeadsTo, Asking
    <2>4. reading.data_stream = 0
        BY <2>1, <2>3, <1>1, TransferNumbers DEF ReaderInv, Asking
    <2> QED  BY <2>3, <2>4, <1>4 DEF Past
  <1>6. /\ w1 \in WriteJob /\ w1.digest = m.digest /\ w1.file_num = writing.file_num
        /\ w1.data_stream = writing.data_stream
      BY <1>4, <1>j DEF WriteJob
  <1>n. /\ writing.file_num \in Nat /\ writing.file_num <= Len(Sizes) + 1 /\ g <= Len(Sizes)
        /\ \A f \in Files : f \in Nat
      BY <1>j, <1>4, TransferNumbers DEF WriteJob
  <1>7. ReadyAt(g, 0, version, writing, disk, h) /\ writing.file_num <= g
      BY <1>1, <1>4 DEF ReadyFor, ReadyAt
  <1>9. r.file_num = g
      BY <1>3 DEF Answers
  <1>o. \/ r.skip = FALSE /\ r.offset = 0
        \/ r.skip = TRUE /\ r.offset = 0
        \/ r.skip = FALSE /\ r.offset = Transferred(m) /\ Transferred(m) > 0
      BY <1>3 DEF Answers
  <1>b. r.skip \in BOOLEAN /\ r = [file_num |-> g, skip |-> r.skip, offset |-> r.offset]
    <2>1. PICK s \in BOOLEAN, o \in {0, Transferred(m)} :
            r = [file_num |-> g, skip |-> s, offset |-> o]
        BY DEF Answers
    <2> QED  BY <2>1
  <1>p. Transferred(m) > 0 => /\ disk[g].digest = m.digest /\ disk[g].download # None
                              /\ Transferred(m) = Len(disk[g].download)
      BY DEF Transferred
  <1>d. m = toWriter[1] /\ g = m.file_num /\ w = writing' /\ t = trouble' /\ h = Hurt(trouble)
        /\ h2 = Hurt(t)
      OBVIOUS
  <1>q. t = IF r.offset = 0 \/ w.data_stream = g THEN trouble
            ELSE IF writing.file_num # g THEN Harms(trouble, {g}) ELSE Fails(trouble, {g})
      BY <1>3, <1>9
  <1>w. w \in WriterConfirm(w1, r)
      BY <1>3
  <1> HIDE DEF w1, g, m, w, t, h, h2
  <1>8. /\ t \in Troubles /\ t.failed \subseteq t.suspect
        /\ trouble.failed \subseteq t.failed /\ trouble.suspect \subseteq t.suspect
        /\ t.changed = trouble.changed
        /\ r.offset = 0 \/ w.data_stream = g => t = trouble
        /\ r.offset # 0 /\ w.data_stream # g => g \in t.failed
    <2>1. CASE r.offset = 0 \/ w.data_stream = g
        BY <2>1, <1>j, <1>q
    <2>2. CASE r.offset # 0 /\ w.data_stream # g
      <3>1. t \in {Harms(trouble, {g}), Fails(trouble, {g})} /\ {g} \in SUBSET Files
          BY <2>2, <1>4, <1>q
      <3>2. /\ t \in Troubles /\ t.failed \subseteq t.suspect
            /\ t.failed = trouble.failed \cup {g} /\ t.suspect = trouble.suspect \cup {g}
            /\ t.changed = trouble.changed
          BY <3>1, <1>j, FailsFacts
      <3> QED  BY <3>2, <2>2
    <2> QED  BY <2>1, <2>2
  <1>h. h2.failed = t.failed /\ h2.suspect = t.suspect /\ h2.changed = t.changed
      BY <1>d DEF Hurt
  <1> DEFINE Ready == IF r.skip THEN ReadyAt(g + 1, 0, version, w, disk, h2)
                      ELSE ReadyAt(g, Clamped(g, r.offset), version, w, disk, h2)
             Keeps == \A f \in Files \ h2.failed : Landed(f, version, writing, disk, h)
                                                  => Landed(f, version, w, disk, h2)
  <1>r. /\ Ready <=> IF r.skip THEN ReadyAt(g + 1, 0, version, w, disk, h2)
                     ELSE ReadyAt(g, Clamped(g, r.offset), version, w, disk, h2)
        /\ Keeps <=> \A f \in Files \ h2.failed : Landed(f, version, writing, disk, h)
                                                  => Landed(f, version, w, disk, h2)
      OBVIOUS
  <1> HIDE DEF Ready, Keeps
  <1>10. /\ r.offset \in Nat /\ w \in WriteJob /\ w.digest = m.digest
         /\ Ready /\ Keeps /\ WriterInv(w, h2)
    <2>1. ASSUME w = w1, r.offset = 0
          PROVE  /\ w \in WriteJob /\ w.digest = m.digest
                 /\ ReadyAt(g, 0, version, w, disk, h2) /\ Keeps /\ WriterInv(w, h2)
      <3>0. h2.failed = h.failed /\ h2.suspect = h.suspect
          BY <2>1, <1>8, <1>h, <1>j
      <3>1. ReadyAt(g, 0, version, w, disk, h2)
          BY <3>0, <2>1, <1>6, <1>7 DEF ReadyAt
      <3>2. Keeps
          BY <3>0, <2>1, <1>6, <1>r DEF Landed
      <3>3. WriterInv(w, h2)
          BY <3>0, <2>1, <1>1, <1>6 DEF WriterInv
      <3> QED  BY <3>1, <3>2, <3>3, <2>1, <1>6
    <2>2. CASE r.skip = FALSE /\ r.offset = 0
      <3>1. w = w1
          BY <2>2, <1>w DEF WriterConfirm
      <3>2. Clamped(g, 0) = 0
          BY <1>4 DEF Clamped
      <3> QED  BY <3>1, <3>2, <2>1, <2>2, <1>r
    <2>3. CASE r.skip = TRUE /\ r.offset = 0 /\ writing.file_num # g
      <3>1. w = w1
          BY <2>3, <1>w, <1>6, <1>9 DEF WriterConfirm
      <3>2. ReadyAt(g + 1, 0, version, w, disk, h2)
          BY <3>1, <2>3, <1>4, <1>6, <1>7, <1>n DEF ReadyAt
      <3> QED  BY <3>1, <3>2, <2>1, <2>3, <1>r
    <2>4. CASE r.skip = TRUE /\ r.offset = 0 /\ writing.file_num = g
      <3>0. h2.failed = h.failed /\ h2.suspect = h.suspect
          BY <2>4, <1>8, <1>h, <1>j
      <3>1. w = [w1 EXCEPT !.file_num = w1.file_num + 1, !.data_stream = Closed]
          BY <2>4, <1>w, <1>6, <1>9 DEF WriterConfirm
      <3>2. g + 1 \in 1..(Len(Sizes) + 1)
          BY <1>4, <1>n, TransferNumbers
      <3>3. /\ w \in WriteJob /\ w.digest = m.digest
            /\ w.file_num = g + 1 /\ w.data_stream = Closed
          BY <3>1, <3>2, <2>4, <1>6 DEF WriteJob
      <3>4. ReadyAt(g + 1, 0, version, w, disk, h2)
          BY <3>3, <1>4 DEF ReadyAt
      <3>5. ASSUME NEW f \in Files \ h2.failed, Landed(f, version, writing, disk, h)
            PROVE  Landed(f, version, w, disk, h2)
        <4>1. CASE f < g /\ (f \in h.suspect \/ disk[f].path = Content(f, version[f]))
          <5>1. f < g + 1
              BY <4>1, <1>4, <1>n
          <5> QED  BY <5>1, <4>1, <3>0, <3>3 DEF Landed
        <4>2. CASE f = g /\ writing.data_stream = g
          <5>1. g \in h.suspect
              BY <4>2, <3>5, <3>0, <1>7, <2>4, <1>4, TransferNumbers DEF ReadyAt
          <5>2. g < g + 1
              BY <1>4
          <5> QED  BY <5>1, <5>2, <4>2, <3>0, <3>3 DEF Landed
        <4> QED  BY <4>1, <4>2, <3>5, <2>4 DEF Landed
      <3>6. WriterInv(w, h2)
          BY <3>3 DEF WriterInv
      <3> QED  BY <3>3, <3>4, <3>5, <3>6, <2>4, <1>r
    <2>5. CASE r.skip = FALSE /\ r.offset = Transferred(m) /\ Transferred(m) > 0
      <3>1. /\ disk[g].digest = m.digest /\ disk[g].download # None
            /\ r.offset = Len(disk[g].download) /\ r.offset > 0
          BY <2>5, <1>p
      <3>2. r.offset \in Nat /\ Clamped(g, r.offset) \in Nat
        <4>1. disk[g] \in DiskFiles
            BY <1>4, <1>j
        <4>2. r.offset \in Nat
            BY <4>1, <3>1 DEF DiskFiles, Bytes
        <4> QED  BY <4>2, <1>4 DEF Clamped
      <3>3. \/ w = w1
            \/ writing.file_num = g /\ w = [w1 EXCEPT !.data_stream = g]
          BY <2>5, <1>w, <1>6, <1>9 DEF WriterConfirm
      <3>4. /\ w \in WriteJob /\ w.digest = m.digest /\ w.file_num = writing.file_num
            /\ \/ w.data_stream = writing.data_stream
               \/ w.data_stream = g /\ writing.file_num = g
          BY <3>3, <1>4, <1>6 DEF WriteJob
      <3>5. WriterInv(w, h2)
          BY <3>4, <1>1, <1>8, <1>h, <1>j DEF WriterInv
      <3>6. Keeps
          BY <3>4, <1>8, <1>h, <1>j, <1>r DEF Landed
      <3>7. ReadyAt(g, Clamped(g, r.offset), version, w, disk, h2)
        <4>0. w.file_num <= g
            BY <3>4, <1>7
        <4>1. CASE w.data_stream # g
          <5>1. g \in h2.failed
              BY <4>1, <3>1, <3>2, <1>8, <1>h
          <5> QED  BY <5>1, <4>0 DEF ReadyAt
        <4>2. CASE w.data_stream = g /\ w.file_num # g
          <5>1. g \in h2.failed
              BY <4>2, <3>5, <1>4, TransferNumbers DEF WriterInv
          <5> QED  BY <5>1, <4>0 DEF ReadyAt
        <4>3. CASE w.data_stream = g /\ w.file_num = g /\ g \in h2.suspect
            BY <4>0, <4>3 DEF ReadyAt
        <4>4. CASE w.data_stream = g /\ w.file_num = g /\ g \notin h2.suspect
          <5>1. g \notin h.suspect
              BY <4>4, <1>8, <1>h, <1>j
          <5>2. m.digest \notin {Absent, NoDigest}
              BY <1>4, TransferNumbers
          <5>3. /\ Len(disk[g].download) <= Sizes[g]
                /\ m.digest = version[g] => disk[g].download = Part(version[g], Len(disk[g].download))
              BY <5>1, <5>2, <3>1, <1>4, <1>j DEF AllVouched, Vouched
          <5>4. Clamped(g, r.offset) = r.offset
              BY <5>3, <3>1, <3>2, <1>4 DEF Clamped
          <5>5. Known(g, version, w, h2) => m.digest = version[g]
              BY <3>4, <1>t, <1>8, <1>h, <1>j DEF Known
          <5>6. Holds(g, r.offset, version, w, disk, h2)
              BY <5>3, <5>5, <3>1, <3>4, <1>t DEF Holds
          <5> QED  BY <5>4, <5>6, <4>0, <4>4, <3>1 DEF ReadyAt
        <4> QED  BY <4>1, <4>2, <4>3, <4>4
      <3> QED  BY <3>2, <3>4, <3>5, <3>6, <3>7, <2>5, <1>r
    <2> QED  BY <2>2, <2>3, <2>4, <2>5, <1>o
  <1>11. toReader' = <<r>> /\ toReader' \in Seq(Replies) /\ Len(toReader') = 1
         /\ toReader'[1] = r /\ toReader' # <<>>
    <2>1. r \in Replies
        BY <1>4, <1>10, <1>b DEF Replies
    <2>2. toReader' = <<r>>
        BY <1>1, <1>3
    <2> QED  BY <2>1, <2>2
  <1>u. trouble' \in [failed : SUBSET Files, changed : SUBSET Files, suspect : SUBSET Files,
                      faults : 0..MaxFaults]
      BY <1>8, <1>d, TroubleType
  <1>12. TransferTypes'
      BY <1>2, <1>10, <1>11, <1>u, <1>d, EmptySeq DEF TransferInv, TransferTypes, TransferTypeOK
  <1>13. AllVouched(disk, version, h2) /\ SentIsWhole'
    <2>1. AllVouched(disk, version, h2)
        BY <1>8, <1>h, <1>j DEF AllVouched, Vouched
    <2> QED  BY <2>1, <1>2, <1>j DEF SentIsWhole
  <1>14. QueueInv(<<>>, toReader', version, reading, w, disk, h2)
      BY <1>11, EmptyFlows DEF QueueInv
  <1>15. MarkInv(<<>>, version, reading, w)
      BY <1>1, <1>5, <1>10 DEF MarkInv, Asking
  <1>16. AnswerInv(<<>>, toReader', version, reading, w, disk, h2)
      BY <1>1, <1>4, <1>5, <1>9, <1>10, <1>11, <1>r, <1>t DEF AnswerInv
  <1>17. SentInv(<<>>, fate, version, w, disk, h2)
    <2>1. \A f \in Files \ (h2.changed \cup h2.failed) :
             fate[f] = "sent" => Landed(f, version, writing, disk, h)
      <3>1. \A i \in 1..Len(toWriter) : ~EndOf(toWriter[i])
          BY <1>1, <1>d DEF EndOf
      <3>2. SentInv(toWriter, fate, version, writing, disk, h)
          BY <1>1, <1>d DEF TransferInv, ActiveInv
      <3>3. \A f \in Files \ (h2.changed \cup h2.failed) : f \in Files \ (h.changed \cup h.failed)
          BY <1>8, <1>h, <1>j
      <3> QED  BY <3>1, <3>2, <3>3 DEF SentInv
    <2> QED  BY <2>1, <1>10, <1>r DEF SentInv
  <1>18. ActiveInv(<<>>, toReader', version, reading, w, disk, fate, h2)
      BY <1>10, <1>14, <1>15, <1>16, <1>17 DEF ActiveInv
  <1>19. w # NoJob
      BY <1>10, TransferNumbers DEF WriteJob, NoJob
  <1> QED  BY <1>2, <1>8, <1>12, <1>13, <1>18, <1>19, <1>d, <1>j DEF TransferInv

LEMMA AnswerDigestInv ==
    ASSUME TransferInv, AnswerDigest \/ UserAnswers, trouble'.faults <= MaxFaults
    PROVE  TransferInv'
  <1>1. /\ writing # NoJob /\ toWriter # <<>> /\ Head(toWriter).kind = "digest"
        /\ Answer(Head(toWriter))
      BY DEF AnswerDigest, UserAnswers, AwaitsUser, Incoming
  <1>2. Head(toWriter) = toWriter[1]
      BY <1>1, MessageTaken
  <1> QED  BY <1>1, <1>2, AnswerTaken

(* The reading job's steps *)

LEMMA NextFileFacts ==
    ASSUME NEW job \in ReadJob, job.file_num \in Files
    PROVE  /\ NextFile(job) \in ReadJob /\ NextFile(job).file_num = job.file_num + 1
           /\ NextFile(job).data_stream = Closed /\ NextFile(job).detection = job.detection
           /\ NextFile(job).confirmed = FALSE /\ NextFile(job).waiting = FALSE
  <1>1. job.file_num + 1 \in 1..(Len(Sizes) + 1) /\ Closed \in Int
      BY TransferNumbers
  <1>2. /\ Reset(job) \in ReadJob /\ Reset(job).file_num = job.file_num
        /\ Reset(job).detection = job.detection
        /\ Reset(job).confirmed = FALSE /\ Reset(job).waiting = FALSE
      BY DEF Reset, ReadJob
  <1> QED  BY <1>1, <1>2 DEF NextFile, ReadJob

LEMMA SkipFileFacts ==
    ASSUME NEW job \in ReadJob, job.file_num \in Files
    PROVE  /\ SkipFile(job) \in ReadJob /\ SkipFile(job).file_num = job.file_num + 1
           /\ SkipFile(job).data_stream = Closed /\ SkipFile(job).detection = job.detection
           /\ SkipFile(job).confirmed = FALSE /\ SkipFile(job).waiting = FALSE
  BY NextFileFacts DEF SkipFile, ReadJob

LEMMA OpenedFacts ==
    ASSUME NEW job \in ReadJob, NEW fault, ~Past(job), ~OpenFails(job, fault),
           job.data_stream = Closed
    PROVE  /\ Opened(job, fault) \in ReadJob /\ Opened(job, fault).file_num = job.file_num
           /\ Opened(job, fault).data_stream = 0 /\ Opened(job, fault).detection = job.detection
           /\ Opened(job, fault).confirmed = FALSE /\ Opened(job, fault).waiting = FALSE
  <1>1. /\ Reset(job) \in ReadJob /\ Reset(job).file_num = job.file_num
        /\ Reset(job).detection = job.detection
        /\ Reset(job).confirmed = FALSE /\ Reset(job).waiting = FALSE
      BY DEF Reset, ReadJob
  <1> QED  BY <1>1 DEF Opened, OpenFails, ReadJob

LEMMA ReadJobFacts ==
    ASSUME NEW job \in ReadJob
    PROVE  /\ job # NoJob /\ job.file_num \in Nat /\ job.file_num \in FileNums
           /\ job.data_stream \in Int
           /\ ~Past(job) => job.file_num \in Files /\ Sizes[job.file_num] \in Nat
           /\ ReaderInv(job) => Pos(job) \in Nat
           /\ job.data_stream = Closed => Pos(job) = 0
           /\ job.data_stream # Closed => Pos(job) = job.data_stream
           /\ ReaderInv(job) /\ Past(job) => job.data_stream = Closed
           /\ job.data_stream = Closed /\ ~job.confirmed /\ ~job.waiting => ReaderInv(job)
  <1>1. job.file_num \in FileNums /\ job.file_num \in Nat /\ job.data_stream \in Int
      BY TransferNumbers DEF ReadJob, FileNums
  <1>2. job # NoJob
      BY <1>1, TransferNumbers DEF NoJob, FileNums
  <1>3. ~Past(job) => job.file_num \in Files /\ Sizes[job.file_num] \in Nat
      BY TransferNumbers DEF Past
  <1>4. /\ ReaderInv(job) => Pos(job) \in Nat
        /\ ReaderInv(job) /\ Past(job) => job.data_stream = Closed
      BY <1>1, <1>3, TransferNumbers DEF ReaderInv, Pos
  <1>5. /\ job.data_stream = Closed => Pos(job) = 0
        /\ job.data_stream # Closed => Pos(job) = job.data_stream
      BY DEF Pos
  <1>6. job.data_stream = Closed /\ ~job.confirmed /\ ~job.waiting => ReaderInv(job)
      BY <1>3, TransferNumbers DEF ReaderInv
  <1> QED  BY <1>1, <1>2, <1>3, <1>4, <1>5, <1>6

(* What is known of the mark and the job that comes next.                  *)
Marks(job, ver, w) ==
    /\ ~job.detection => w.digest = NoDigest
    /\ job.confirmed /\ ~Past(job) => w.digest <= ver[job.file_num]
(* The reading job sends a message and goes on as job2.                    *)
LEMMA Sends ==
    ASSUME NEW ver \in [Files -> Versions], NEW w, NEW dk, NEW h, w.file_num \in Nat,
           NEW job \in ReadJob, ReaderInv(job), ~Asking(job),
           NEW q \in Seq(Messages), NEW ft, ActiveInv(q, <<>>, ver, job, w, dk, ft, h),
           NEW m \in Messages, Shaped(m), Truthful(m, ver, w, h),
           Follows(m, job.file_num, Pos(job)),
           NEW job2, NEW ft2,
           m.kind = "digest" => Asking(job2),
           m.kind = "done" => job2 = NoJob,
           job2 # NoJob => /\ job2.file_num = FileAfter(m) /\ Pos(job2) = PosAfter(m)
                           /\ Marks(job2, ver, w),
           m.kind = "block" => w.digest <= ver[m.file_num],
           \A f \in Files : ft2[f] = "sent" => ft[f] = "sent" \/ (EndOf(m) /\ m.file_num = f)
    PROVE  /\ Append(q, m) \in Seq(Messages)
           /\ ActiveInv(Append(q, m), <<>>, ver, job2, w, dk, ft2, h)
  <1> DEFINE s == Append(q, m)
  <1>1. /\ job # NoJob /\ job.file_num \in Nat /\ Pos(job) \in Nat
      BY ReadJobFacts
  <1>2. /\ QueueInv(q, <<>>, ver, job, w, dk, h) /\ MarkInv(q, ver, job, w)
        /\ SentInv(q, ft, ver, w, dk, h)
      BY DEF ActiveInv
  <1>3. /\ Flows(q, ver, w, dk, h) /\ LeadsTo(q, job.file_num, Pos(job), ver, w, dk, h)
        /\ q # <<>> => q[Len(q)].kind \notin {"digest", "done"}
      BY <1>1, <1>2 DEF QueueInv
  <1>4. /\ s \in Seq(Messages) /\ s # <<>> /\ s[Len(s)] = m
        /\ Flows(s, ver, w, dk, h) /\ LeadsTo(s, FileAfter(m), PosAfter(m), ver, w, dk, h)
    <2> DEFINE g == job.file_num
               k == Pos(job)
    <2>1. /\ g \in Nat /\ k \in Nat /\ Follows(m, g, k) /\ LeadsTo(q, g, k, ver, w, dk, h)
          /\ Flows(q, ver, w, dk, h)
        BY <1>1, <1>3
    <2>2. Unblocked(q)
        BY <1>3 DEF Unblocked
    <2> HIDE DEF g, k
    <2> QED  BY <2>1, <2>2, FlowsAppend
  <1>5. /\ Len(q) \in Nat /\ Len(s) = Len(q) + 1 /\ s[Len(q) + 1] = m
        /\ \A i \in 1..Len(q) : s[i] = q[i]
      BY AppendProperties, LenProperties
  <1> HIDE DEF s
  <1>6. QueueInv(s, <<>>, ver, job2, w, dk, h)
      BY <1>4 DEF QueueInv
  <1>7. MarkInv(s, ver, job2, w)
    <2>1. ASSUME NEW i \in 1..Len(s), s[i].kind = "block"
          PROVE  w.digest <= ver[s[i].file_num]
      <3>1. CASE i = Len(q) + 1
          BY <3>1, <2>1, <1>5
      <3>2. CASE i # Len(q) + 1
        <4>1. i \in 1..Len(q) /\ s[i] = q[i]
            BY <3>2, <1>5
        <4> QED  BY <4>1, <2>1, <1>2 DEF MarkInv
      <3> QED  BY <3>1, <3>2
    <2> QED  BY <2>1 DEF MarkInv, Marks
  <1>8. AnswerInv(s, <<>>, ver, job2, w, dk, h)
      BY DEF AnswerInv
  <1>9. SentInv(s, ft2, ver, w, dk, h)
    <2>1. ASSUME NEW f \in Files \ (h.changed \cup h.failed), ft2[f] = "sent"
          PROVE  (\E i \in 1..Len(s) : EndOf(s[i]) /\ s[i].file_num = f) \/ Landed(f, ver, w, dk, h)
      <3>1. CASE ft[f] = "sent"
        <4>1. CASE Landed(f, ver, w, dk, h)
            BY <4>1
        <4>2. CASE \E i \in 1..Len(q) : EndOf(q[i]) /\ q[i].file_num = f
          <5>1. PICK i \in 1..Len(q) : EndOf(q[i]) /\ q[i].file_num = f
              BY <4>2
          <5>2. i \in 1..Len(s) /\ s[i] = q[i]
              BY <1>5
          <5> QED  BY <5>1, <5>2
        <4> QED  BY <4>1, <4>2, <3>1, <1>2 DEF SentInv
      <3>2. CASE EndOf(m) /\ m.file_num = f
        <4>1. Len(q) + 1 \in 1..Len(s)
            BY <1>5
        <4> QED  BY <4>1, <3>2, <1>5
      <3> QED  BY <3>1, <3>2, <2>1
    <2> QED  BY <2>1 DEF SentInv
  <1>10. ActiveInv(s, <<>>, ver, job2, w, dk, ft2, h)
      BY <1>6, <1>7, <1>8, <1>9 DEF ActiveInv
  <1> QED  BY <1>4, <1>10 DEF s

(* What goes wrong with a file takes nothing from the others.              *)
LEMMA GrownReady ==
    ASSUME NEW h, NEW h2, h.failed \subseteq h2.failed, h.suspect \subseteq h2.suspect,
           h2.changed = h.changed, NEW ver, NEW w, NEW dk, NEW q
    PROVE  /\ \A g, k : ReadyAt(g, k, ver, w, dk, h) => ReadyAt(g, k, ver, w, dk, h2)
           /\ \A g : Landed(g, ver, w, dk, h) => Landed(g, ver, w, dk, h2)
           /\ WriterInv(w, h) => WriterInv(w, h2)
           /\ AllVouched(dk, ver, h) => AllVouched(dk, ver, h2)
  <1>1. \A g, k : Holds(g, k, ver, w, dk, h) => Holds(g, k, ver, w, dk, h2)
      BY DEF Holds, Known
  <1>2. \A g, k : ReadyAt(g, k, ver, w, dk, h) => ReadyAt(g, k, ver, w, dk, h2)
      BY <1>1 DEF ReadyAt
  <1>3. \A g : Landed(g, ver, w, dk, h) => Landed(g, ver, w, dk, h2)
      BY DEF Landed
  <1>4. WriterInv(w, h) => WriterInv(w, h2)
      BY DEF WriterInv
  <1>5. AllVouched(dk, ver, h) => AllVouched(dk, ver, h2)
      BY DEF AllVouched, Vouched
  <1> QED  BY <1>2, <1>3, <1>4, <1>5

LEMMA ReaderTakesInv ==
    ASSUME TransferInv, ReaderTakes, trouble'.faults <= MaxFaults PROVE TransferInv'
  <1> DEFINE r == toReader[1]
             g == reading.file_num
             h == Hurt(trouble)
             t == trouble'
             h2 == Hurt(t)
             k == Clamped(g, r.offset)
             w == writing
             job == reading'
  <1>1. toReader # <<>> /\ toReader \in Seq(Replies) /\ writing # NoJob
      BY DEF ReaderTakes, TransferInv, TransferTypes
  <1>2. /\ toWriter = <<>> /\ Len(toReader) = 1 /\ Asking(reading) /\ reading.data_stream = 0
        /\ r.file_num = g /\ w.digest <= version[g] /\ g \in Files
        /\ IF r.skip THEN ReadyAt(g + 1, 0, version, w, disk, h)
           ELSE ReadyAt(g, k, version, w, disk, h)
      BY <1>1 DEF TransferInv, ActiveInv, AnswerInv
  <1>3. Head(toReader) = r /\ Tail(toReader) = <<>> /\ r \in Replies
    <2>1. Head(toReader) = r /\ r \in Replies
        BY <1>1, <1>2, ElementOfSeq
    <2>2. Tail(toReader) \in Seq(Replies) /\ Len(Tail(toReader)) = 0
        BY <1>1, <1>2, HeadTailProperties
    <2> QED  BY <2>1, <2>2, EmptySeq
  <1>j. /\ reading \in ReadJob /\ reading # NoJob /\ ~done /\ ReaderInv(reading)
        /\ reading.detection /\ reading.waiting /\ ~reading.confirmed
        /\ w \in WriteJob /\ version \in [Files -> Versions]
        /\ disk \in [Files -> DiskFiles] /\ AllVouched(disk, version, h)
        /\ trouble \in Troubles /\ trouble.failed \subseteq trouble.suspect
        /\ h.failed = trouble.failed /\ h.suspect = trouble.suspect
        /\ h.changed = trouble.changed
      BY <1>1, <1>2, JobFacts DEF Asking, TransferInv
  <1>4. /\ toReader' = <<>> /\ job \in ReaderConfirm(reading, r)
        /\ fate' = IF r.skip /\ r.file_num = reading.file_num
                   THEN [fate EXCEPT ![r.file_num] = "skipped"] ELSE fate
        /\ t = IF r.offset > 0 /\ job.data_stream = reading.data_stream
               THEN Fails(trouble, {r.file_num}) ELSE trouble
        /\ UNCHANGED <<version, writing, disk, toWriter, saved, attempts, done>>
      BY <1>3, <1>j DEF ReaderTakes
  <1>5. r.skip \in BOOLEAN /\ r.offset \in Nat
      BY <1>3 DEF Replies
  <1>n. g \in Nat /\ Sizes[g] \in Nat
      BY <1>2, TransferNumbers
  <1>k. k \in Nat /\ k <= Sizes[g] /\ (r.offset = 0 => k = 0)
      BY <1>5, <1>n DEF Clamped
  <1>d. /\ g = reading.file_num /\ h = Hurt(trouble) /\ t = trouble' /\ h2 = Hurt(t)
        /\ k = Clamped(g, r.offset) /\ w = writing /\ job = reading'
      OBVIOUS
  <1>e. job \in IF r.skip THEN {SkipFile(reading)}
                ELSE {ConfirmFile(reading)}
                     \union (IF r.offset = 0 THEN {}
                             ELSE {[ConfirmFile(reading) EXCEPT !.data_stream = k]})
      BY <1>2, <1>4 DEF ReaderConfirm, Clamped
  <1> HIDE DEF r, g, h, t, h2, k, w, job
  <1>q. t = IF r.offset > 0 /\ job.data_stream = 0 THEN Fails(trouble, {g}) ELSE trouble
      BY <1>2, <1>4
  <1>6. /\ t \in Troubles /\ t.failed \subseteq t.suspect
        /\ trouble.failed \subseteq t.failed /\ trouble.suspect \subseteq t.suspect
        /\ t.changed = trouble.changed
        /\ r.offset > 0 /\ job.data_stream = 0 => g \in t.failed
    <2>1. CASE r.offset > 0 /\ job.data_stream = 0
      <3>1. {g} \in SUBSET Files /\ t \in {Harms(trouble, {g}), Fails(trouble, {g})}
          BY <2>1, <1>2, <1>q
      <3>2. /\ t \in Troubles /\ t.failed \subseteq t.suspect
            /\ t.failed = trouble.failed \cup {g} /\ t.suspect = trouble.suspect \cup {g}
            /\ t.changed = trouble.changed
          BY <3>1, <1>j, FailsFacts
      <3> QED  BY <3>2
    <2>2. CASE ~(r.offset > 0 /\ job.data_stream = 0)
        BY <2>2, <1>j, <1>q
    <2> QED  BY <2>1, <2>2
  <1>h. /\ h2.failed = t.failed /\ h2.suspect = t.suspect /\ h2.changed = t.changed
        /\ h.failed \subseteq h2.failed /\ h.suspect \subseteq h2.suspect
        /\ h2.changed = h.changed
    <2>1. h2.failed = t.failed /\ h2.suspect = t.suspect /\ h2.changed = t.changed
        BY <1>d DEF Hurt
    <2> QED  BY <2>1, <1>6, <1>j
  <1>g. /\ \A n, i : ReadyAt(n, i, version, w, disk, h) => ReadyAt(n, i, version, w, disk, h2)
        /\ \A n : Landed(n, version, w, disk, h) => Landed(n, version, w, disk, h2)
        /\ WriterInv(w, h) => WriterInv(w, h2)
        /\ AllVouched(disk, version, h) => AllVouched(disk, version, h2)
      BY <1>h, GrownReady
  <1>7. /\ job \in ReadJob /\ ReaderInv(job) /\ job.detection
        /\ ReadyAt(job.file_num, Pos(job), version, w, disk, h2)
        /\ job.confirmed => job.file_num = g
    <2>1. CASE r.skip
      <3>1. job = SkipFile(reading)
          BY <2>1, <1>e
      <3>2. /\ job \in ReadJob /\ job.file_num = g + 1
            /\ job.data_stream = Closed /\ job.detection = reading.detection
            /\ job.confirmed = FALSE /\ job.waiting = FALSE
          BY <3>1, <1>2, <1>d, <1>j, SkipFileFacts
      <3>3. ReaderInv(job) /\ Pos(job) = 0
          BY <3>2, ReadJobFacts
      <3> QED  BY <3>2, <3>3, <2>1, <1>2, <1>g, <1>j
    <2>2. CASE ~r.skip
      <3>1. /\ ConfirmFile(reading) \in ReadJob /\ ConfirmFile(reading).file_num = g
            /\ ConfirmFile(reading).data_stream = 0
            /\ ConfirmFile(reading).detection = TRUE /\ ConfirmFile(reading).waiting = TRUE
            /\ ConfirmFile(reading).confirmed = TRUE
          BY <1>2, <1>d, <1>j DEF ConfirmFile, ReadJob
      <3>2. /\ job \in ReadJob /\ job.file_num = g
            /\ job.detection = TRUE /\ job.waiting = TRUE /\ job.confirmed = TRUE
            /\ job.data_stream \in {0, k} /\ (r.offset = 0 => job.data_stream = 0)
        <4>1. CASE job = ConfirmFile(reading)
            BY <4>1, <3>1
        <4>2. CASE r.offset # 0 /\ job = [ConfirmFile(reading) EXCEPT !.data_stream = k]
            BY <4>2, <3>1, <1>k DEF ReadJob
        <4> QED  BY <4>1, <4>2, <2>2, <1>e
      <3>3. job.data_stream \in Nat /\ job.data_stream <= Sizes[g] /\ job.data_stream # Closed
          BY <3>2, <1>k, <1>n, TransferNumbers
      <3>4. ReaderInv(job)
          BY <3>2, <3>3, <1>2, <1>n, TransferNumbers DEF ReaderInv, Past
      <3>5. Pos(job) = job.data_stream
          BY <3>3 DEF Pos
      <3>6. ReadyAt(g, job.data_stream, version, w, disk, h2)
        <4>1. CASE r.offset > 0 /\ job.data_stream = 0
            BY <4>1, <2>2, <1>2, <1>6, <1>h DEF ReadyAt
        <4>2. CASE ~(r.offset > 0 /\ job.data_stream = 0)
          <5>1. job.data_stream = k
              BY <4>2, <3>2, <1>5, <1>k
          <5> QED  BY <5>1, <2>2, <1>2, <1>g
        <4> QED  BY <4>1, <4>2
      <3> QED  BY <3>2, <3>4, <3>5, <3>6
    <2> QED  BY <2>1, <2>2
  <1>8. /\ fate' \in [Files -> {"none", "sent", "skipped", "error"}]
        /\ \A f \in Files : fate'[f] = "sent" => fate[f] = "sent"
    <2>1. fate \in [Files -> {"none", "sent", "skipped", "error"}]
        BY DEF TransferInv, TransferTypes, TransferTypeOK
    <2> QED  BY <2>1, <1>2, <1>4
  <1>u. trouble' \in [failed : SUBSET Files, changed : SUBSET Files, suspect : SUBSET Files,
                      faults : 0..MaxFaults]
      BY <1>6, <1>d, TroubleType
  <1>9. TransferTypes'
      BY <1>4, <1>7, <1>8, <1>u, <1>d, EmptySeq DEF TransferInv, TransferTypes, TransferTypeOK
  <1>10. SentIsWhole'
      BY <1>4, <1>j DEF SentIsWhole
  <1>11. QueueInv(<<>>, <<>>, version, job, w, disk, h2)
      BY <1>7, EmptyFlows DEF QueueInv, LeadsTo
  <1>12. MarkInv(<<>>, version, job, w)
      BY <1>2, <1>7 DEF MarkInv
  <1>13. AnswerInv(<<>>, <<>>, version, job, w, disk, h2)
      BY DEF AnswerInv
  <1>14. WriterInv(w, h2) /\ SentInv(<<>>, fate', version, w, disk, h2)
    <2>1. WriterInv(w, h) /\ SentInv(<<>>, fate, version, w, disk, h)
        BY <1>1, <1>2, <1>d DEF TransferInv, ActiveInv
    <2> QED  BY <2>1, <1>8, <1>g, <1>h DEF SentInv
  <1>15. ActiveInv(<<>>, <<>>, version, job, w, disk, fate', h2)
      BY <1>11, <1>12, <1>13, <1>14 DEF ActiveInv
  <1> QED  BY <1>1, <1>2, <1>4, <1>6, <1>7, <1>9, <1>10, <1>15, <1>d, <1>g, <1>j DEF TransferInv

(* A job whose file is opened, or that stays as it is, sends nothing.      *)
LEMMA Quiet ==
    ASSUME NEW ver, NEW w, NEW dk, NEW h, NEW q \in Seq(Messages), NEW job \in ReadJob,
           NEW ft, ActiveInv(q, <<>>, ver, job, w, dk, ft, h), ~Asking(job),
           NEW job2 \in ReadJob, job2.file_num = job.file_num, Pos(job2) = Pos(job),
           job2.detection = job.detection, job2.confirmed = FALSE
    PROVE  ActiveInv(q, <<>>, ver, job2, w, dk, ft, h)
  <1>1. job # NoJob /\ job2 # NoJob
      BY ReadJobFacts
  <1>2. QueueInv(q, <<>>, ver, job2, w, dk, h)
      BY <1>1 DEF ActiveInv, QueueInv
  <1>3. MarkInv(q, ver, job2, w)
      BY <1>1 DEF ActiveInv, MarkInv
  <1>4. AnswerInv(q, <<>>, ver, job2, w, dk, h)
      BY DEF AnswerInv
  <1> QED  BY <1>2, <1>3, <1>4 DEF ActiveInv

Failed(fault) ==
    IF OpenFails(reading, fault) THEN [fate EXCEPT ![reading.file_num] = "error"] ELSE fate

Fates == [Files -> {"none", "sent", "skipped", "error"}]

Feeds(q, job, ft) ==
    /\ q \in Seq(Messages) /\ job \in ReadJob /\ ReaderInv(job)
    /\ ft \in Fates
    /\ ActiveInv(q, <<>>, version, job, writing, disk, ft, Hurt(trouble))

(* The open job sends a message, with whatever has been sent.              *)
LEMMA FeedSends ==
    ASSUME TransferInv, writing # NoJob,
           NEW q, NEW job, NEW ft, Feeds(q, job, ft), ~Asking(job),
           NEW m \in Messages, Shaped(m), Truthful(m, version, writing, Hurt(trouble)),
           Follows(m, job.file_num, Pos(job)),
           NEW job2, NEW ft2, ft2 \in Fates,
           m.kind = "digest" => Asking(job2),
           m.kind = "done" => job2 = NoJob,
           job2 # NoJob => /\ job2 \in ReadJob /\ ReaderInv(job2)
                           /\ job2.file_num = FileAfter(m) /\ Pos(job2) = PosAfter(m)
                           /\ Marks(job2, version, writing),
           m.kind = "block" => writing.digest <= version[m.file_num],
           \A f \in Files : ft2[f] = "sent" => ft[f] = "sent" \/ (EndOf(m) /\ m.file_num = f)
    PROVE  /\ Append(q, m) \in Seq(Messages)
           /\ job2 # NoJob => job2 \in ReadJob /\ ReaderInv(job2)
           /\ ft2 \in Fates
           /\ ActiveInv(Append(q, m), <<>>, version, job2, writing, disk, ft2, Hurt(trouble))
  <1>1. /\ version \in [Files -> Versions] /\ writing.file_num \in Nat
      BY JobFacts, TransferNumbers DEF WriteJob
  <1> DEFINE h == Hurt(trouble)
  <1>2. /\ q \in Seq(Messages) /\ job \in ReadJob /\ ReaderInv(job)
        /\ ActiveInv(q, <<>>, version, job, writing, disk, ft, h)
        /\ Truthful(m, version, writing, h)
      BY DEF Feeds
  <1>3. h = Hurt(trouble)
      OBVIOUS
  <1> HIDE DEF h
  <1>4. /\ Append(q, m) \in Seq(Messages)
        /\ ActiveInv(Append(q, m), <<>>, version, job2, writing, disk, ft2, h)
      BY <1>1, <1>2, Sends
  <1> QED  BY <1>3, <1>4

(* The job once its file is open.                                          *)
LEMMA OpenedJob ==
    ASSUME TransferInv, reading # NoJob, toReader = <<>>, NEW fault,
           ~Past(reading), ~OpenFails(reading, fault),
           NEW job, job = Opened(reading, fault)
    PROVE  /\ Feeds(toWriter, job, fate) /\ job.file_num = reading.file_num
           /\ job.detection = reading.detection
           /\ job.data_stream # Closed /\ Pos(job) = job.data_stream
  <1> DEFINE h == Hurt(trouble)
             f == reading.file_num
  <1>1. /\ reading \in ReadJob /\ ReaderInv(reading) /\ writing # NoJob
        /\ toWriter \in Seq(Messages) /\ fate \in Fates
        /\ ActiveInv(toWriter, <<>>, version, reading, writing, disk, fate, h)
      BY JobFacts DEF TransferInv, TransferTypes, TransferTypeOK, Fates
  <1>2. f \in Files /\ Sizes[f] \in Nat
      BY <1>1, ReadJobFacts
  <1>d. f = reading.file_num /\ h = Hurt(trouble)
      OBVIOUS
  <1> HIDE DEF f, h
  <1>3. CASE reading.data_stream # Closed
    <2>1. job = reading
        BY <1>3 DEF Opened
    <2> QED  BY <2>1, <1>1, <1>3, <1>d, ReadJobFacts DEF Feeds
  <1>4. CASE reading.data_stream = Closed
    <2>1. /\ job \in ReadJob /\ job.file_num = f /\ job.data_stream = 0
          /\ job.detection = reading.detection /\ job.confirmed = FALSE /\ job.waiting = FALSE
        BY <1>1, <1>4, <1>d, OpenedFacts
    <2>2. ~Asking(reading) /\ Pos(reading) = 0
        BY <1>1, <1>4, ReadJobFacts DEF ReaderInv, Asking
    <2>3. Closed # 0 /\ 0 \in Closed..Sizes[f]
        BY <1>2, TransferNumbers
    <2>4. ReaderInv(job) /\ Pos(job) = 0
        BY <1>2, <2>1, <2>3 DEF ReaderInv, Pos, Past
    <2>5. ActiveInv(toWriter, <<>>, version, job, writing, disk, fate, h)
        BY <1>1, <2>1, <2>2, <2>4, <1>d, Quiet
    <2> QED  BY <1>1, <1>d, <2>1, <2>3, <2>4, <2>5 DEF Feeds
  <1> QED  BY <1>3, <1>4

(* Opening and announcing the file.                                        *)
LEMMA OpensInv ==
    ASSUME TransferInv, reading # NoJob, toReader = <<>>, NEW fault
    PROVE  Feeds(toWriter \o InitMessages(reading, fault), Initialized(reading, fault),
                 Failed(fault))
  <1> DEFINE f == reading.file_num
             h == Hurt(trouble)
  <1>1. /\ reading \in ReadJob /\ ReaderInv(reading) /\ writing # NoJob
        /\ writing \in WriteJob /\ version \in [Files -> Versions]
        /\ toWriter \in Seq(Messages) /\ fate \in Fates
      BY JobFacts DEF TransferInv, TransferTypes, TransferTypeOK, Fates
  <1>2. Feeds(toWriter, reading, fate)
      BY <1>1 DEF TransferInv, Feeds
  <1>4. f \in Nat /\ (~Past(reading) => f \in Files) /\ reading.detection \in BOOLEAN
      BY <1>1, ReadJobFacts DEF ReadJob
  <1>5. toWriter \o <<>> = toWriter
      BY <1>1, ConcatEmptySeq
  <1>6. \A m \in Messages : toWriter \o <<m>> = Append(toWriter, m)
      BY <1>1, AppendIsConcat
  <1>m. MarkInv(toWriter, version, reading, writing)
      BY <1>2 DEF Feeds, ActiveInv
  <1>7. CASE Past(reading)
    <2>1. /\ ~OpenFails(reading, fault) /\ ~Announces(reading, fault)
          /\ InitMessages(reading, fault) = <<>> /\ Failed(fault) = fate
        BY <1>7 DEF OpenFails, Announces, DateFails, InitMessages, Failed
    <2>2. reading.data_stream = Closed
        BY <1>1, <1>7, ReadJobFacts
    <2>3. Initialized(reading, fault) = [reading EXCEPT !.data_stream = Closed]
        BY <1>7, <2>1 DEF Initialized, Opened
    <2>4. Initialized(reading, fault) = reading
        BY <1>1, <2>2, <2>3 DEF ReadJob
    <2> QED  BY <1>2, <1>5, <2>1, <2>4
  <1>8. CASE ~Past(reading) /\ OpenFails(reading, fault)
    <2> DEFINE job == NextFile(reading)
               m == [kind |-> "error", file_num |-> f + 1]
    <2>1. reading.data_stream = Closed /\ ~Asking(reading) /\ Pos(reading) = 0
        BY <1>1, <1>8, ReadJobFacts DEF OpenFails, ReaderInv, Asking
    <2>2. /\ job \in ReadJob /\ job.file_num = f + 1 /\ job.data_stream = Closed
          /\ job.detection = reading.detection /\ job.confirmed = FALSE /\ job.waiting = FALSE
        BY <1>1, <1>4, <1>8, NextFileFacts
    <2>3. ReaderInv(job) /\ Pos(job) = 0 /\ job.file_num \in FileNums
        BY <2>2, ReadJobFacts
    <2>o. Opened(reading, fault) = job
        BY <1>8, <2>1 DEF Opened, OpenFails
    <2>4. Initialized(reading, fault) = job
      <3>1. ~Announces(reading, fault)
          BY <1>8 DEF Announces
      <3> QED  BY <3>1, <2>o DEF Initialized
    <2>5. InitMessages(reading, fault) = <<m>>
        BY <1>8, <2>2, <2>o DEF InitMessages, ErrorFor
    <2>6. /\ m \in Messages /\ m.kind = "error" /\ m.file_num = f + 1
          /\ Shaped(m) /\ Truthful(m, version, writing, h) /\ Follows(m, f, Pos(reading))
          /\ FileAfter(m) = f + 1 /\ PosAfter(m) = 0 /\ ~EndOf(m)
      <3>1. f + 1 \in FileNums
          BY <2>2, <2>3
      <3> QED  BY <3>1
               DEF Messages, Errors, Shaped, Truthful, Follows, FileAfter, PosAfter, EndOf
    <2>7. Marks(job, version, writing)
        BY <1>1, <1>m, <2>2 DEF MarkInv, Marks
    <2>8. Failed(fault) = [fate EXCEPT ![f] = "error"]
        BY <1>8 DEF Failed
    <2>9. Failed(fault) \in Fates /\ \A g \in Files : Failed(fault)[g] = "sent" => fate[g] = "sent"
        BY <1>1, <1>4, <1>8, <2>8 DEF Fates
    <2>f. Truthful(m, version, writing, Hurt(trouble)) /\ Follows(m, reading.file_num, Pos(reading))
        BY <2>6
    <2> DEFINE ft == Failed(fault)
    <2>g. ft = Failed(fault)
        OBVIOUS
    <2> HIDE DEF job, m, f, h, ft
    <2>10. /\ Append(toWriter, m) \in Seq(Messages)
           /\ ActiveInv(Append(toWriter, m), <<>>, version, job, writing, disk, ft,
                        Hurt(trouble))
      <3>1. job.file_num = FileAfter(m) /\ Pos(job) = PosAfter(m)
          BY <2>2, <2>3, <2>6
      <3>2. ft \in Fates /\ \A g \in Files : ft[g] = "sent" => fate[g] = "sent"
          BY <2>9, <2>g
      <3> QED  BY <1>1, <1>2, <2>1, <2>2, <2>3, <2>6, <2>7, <2>f, <3>1, <3>2, FeedSends
    <2> QED  BY <1>6, <2>2, <2>3, <2>4, <2>5, <2>6, <2>9, <2>10, <2>g DEF Feeds
  <1>9. CASE ~Past(reading) /\ ~OpenFails(reading, fault)
    <2> DEFINE job == Opened(reading, fault)
               job2 == [job EXCEPT !.waiting = TRUE]
               m == [kind |-> "digest", file_num |-> f, digest |-> version[f]]
               e == [kind |-> "error", file_num |-> f]
    <2>1. /\ Feeds(toWriter, job, fate) /\ job.file_num = f
          /\ job.detection = reading.detection
          /\ job.data_stream # Closed /\ Pos(job) = job.data_stream
        BY <1>1, <1>9, OpenedJob
    <2>2. Failed(fault) = fate /\ job \in ReadJob /\ ReaderInv(job)
          /\ MarkInv(toWriter, version, job, writing)
        BY <1>9, <2>1 DEF Failed, Feeds, ActiveInv
    <2>j. job # NoJob /\ f \in Files /\ Sizes[f] \in Nat
        BY <1>1, <1>9, <2>2, ReadJobFacts
    <2>m. Marks(job, version, writing)
        BY <2>2, <2>j DEF MarkInv, Marks
    <2>3. CASE ~Announces(reading, fault)
      <3>1. Initialized(reading, fault) = job /\ InitMessages(reading, fault) = <<>>
          BY <1>9, <2>3 DEF Initialized, DateFails, InitMessages
      <3> QED  BY <1>5, <2>1, <2>2, <3>1
    <2>4. CASE Announces(reading, fault)
      <3>1. /\ reading.detection /\ ~job.confirmed /\ ~job.waiting /\ ~Asking(job)
            /\ job.detection /\ job.data_stream = 0 /\ Pos(job) = 0
          BY <2>1, <2>2, <2>4 DEF Announces, ReaderInv, Asking
      <3>2. CASE fault = "date"
        <4>1. Initialized(reading, fault) = job /\ InitMessages(reading, fault) = <<e>>
            BY <1>9, <2>1, <2>4, <3>2 DEF Initialized, DateFails, InitMessages, ErrorFor
        <4>2. /\ e \in Messages /\ e.kind = "error" /\ e.file_num = f
              /\ Shaped(e) /\ Truthful(e, version, writing, Hurt(trouble))
              /\ Follows(e, job.file_num, Pos(job))
              /\ FileAfter(e) = f /\ PosAfter(e) = 0 /\ ~EndOf(e)
          <5>1. f \in FileNums
              BY <1>1, ReadJobFacts
          <5> QED  BY <5>1, <2>1, <3>1
                   DEF Messages, Errors, Shaped, Truthful, Follows, FileAfter, PosAfter, EndOf
        <4> HIDE DEF job, job2, m, e, f, h
        <4>3. /\ Append(toWriter, e) \in Seq(Messages)
              /\ ActiveInv(Append(toWriter, e), <<>>, version, job, writing, disk, fate,
                           Hurt(trouble))
          <5>1. job.file_num = FileAfter(e) /\ Pos(job) = PosAfter(e)
              BY <2>1, <3>1, <4>2
          <5> QED  BY <1>1, <2>1, <2>2, <2>m, <3>1, <4>2, <5>1, FeedSends
        <4> QED  BY <1>1, <1>6, <2>2, <4>1, <4>2, <4>3 DEF Feeds
      <3>3. CASE fault # "date"
        <4>1. Initialized(reading, fault) = job2 /\ InitMessages(reading, fault) = <<m>>
            BY <1>9, <2>4, <3>3 DEF Initialized, DateFails, InitMessages
        <4>2. /\ job2 \in ReadJob /\ job2.file_num = f /\ job2.data_stream = 0
              /\ job2.detection /\ job2.confirmed = FALSE /\ job2.waiting = TRUE
            BY <2>1, <2>2, <3>1 DEF ReadJob
        <4>3. ReaderInv(job2) /\ Pos(job2) = 0 /\ Asking(job2)
          <5>0. Closed # 0 /\ 0 \in Closed..Sizes[f]
              BY <2>j, TransferNumbers
          <5>1. job2 # NoJob
              BY <4>2, ReadJobFacts
          <5>2. ~Past(job2) /\ Pos(job2) = 0
              BY <5>0, <2>j, <4>2 DEF Past, Pos
          <5>3. ReaderInv(job2)
              BY <5>0, <5>2, <4>2 DEF ReaderInv
          <5> QED  BY <5>1, <5>2, <5>3, <4>2 DEF Asking
        <4>4. /\ m \in Messages /\ m.kind = "digest" /\ m.file_num = f
              /\ Shaped(m) /\ Truthful(m, version, writing, Hurt(trouble))
              /\ Follows(m, job.file_num, Pos(job))
              /\ FileAfter(m) = f /\ PosAfter(m) = 0 /\ ~EndOf(m)
          <5>1. version[f] \in Versions /\ version[f] <= version[f]
            <6>1. version[f] \in Versions /\ version[f] \in Nat
                BY <1>1, <2>j, FileFacts
            <6> QED  BY <6>1
          <5>2. m \in Messages /\ m.kind = "digest" /\ m.file_num = f /\ m.digest = version[f]
              BY <5>1, <2>j DEF Messages, Digests
          <5>3. Truthful(m, version, writing, Hurt(trouble))
              BY <5>1, <5>2 DEF Truthful
          <5> QED  BY <5>2, <5>3, <2>1, <3>1
                   DEF Shaped, Follows, FileAfter, PosAfter, PosBefore, EndOf
        <4>5. Marks(job2, version, writing)
            BY <4>2 DEF Marks
        <4> HIDE DEF job, job2, m, e, f, h
        <4>6. /\ Append(toWriter, m) \in Seq(Messages)
              /\ ActiveInv(Append(toWriter, m), <<>>, version, job2, writing, disk, fate,
                           Hurt(trouble))
          <5>1. job2.file_num = FileAfter(m) /\ Pos(job2) = PosAfter(m)
              BY <4>2, <4>3, <4>4
          <5> QED  BY <1>1, <2>1, <2>2, <3>1, <4>2, <4>3, <4>4, <4>5, <5>1, FeedSends
        <4> QED  BY <1>1, <1>6, <2>2, <4>1, <4>2, <4>3, <4>4, <4>6 DEF Feeds
      <3> QED  BY <3>2, <3>3
    <2> QED  BY <2>3, <2>4
  <1> QED  BY <1>7, <1>8, <1>9

LEMMA HandleReadJobsInv ==
    ASSUME TransferInv, HandleReadJobs, trouble'.faults <= MaxFaults PROVE TransferInv'
  <1>1. /\ reading \in ReadJob /\ reading # NoJob /\ writing # NoJob /\ ~done
        /\ ReaderInv(reading) /\ version \in [Files -> Versions]
        /\ trouble \in Troubles /\ trouble.failed \subseteq trouble.suspect
        /\ AllVouched(disk, version, Hurt(trouble))
        /\ UNCHANGED <<version, writing, disk, toReader, saved, attempts, done>>
      BY JobFacts DEF HandleReadJobs, TransferInv
  <1>f. PICK fault \in Faults :
          LET job == Initialized(reading, fault)
              said == toWriter \o InitMessages(reading, fault)
              fails == OpenFails(reading, fault) \/ DateFails(reading, fault)
              known == IF fails THEN Fails(trouble, {}) ELSE trouble IN
          \/ /\ Unconfirmed(job) \/ Past(job)
             /\ fate' = Failed(fault) /\ trouble' = known
             /\ IF job_completed(job)
                THEN /\ reading' = NoJob
                     /\ toWriter' = Append(said, IF job_skipped(job) THEN ErrorFor(job)
                                            ELSE [kind |-> "done", file_num |-> job.file_num])
                ELSE reading' = job /\ toWriter' = said
          \/ /\ ~Unconfirmed(job) /\ ~Past(job)
             /\ job.data_stream = Closed
             /\ reading' = job /\ fate' = Failed(fault) /\ trouble' = known
             /\ toWriter' = Append(said, ErrorFor(job))
          \/ /\ ~Unconfirmed(job) /\ ~Past(job) /\ job.data_stream # Closed
             /\ \E r \in Read(job) :
                  /\ reading' = r.job
                  /\ fate' = [Failed(fault) EXCEPT ![job.file_num] = r.fate]
                  /\ trouble' = IF r.fate = "error" THEN Fails(known, {}) ELSE known
                  /\ toWriter' = Append(said, r.said)
      BY DEF HandleReadJobs, Failed
  <1> DEFINE job == Initialized(reading, fault)
             said == toWriter \o InitMessages(reading, fault)
             g == job.file_num
             h == Hurt(trouble)
             known == IF OpenFails(reading, fault) \/ DateFails(reading, fault)
                      THEN Fails(trouble, {}) ELSE trouble
             Outcome(q, j, ft) ==
               /\ q \in Seq(Messages) /\ ft \in Fates
               /\ j # NoJob => j \in ReadJob /\ ReaderInv(j)
               /\ ActiveInv(q, toReader, version, j, writing, disk, ft, h)
  <1>t. /\ trouble' \in Troubles /\ trouble'.failed \subseteq trouble'.suspect
        /\ Hurt(trouble') = h
    <2>1. known \in Troubles /\ known.failed \subseteq known.suspect /\ Hurt(known) = h
        BY <1>1, HurtFacts
    <2>2. trouble' = known \/ trouble' = Fails(known, {})
        BY <1>f
    <2> HIDE DEF known, h
    <2>3. CASE trouble' = known
        BY <2>1, <2>3
    <2>4. CASE trouble' = Fails(known, {})
        BY <2>1, <2>4, HurtFacts
    <2> QED  BY <2>2, <2>3, <2>4
  <1>u. trouble' \in [failed : SUBSET Files, changed : SUBSET Files, suspect : SUBSET Files,
                      faults : 0..MaxFaults]
      BY <1>t, TroubleType
  <1>2. ASSUME Outcome(toWriter', reading', fate') PROVE TransferInv'
    <2>1. TransferTypes'
        BY <1>1, <1>2, <1>u DEF TransferInv, TransferTypes, TransferTypeOK, Fates
    <2>2. SentIsWhole'
        BY <1>1 DEF SentIsWhole
    <2>3. ActiveInv(toWriter', toReader', version', reading', writing', disk', fate',
                    Hurt(trouble'))
        BY <1>1, <1>2, <1>t
    <2>4. AllVouched(disk', version', Hurt(trouble'))
        BY <1>1, <1>t
    <2> QED  BY <1>1, <1>2, <1>t, <2>1, <2>2, <2>3, <2>4 DEF TransferInv
  <1>3. CASE toReader # <<>>
    <2>1. Asking(reading) /\ reading.data_stream = 0 /\ reading.file_num \in Files
        BY <1>1, <1>3 DEF TransferInv, ActiveInv, AnswerInv
    <2>2. 0 # Closed
        BY TransferNumbers
    <2>3. ~Past(reading) /\ ~OpenFails(reading, fault) /\ Opened(reading, fault) = reading
        BY <2>1, <2>2 DEF Past, OpenFails, Opened
    <2>4. ~Announces(reading, fault) /\ ~DateFails(reading, fault)
        BY <2>1, <2>3 DEF Announces, DateFails, Asking
    <2>5. job = reading /\ InitMessages(reading, fault) = <<>>
        BY <2>3, <2>4 DEF Initialized, InitMessages
    <2>6. said = toWriter
      <3>1. toWriter \in Seq(Messages)
          BY DEF TransferInv, TransferTypes
      <3> QED  BY <3>1, <2>5, ConcatEmptySeq
    <2>7. Unconfirmed(reading) /\ ~job_completed(reading)
        BY <2>1 DEF Asking, Unconfirmed, job_completed
    <2>8. reading' = reading /\ toWriter' = toWriter /\ fate' = fate /\ trouble' = trouble
        BY <2>3, <2>4, <2>5, <2>6, <2>7, <1>f DEF Failed
    <2> QED  BY <1>1, <2>8, TransferStutter DEF transferVars
  <1>4. CASE toReader = <<>>
    <2> DEFINE failed == Failed(fault)
    <2>1. Feeds(said, job, failed)
        BY <1>1, <1>4, OpensInv
    <2>2. /\ said \in Seq(Messages) /\ job \in ReadJob /\ ReaderInv(job) /\ failed \in Fates
          /\ ActiveInv(said, <<>>, version, job, writing, disk, failed, h)
          /\ MarkInv(said, version, job, writing)
        BY <2>1 DEF Feeds, ActiveInv
    <2>3. /\ job # NoJob /\ g \in Nat /\ g \in FileNums /\ Pos(job) \in Nat
          /\ ~Past(job) => g \in Files /\ Sizes[g] \in Nat
          /\ job.data_stream = Closed => Pos(job) = 0
          /\ job.data_stream # Closed => Pos(job) = job.data_stream
          /\ Past(job) => job.data_stream = Closed
        BY <2>2, ReadJobFacts
    <2>m. Marks(job, version, writing)
        BY <2>2, <2>3 DEF MarkInv, Marks
    <2>4. \/ /\ Unconfirmed(job) \/ Past(job)
             /\ fate' = failed
             /\ IF job_completed(job)
                THEN /\ reading' = NoJob
                     /\ toWriter' = Append(said, IF job_skipped(job) THEN ErrorFor(job)
                                                 ELSE [kind |-> "done", file_num |-> g])
                ELSE reading' = job /\ toWriter' = said
          \/ /\ ~Unconfirmed(job) /\ ~Past(job)
             /\ job.data_stream = Closed
             /\ reading' = job /\ fate' = failed
             /\ toWriter' = Append(said, ErrorFor(job))
          \/ /\ ~Unconfirmed(job) /\ ~Past(job) /\ job.data_stream # Closed
             /\ \E r \in Read(job) :
                  /\ reading' = r.job
                  /\ fate' = [failed EXCEPT ![g] = r.fate]
                  /\ toWriter' = Append(said, r.said)
        BY <1>f
    <2>n. ErrorFor(job) = [kind |-> "error", file_num |-> g]
        BY DEF ErrorFor
    <2> DEFINE e == [kind |-> "error", file_num |-> g]
               o == [kind |-> "done", file_num |-> g]
    <2>e. /\ e \in Messages /\ e.kind = "error" /\ Shaped(e) /\ Truthful(e, version, writing, h)
          /\ FileAfter(e) = g /\ PosAfter(e) = 0 /\ ~EndOf(e)
          /\ Pos(job) = 0 => Follows(e, g, Pos(job))
        BY <2>3 DEF Messages, Errors, Shaped, Truthful, Follows, FileAfter, PosAfter, EndOf
    <2>o. /\ o \in Messages /\ o.kind = "done" /\ Shaped(o) /\ Truthful(o, version, writing, h) /\ ~EndOf(o)
          /\ Follows(o, g, Pos(job))
        BY <2>3 DEF Messages, Dones, Shaped, Truthful, Follows, EndOf
    <2>f. g = job.file_num
        OBVIOUS
    <2>x. ASSUME NEW q, NEW j, NEW ft,
                 /\ q \in Seq(Messages) /\ (j # NoJob => j \in ReadJob /\ ReaderInv(j))
                 /\ ft \in Fates /\ ActiveInv(q, <<>>, version, j, writing, disk, ft, h),
                 toWriter' = q, reading' = j, fate' = ft
          PROVE  TransferInv'
      <3>1. Outcome(toWriter', reading', fate')
          BY <1>4, <2>x DEF Outcome
      <3> QED  BY <3>1, <1>2
    <2>h. h = Hurt(trouble)
        OBVIOUS
    <2> HIDE DEF job, said, g, e, o, h, failed, known, Outcome
    <2>5. CASE (Unconfirmed(job) \/ Past(job)) /\ job_completed(job)
      <3>1. ~Asking(job)
          BY <2>5 DEF job_completed, Asking
      <3>2. Pos(job) = 0
        <4>1. CASE Past(job)
            BY <4>1, <2>3
        <4>2. CASE Unconfirmed(job)
            BY <4>2, <2>2, <2>3 DEF Unconfirmed, ReaderInv
        <4> QED  BY <4>1, <4>2, <2>5
      <3>3. reading' = NoJob /\ fate' = failed
        <4>1. (Unconfirmed(job) \/ Past(job)) => reading' = NoJob /\ fate' = failed
            BY <2>4, <2>5
        <4> QED  BY <4>1, <2>5
      <3>4. toWriter' = Append(said, e) \/ toWriter' = Append(said, o)
          BY <2>4, <2>5, <2>n DEF e, o
      <3>5. CASE toWriter' = Append(said, e)
        <4>1. Follows(e, job.file_num, Pos(job))
            BY <2>e, <2>f, <3>2
        <4>2. /\ Append(said, e) \in Seq(Messages)
              /\ ActiveInv(Append(said, e), <<>>, version, NoJob, writing, disk, failed, h)
            BY <1>1, <2>1, <2>2, <2>e, <3>1, <4>1, <2>h, FeedSends
        <4> QED  BY <4>2, <2>2, <3>3, <3>5, <2>x
      <3>6. CASE toWriter' = Append(said, o)
        <4>1. Follows(o, job.file_num, Pos(job))
            BY <2>o, <2>f
        <4>2. /\ Append(said, o) \in Seq(Messages)
              /\ ActiveInv(Append(said, o), <<>>, version, NoJob, writing, disk, failed, h)
            BY <1>1, <2>1, <2>2, <2>o, <3>1, <4>1, <2>h, FeedSends
        <4> QED  BY <4>2, <2>2, <3>3, <3>6, <2>x
      <3> QED  BY <3>4, <3>5, <3>6
    <2>6. CASE (Unconfirmed(job) \/ Past(job)) /\ ~job_completed(job)
      <3>1. (Unconfirmed(job) \/ Past(job)) => reading' = job /\ fate' = failed /\ toWriter' = said
          BY <2>4, <2>6
      <3> QED  BY <3>1, <2>2, <2>6, <2>x
    <2>7. CASE ~Unconfirmed(job) /\ ~Past(job) /\ job.data_stream = Closed
      <3>1. reading' = job /\ fate' = failed /\ toWriter' = Append(said, e)
          BY <2>4, <2>7, <2>n DEF e
      <3>2. ~Asking(job) /\ Pos(job) = 0
          BY <2>2, <2>3, <2>7 DEF ReaderInv, Asking
      <3>3. /\ Follows(e, job.file_num, Pos(job))
            /\ job.file_num = FileAfter(e) /\ Pos(job) = PosAfter(e)
          BY <2>e, <2>f, <3>2
      <3>4. /\ Append(said, e) \in Seq(Messages)
            /\ ActiveInv(Append(said, e), <<>>, version, job, writing, disk, failed, h)
          BY <1>1, <2>1, <2>2, <2>m, <2>e, <3>2, <3>3, <2>h, FeedSends
      <3> QED  BY <3>1, <3>4, <2>2, <2>x
    <2>8. CASE ~Unconfirmed(job) /\ ~Past(job) /\ job.data_stream # Closed
      <3> DEFINE at == job.data_stream
                 v == version[g]
                 next == NextFile(job)
                 E == [kind |-> "error", file_num |-> g + 1]
                 F == [kind |-> "block", file_num |-> g, data |-> <<>>]
                 D == [kind |-> "block", file_num |-> g, data |-> << <<v, at + 1>> >>]
                 onward == [job EXCEPT !.data_stream = @ + 1]
      <3>1. /\ g \in Files /\ Sizes[g] \in Nat /\ at \in Nat /\ at <= Sizes[g] /\ Pos(job) = at
            /\ v \in Versions /\ v \in Nat
        <4>1. at \in Closed..Sizes[g] /\ at # Closed /\ g \in Files /\ Sizes[g] \in Nat
            BY <2>2, <2>3, <2>8, <2>f DEF ReaderInv
        <4>2. v \in Versions
            BY <4>1, <1>1
        <4>3. at \in Nat /\ at <= Sizes[g]
            BY <4>1, TransferNumbers
        <4>4. v \in Nat
            BY <4>2, TransferNumbers
        <4> QED  BY <4>1, <4>2, <4>3, <4>4, <2>3, <2>8
      <3>2. ~Asking(job)
          BY <2>8 DEF Unconfirmed, Asking
      <3>3. writing.digest <= v
        <4>1. CASE job.detection
            BY <4>1, <2>m, <2>8, <2>f DEF Marks, Unconfirmed
        <4>2. CASE ~job.detection
          <5>1. writing.digest = NoDigest
              BY <4>2, <2>m DEF Marks
          <5>2. NoDigest <= v
              BY <3>1, TransferNumbers DEF NoDigest
          <5> QED  BY <5>1, <5>2
        <4> QED  BY <4>1, <4>2
      <3>4. /\ next \in ReadJob /\ next.file_num = g + 1 /\ next.data_stream = Closed
            /\ next.detection = job.detection /\ next.confirmed = FALSE /\ next.waiting = FALSE
            /\ g + 1 \in FileNums
        <4>1. job.file_num \in Files
            BY <2>f, <3>1
        <4>2. g + 1 \in FileNums
            BY <3>1, TransferNumbers DEF FileNums
        <4>3. next.file_num = g + 1
            BY <4>1, <2>2, <2>f, NextFileFacts
        <4> QED  BY <4>1, <4>2, <4>3, <2>2, NextFileFacts
      <3>5. ReaderInv(next) /\ Pos(next) = 0 /\ next # NoJob
          BY <3>4, ReadJobFacts
      <3>6. Marks(next, version, writing)
          BY <2>m, <3>4 DEF Marks
      <3>r. PICK r \in Read(job) : /\ reading' = r.job /\ toWriter' = Append(said, r.said)
                                   /\ fate' = [failed EXCEPT ![g] = r.fate]
          BY <2>4, <2>8
      <3>7. \/ r = [job |-> next, said |-> ErrorFor(next), fate |-> "error"]
            \/ at = Sizes[g] /\ r = [job |-> next, said |-> F, fate |-> "sent"]
            \/ at # Sizes[g] /\ r = [job |-> onward, fate |-> "none", said |->
                 Block(job, <<Content(g, v)[at + 1]>>)]
          BY <2>f DEF Read, Block
      <3>8. CASE r = [job |-> next, said |-> ErrorFor(next), fate |-> "error"]
        <4>1. /\ reading' = next /\ toWriter' = Append(said, E)
              /\ fate' = [failed EXCEPT ![g] = "error"]
            BY <3>8, <3>r, <3>4 DEF ErrorFor
        <4>2. fate' \in Fates /\ \A f \in Files : fate'[f] = "sent" => failed[f] = "sent"
            BY <4>1, <2>2, <3>1 DEF Fates
        <4>3. /\ E \in Messages /\ E.kind = "error" /\ Shaped(E) /\ Truthful(E, version, writing, h)
              /\ FileAfter(E) = g + 1 /\ PosAfter(E) = 0 /\ ~EndOf(E)
              /\ Follows(E, g, Pos(job))
            BY <3>4 DEF Messages, Errors, Shaped, Truthful, Follows, FileAfter, PosAfter, EndOf
        <4> HIDE DEF E, next, at, v, F, D, onward
        <4>4. /\ Follows(E, job.file_num, Pos(job))
              /\ next.file_num = FileAfter(E) /\ Pos(next) = PosAfter(E)
            BY <4>3, <2>f, <3>4, <3>5
        <4>5. /\ Append(said, E) \in Seq(Messages)
              /\ ActiveInv(Append(said, E), <<>>, version, next, writing, disk, fate', h)
            BY <1>1, <2>1, <3>2, <3>4, <3>5, <3>6, <4>2, <4>3, <4>4, <2>h, FeedSends
        <4> QED  BY <4>1, <4>2, <4>5, <3>4, <3>5, <2>x
      <3>9. CASE at = Sizes[g] /\ r = [job |-> next, said |-> F, fate |-> "sent"]
        <4>1. /\ reading' = next /\ toWriter' = Append(said, F)
              /\ fate' = [failed EXCEPT ![g] = "sent"]
            BY <3>9, <3>r
        <4>2. /\ fate' \in Fates
              /\ \A f \in Files : fate'[f] = "sent" => failed[f] = "sent" \/ f = g
            BY <4>1, <2>2, <3>1 DEF Fates
        <4>3. /\ F \in Messages /\ F.kind = "block" /\ F.file_num = g /\ Shaped(F) /\ Truthful(F, version, writing, h)
              /\ FileAfter(F) = g + 1 /\ PosAfter(F) = 0 /\ EndOf(F)
              /\ Follows(F, g, Pos(job))
          <5>1. <<>> \in Bytes
              BY TransferNumbers
          <5>2. F \in Messages /\ F.kind = "block" /\ F.file_num = g /\ F.data = <<>>
              BY <5>1, <3>1 DEF Messages, Blocks
          <5>3. PosBefore(F) = Pos(job)
              BY <5>2, <3>1, <3>9 DEF PosBefore
          <5> QED  BY <5>2, <5>3 DEF Shaped, Truthful, Follows, FileAfter, PosAfter, EndOf
        <4> HIDE DEF E, next, at, v, F, D, onward
        <4>4. /\ Follows(F, job.file_num, Pos(job))
              /\ next.file_num = FileAfter(F) /\ Pos(next) = PosAfter(F)
              /\ writing.digest <= version[F.file_num]
            BY <4>3, <2>f, <3>3, <3>4, <3>5 DEF v
        <4>5. /\ Append(said, F) \in Seq(Messages)
              /\ ActiveInv(Append(said, F), <<>>, version, next, writing, disk, fate', h)
          <5>1. \A f \in Files : fate'[f] = "sent"
                  => failed[f] = "sent" \/ (EndOf(F) /\ F.file_num = f)
              BY <4>2, <4>3
          <5> QED  BY <1>1, <2>1, <3>2, <3>4, <3>5, <3>6, <4>2, <4>3, <4>4, <5>1, <2>h, FeedSends
        <4> QED  BY <4>1, <4>2, <4>5, <3>4, <3>5, <2>x
      <3>10. CASE at # Sizes[g] /\ r = [job |-> onward, fate |-> "none", said |->
                    Block(job, <<Content(g, v)[at + 1]>>)]
        <4>0. at + 1 \in 1..Sizes[g] /\ at + 1 \in Int /\ at + 1 # Closed /\ at + 1 # 0
            BY <3>10, <3>1, TransferNumbers
        <4>1. Content(g, v)[at + 1] = <<v, at + 1>>
            BY <4>0 DEF Content
        <4>2. Block(job, <<Content(g, v)[at + 1]>>) = D
            BY <4>1, <2>f DEF Block
        <4>3. /\ reading' = onward /\ toWriter' = Append(said, D)
              /\ fate' = [failed EXCEPT ![g] = "none"]
            BY <3>10, <3>r, <4>2
        <4>4. fate' \in Fates /\ \A f \in Files : fate'[f] = "sent" => failed[f] = "sent"
            BY <4>3, <2>2, <3>1 DEF Fates
        <4>5. /\ onward \in ReadJob /\ onward.file_num = g /\ onward.data_stream = at + 1
              /\ onward.detection = job.detection /\ onward.confirmed = job.confirmed
              /\ onward.waiting = job.waiting
            BY <4>0, <2>2, <2>f DEF ReadJob
        <4>6. ReaderInv(onward) /\ Pos(onward) = at + 1 /\ onward # NoJob
          <5>1. onward # NoJob
              BY <4>5, ReadJobFacts
          <5>2. Pos(onward) = at + 1 /\ ~Past(onward)
              BY <4>0, <4>5, <3>1 DEF Pos, Past
          <5>3. at + 1 \in Closed..Sizes[g]
              BY <4>0, <3>1, TransferNumbers
          <5>4. ~job.detection \/ (job.confirmed /\ job.waiting)
              BY <2>2, <2>8 DEF Unconfirmed, ReaderInv
          <5>5. ReaderInv(onward)
              BY <4>0, <4>5, <5>2, <5>3, <5>4 DEF ReaderInv
          <5> QED  BY <5>1, <5>2, <5>5
        <4>7. Marks(onward, version, writing)
            BY <2>m, <2>8, <2>f, <4>5 DEF Marks
        <4>8. /\ D \in Messages /\ D.kind = "block" /\ D.file_num = g /\ Shaped(D) /\ Truthful(D, version, writing, h)
              /\ FileAfter(D) = g /\ PosAfter(D) = at + 1 /\ ~EndOf(D)
              /\ Follows(D, g, Pos(job))
          <5>1. << <<v, at + 1>> >> \in Bytes /\ << <<v, at + 1>> >> # <<>>
              BY <3>1 DEF Bytes
          <5>2. /\ D \in Messages /\ D.kind = "block" /\ D.file_num = g
                /\ D.data = << <<v, at + 1>> >> /\ D.data # <<>> /\ D.data[1][2] = at + 1
              BY <5>1, <3>1 DEF Messages, Blocks
          <5>3. PosBefore(D) = Pos(job) /\ PosAfter(D) = at + 1
              BY <5>2, <3>1 DEF PosBefore, PosAfter
          <5>4. Shaped(D) /\ Truthful(D, version, writing, h)
              BY <5>2, <4>0, <3>1 DEF Shaped, Truthful
          <5> QED  BY <5>2, <5>3, <5>4 DEF Follows, FileAfter, EndOf
        <4> HIDE DEF E, next, at, v, F, D, onward
        <4>9. /\ Follows(D, job.file_num, Pos(job))
              /\ onward.file_num = FileAfter(D) /\ Pos(onward) = PosAfter(D)
              /\ writing.digest <= version[D.file_num]
            BY <4>5, <4>6, <4>8, <2>f, <3>3 DEF v
        <4>10. /\ Append(said, D) \in Seq(Messages)
               /\ ActiveInv(Append(said, D), <<>>, version, onward, writing, disk, fate', h)
          <5>1. Feeds(said, job, failed)
              BY <2>1
          <5>2. /\ D \in Messages /\ Shaped(D) /\ Truthful(D, version, writing, Hurt(trouble))
                /\ Follows(D, job.file_num, Pos(job))
                /\ D.kind # "digest" /\ D.kind # "done"
              BY <4>8, <4>9, <2>h
          <5>3. onward # NoJob => /\ onward \in ReadJob /\ ReaderInv(onward)
                                 /\ onward.file_num = FileAfter(D) /\ Pos(onward) = PosAfter(D)
                                 /\ Marks(onward, version, writing)
              BY <4>5, <4>6, <4>7, <4>9
          <5>4. fate' \in Fates
              BY <4>4
          <5>5. \A f \in Files : fate'[f] = "sent" =>
                   failed[f] = "sent" \/ (EndOf(D) /\ D.file_num = f)
              BY <4>4
          <5>6. /\ Append(said, D) \in Seq(Messages)
                /\ ActiveInv(Append(said, D), <<>>, version, onward, writing, disk, fate', Hurt(trouble))
              BY <1>1, <3>2, <4>9, <5>1, <5>2, <5>3, <5>4, <5>5, FeedSends
          <5> QED  BY <5>6, <2>h
        <4> QED  BY <4>3, <4>4, <4>5, <4>6, <4>10, <2>x
      <3> QED  BY <3>7, <3>8, <3>9, <3>10
    <2> QED  BY <2>5, <2>6, <2>7, <2>8
  <1> QED  BY <1>3, <1>4
LEMMA TransferStep == ASSUME TransferInv, [TransferNext]_transferVars PROVE TransferInv'
  <1>1. ASSUME NEW detection \in BOOLEAN, NEW is_resume \in BOOLEAN, Start(detection, is_resume),
               trouble'.faults <= MaxFaults
        PROVE  TransferInv'
      BY <1>1, StartInv
  <1>2. ASSUME NEW f \in Files, SourceChanges(f), trouble'.faults <= MaxFaults PROVE TransferInv'
      BY <1>2, SourceChangesInv
  <1> QED  BY <1>1, <1>2, ConnectionLostInv, HandleReadJobsInv, ReaderTakesInv, WriteInv,
              WriteFailsInv, StopsInWriteInv, AnswerDigestInv, WriterDoneInv, WriterErrorInv,
              CancelInv, TransferStutter DEF TransferNext, WriterTakes

(* What is vouched for is the beginning of the source.                     *)
LEMMA VouchesAll == ASSUME TransferInv PROVE DigestVouches
  <1> SUFFICES ASSUME NEW f \in Files \ trouble.suspect,
                      disk[f].download # None, disk[f].digest = version[f]
               PROVE  IsPrefix(disk[f].download, Content(f, version[f]))
      BY DEF DigestVouches
  <1> DEFINE v == version[f]
             k == Len(disk[f].download)
  <1>1. /\ v \in Nat /\ v \notin {Absent, NoDigest} /\ Sizes[f] \in Nat
      BY JobFacts, FileFacts
  <1>2. disk[f].download \in Bytes
      BY JobFacts DEF DiskFiles
  <1>3. k \in Nat
      BY <1>2 DEF Bytes
  <1>4. Vouched(disk[f], f, version, Hurt(trouble)) /\ f \notin Hurt(trouble).suspect
      BY JobFacts DEF AllVouched
  <1>5. k <= Sizes[f] /\ disk[f].download = Part(v, k)
      BY <1>1, <1>4 DEF Vouched
  <1> HIDE DEF v, k
  <1>6. IsPrefix(Part(v, k), Part(v, Sizes[f]))
      BY <1>1, <1>3, <1>5, PartIsPrefix
  <1>7. Content(f, v) = Part(v, Sizes[f])
      BY ContentIsPart
  <1> QED  BY <1>5, <1>6, <1>7 DEF v

(* Once Done has been handled, every file that was sent to its end is whole  *)
(* and in its place, and a digest on disk vouches for the download it lies  *)
(* beside: whatever files the job has, however often and wherever calls on  *)
(* files fail, the connection breaks or the process ends, and whenever the  *)
(* sources change.  Left out is no run of the program but single files:     *)
(* one that a failed call belongs to, one that a single end resumed, and    *)
(* for the first half one whose source changed in the attempt (fs.rs,       *)
(* write, read, confirm, is_write_need_confirmation, modify_time).          *)
THEOREM TransferTheorem == Spec => []TransferIsFaithful
  <1>1. Init => TransferInv
      BY TransferInitInv DEF Init
  <1>2. ASSUME TransferInv,
               [Next]_<<part, framingVars, rtcVars, tlsVars, transferVars, configVars>>
        PROVE  TransferInv'
    <2>1. TransferNext \/ UNCHANGED transferVars
        BY <1>2 DEF Next
    <2> QED  BY <2>1, <1>2, TransferStep
  <1>3. TransferInv => TransferIsFaithful
      BY VouchesAll DEF TransferInv, TransferTypes, TransferIsFaithful
  <1> QED  BY <1>1, <1>2, <1>3, PTL DEF Spec

-----------------------------------------------------------------------------
(* The frames of a stream.                                                 *)

Items == [byte : 0..255, of : Nat, n : Nat \ {0}]

(* A place in the stream of the frames `s': behind `at' bytes of a frame.  *)
(* The end of a frame is the beginning of the next.                        *)
FrameLength(s, k) == HeaderLength(s[k]) + s[k]
Place(s, k, b) ==
    IF b = FrameLength(s, k) THEN [frame |-> k + 1, at |-> 0] ELSE [frame |-> k, at |-> b]
StreamPlaces == [frame : Nat, at : Nat]

(* What may come next there, and where it ends.                            *)
HeaderFits(s, p, item) ==
    p.at < HeaderLength(s[p.frame]) /\ item = Header(s[p.frame])[p.at + 1]
PayloadFits(s, p, item) ==
    /\ p.at >= HeaderLength(s[p.frame]) /\ item.byte = 0 /\ item.of = p.frame
    /\ p.at + item.n <= FrameLength(s, p.frame)
FitsAt(s, p, item) ==
    p.frame \in 1..Len(s) /\ (HeaderFits(s, p, item) \/ PayloadFits(s, p, item))
Behind(s, p, item) == Place(s, p.frame, p.at + item.n)

(* The items are the bytes of the stream from one place to another.        *)
Trail(s, p, items) ==
    \A i \in 1..Len(items) : FitsAt(s, p[i], items[i]) /\ p[i + 1] = Behind(s, p[i], items[i])
Spans(s, from, items, to) ==
    \E p \in [1..(Len(items) + 1) -> StreamPlaces] :
      p[1] = from /\ p[Len(items) + 1] = to /\ Trail(s, p, items)

FramingTypes ==
    /\ sizes \in Seq(Lengths) /\ Len(sizes) <= MaxFrames
    /\ \A k \in 1..Len(sizes) : HeaderLength(sizes[k]) > 0
    /\ src \in Seq(Items) /\ out \in Seq(Items) /\ link \in {"open", "cut", "refused"}

(* The receiver has decoded the frames before `Len(got) + 1', and of that  *)
(* one the header if it waits for its payload.                             *)
ReceiverInv ==
    /\ got \in Seq(Nat) /\ \A k \in 1..Len(got) : got[k] = k
    /\ \/ expected = <<>>
       \/ Len(got) < Len(sizes) /\ expected = <<sizes[Len(got) + 1]>>
ReceiverAt(s, k, waits) ==
    IF waits THEN Place(s, k, HeaderLength(s[k])) ELSE [frame |-> k, at |-> 0]
ReceiverPlace == ReceiverAt(sizes, Len(got) + 1, expected # <<>>)

(* What is buffered on the way goes on from there, and while the link is   *)
(* open to the end of what was sent.                                       *)
StreamEnd(s) == [frame |-> Len(s) + 1, at |-> 0]
StreamInv ==
    \E to \in StreamPlaces :
      /\ Spans(sizes, ReceiverPlace, src \o out, to)
      /\ link = "open" => to = StreamEnd(sizes)

FramingInv == FramingTypes /\ ReceiverInv /\ StreamInv

(* The header of a frame says its length.                                  *)
LEMMA QuotientOfQuotient ==
    ASSUME NEW n \in Nat
    PROVE  /\ n \div 64 \in Nat /\ n \div 16384 = (n \div 64) \div 256
           /\ n \div 4194304 = (n \div 16384) \div 256
           /\ n = (n \div 64) * 64 + (n % 64) /\ n % 64 \in 0..63
    BY SMT

LEMMA HeaderLengths ==
    ASSUME NEW n \in Nat
    PROVE  /\ HeaderLength(n) \in 0..4
           /\ HeaderLength(n) = 1 => n <= 63
           /\ HeaderLength(n) = 2 => n <= 16383
           /\ HeaderLength(n) = 3 => n <= 4194303
           /\ HeaderLength(n) = 4 => n <= 1073741823
    BY SMT DEF HeaderLength

HeaderByte(n, j) ==
    CASE j = 1 -> (n % 64) * 4 + (HeaderLength(n) - 1)
      [] j = 2 -> (n \div 64) % 256
      [] j = 3 -> (n \div 16384) % 256
      [] OTHER -> (n \div 4194304) % 256

LEMMA HeaderBytes ==
    ASSUME NEW n \in Nat, HeaderLength(n) > 0
    PROVE  /\ Header(n) \in Seq(Items) /\ Len(Header(n)) = HeaderLength(n)
           /\ \A j \in 1..HeaderLength(n) :
                Header(n)[j] = Byte(HeaderByte(n, j)) /\ HeaderByte(n, j) \in 0..255
           /\ HeaderByte(n, 1) % 4 = HeaderLength(n) - 1
           /\ HeaderByte(n, 1) \div 4 = n % 64
  <1> DEFINE h == HeaderLength(n)
             all == <<Byte((n % 64) * 4 + (h - 1)), Byte((n \div 64) % 256),
                      Byte((n \div 16384) % 256), Byte((n \div 4194304) % 256)>>
  <1>1. h \in 1..4
      BY HeaderLengths
  <1>2. n % 64 \in 0..63 /\ (n \div 64) % 256 \in 0..255 /\ (n \div 16384) % 256 \in 0..255
        /\ (n \div 4194304) % 256 \in 0..255
      BY SMT
  <1>3. \A j \in 1..h : HeaderByte(n, j) \in 0..255
    <2> SUFFICES ASSUME NEW j \in 1..h PROVE HeaderByte(n, j) \in 0..255
        OBVIOUS
    <2> HIDE DEF h
    <2>1. (n % 64) * 4 + (h - 1) \in 0..255
        BY <1>1, <1>2
    <2> QED  BY <1>1, <1>2, <2>1, SMT DEF HeaderByte, h
  <1>4. Header(n) = SubSeq(all, 1, h)
      BY DEF Header
  <1>5. all \in Seq(Items)
    <2>1. \A j \in 1..4 : HeaderByte(n, j) \in 0..255
      <3> HIDE DEF h
      <3>1. (n % 64) * 4 + (h - 1) \in 0..255
          BY <1>1, <1>2
      <3> QED  BY <1>1, <1>2, <3>1, SMT DEF HeaderByte, h
    <2>2. \A v \in 0..255 : Byte(v) \in Items
        BY DEF Byte, Items
    <2>3. /\ Byte((n % 64) * 4 + (h - 1)) \in Items /\ Byte((n \div 64) % 256) \in Items
          /\ Byte((n \div 16384) % 256) \in Items /\ Byte((n \div 4194304) % 256) \in Items
      <3> HIDE DEF h
      <3>1. (n % 64) * 4 + (h - 1) \in 0..255
          BY <1>1, <1>2
      <3> QED  BY <1>2, <2>2, <3>1
    <2> QED  BY <2>3
  <1>6. Len(all) = 4 /\ all[1] = Byte(HeaderByte(n, 1)) /\ all[2] = Byte(HeaderByte(n, 2))
        /\ all[3] = Byte(HeaderByte(n, 3)) /\ all[4] = Byte(HeaderByte(n, 4))
      BY SMT DEF HeaderByte
  <1>7. \A j \in 1..4 : all[j] = Byte(HeaderByte(n, j))
      BY <1>6
  <1> HIDE DEF all
  <1>8. Header(n) \in Seq(Items) /\ Len(Header(n)) = h /\ \A j \in 1..h : Header(n)[j] = all[j]
    <2> HIDE DEF h
    <2> QED  BY <1>1, <1>4, <1>5, <1>6
  <1>9. HeaderByte(n, 1) % 4 = h - 1 /\ HeaderByte(n, 1) \div 4 = n % 64
    <2> HIDE DEF h
    <2>1. HeaderByte(n, 1) = (n % 64) * 4 + (h - 1)
        BY SMT DEF HeaderByte, h
    <2>2. ASSUME NEW a \in Nat, NEW b \in 0..3 PROVE (a * 4 + b) % 4 = b /\ (a * 4 + b) \div 4 = a
        OBVIOUS
    <2>3. n % 64 \in Nat /\ h - 1 \in 0..3
        BY <1>1
    <2>4. ((n % 64) * 4 + (h - 1)) % 4 = h - 1 /\ ((n % 64) * 4 + (h - 1)) \div 4 = n % 64
        BY <2>2, <2>3
    <2> QED  BY <2>1, <2>4
  <1> QED  BY <1>1, <1>3, <1>7, <1>8, <1>9

(* decode_head puts the bytes together.                                    *)
LEMMA HeaderSum ==
    ASSUME NEW n \in Nat, HeaderLength(n) > 0
    PROVE  n = (n % 64) + (IF 2 > HeaderLength(n) THEN 0 ELSE HeaderByte(n, 2) * 64)
                      + (IF 3 > HeaderLength(n) THEN 0 ELSE HeaderByte(n, 3) * 16384)
                      + (IF 4 > HeaderLength(n) THEN 0 ELSE HeaderByte(n, 4) * 4194304)
  <1> DEFINE h == HeaderLength(n)
             a == n \div 64
             b == n \div 16384
             c == n \div 4194304
  <1>1. /\ a \in Nat /\ b \in Nat /\ c \in Nat /\ b = a \div 256 /\ c = b \div 256
        /\ n = a * 64 + (n % 64) /\ n % 64 \in 0..63
      BY QuotientOfQuotient
  <1>2. a = b * 256 + (a % 256) /\ b = c * 256 + (b % 256)
        /\ a % 256 \in 0..255 /\ b % 256 \in 0..255
      BY <1>1, SMT
  <1>3. HeaderByte(n, 2) = a % 256 /\ HeaderByte(n, 3) = b % 256 /\ HeaderByte(n, 4) = c % 256
      BY SMT DEF HeaderByte
  <1>4. h \in 1..4
      BY HeaderLengths
  <1>5. CASE h = 1
    <2>1. n <= 63
        BY <1>5, HeaderLengths, SMT
    <2>2. n % 64 = n
        BY <2>1, SMT
    <2> QED  BY <1>5, <2>2, SMT
  <1>6. CASE h = 2
    <2>1. n <= 16383
        BY <1>6, HeaderLengths, SMT
    <2>2. a % 256 = a
        BY <2>1, SMT
    <2> HIDE DEF a, b, c
    <2> QED  BY <1>1, <1>3, <1>6, <2>2, SMT
  <1>7. CASE h = 3
    <2>1. n <= 4194303
        BY <1>7, HeaderLengths, SMT
    <2>2. b % 256 = b
        BY <2>1, SMT
    <2> HIDE DEF a, b, c
    <2>3. n = (n % 64) + (a % 256) * 64 + b * 16384
        BY <1>1, <1>2, SMT
    <2> QED  BY <1>3, <1>7, <2>2, <2>3, SMT
  <1>8. CASE h = 4
    <2>1. n <= 1073741823
        BY <1>8, HeaderLengths, SMT
    <2>2. c % 256 = c
        BY <2>1, SMT
    <2> HIDE DEF a, b, c
    <2> QED  BY <1>1, <1>2, <1>3, <1>8, <2>2, SMT
  <1> QED  BY <1>4, <1>5, <1>6, <1>7, <1>8, SMT

(* Spans are joined and split like the sequences they are of.              *)
LEMMA SpansEmpty ==
    ASSUME NEW s, NEW p \in StreamPlaces
    PROVE  Spans(s, p, <<>>, p)
  <1> DEFINE f == [i \in 1..(Len(<<>>) + 1) |-> p]
  <1>1. f \in [1..(Len(<<>>) + 1) -> StreamPlaces] /\ f[1] = p /\ f[Len(<<>>) + 1] = p
      OBVIOUS
  <1>2. Trail(s, f, <<>>)
      BY DEF Trail
  <1> HIDE DEF f
  <1> QED  BY <1>1, <1>2 DEF Spans

LEMMA SpansOne ==
    ASSUME NEW s, NEW from \in StreamPlaces, NEW item, FitsAt(s, from, item),
           Behind(s, from, item) \in StreamPlaces
    PROVE  Spans(s, from, <<item>>, Behind(s, from, item))
  <1> DEFINE to == Behind(s, from, item)
             f == [i \in 1..(Len(<<item>>) + 1) |-> IF i = 1 THEN from ELSE to]
  <1>1. f \in [1..(Len(<<item>>) + 1) -> StreamPlaces] /\ f[1] = from
        /\ f[Len(<<item>>) + 1] = to /\ f[2] = to
      OBVIOUS
  <1> HIDE DEF f
  <1>2. Trail(s, f, <<item>>)
      BY <1>1 DEF Trail
  <1> HIDE DEF to
  <1> QED  BY <1>1, <1>2 DEF Spans, to

LEMMA SpansOfOne ==
    ASSUME NEW s, NEW from, NEW item, NEW to, Spans(s, from, <<item>>, to)
    PROVE  from \in StreamPlaces /\ FitsAt(s, from, item) /\ to = Behind(s, from, item)
           /\ to \in StreamPlaces
  <1>1. PICK p \in [1..2 -> StreamPlaces] : p[1] = from /\ p[2] = to /\ Trail(s, p, <<item>>)
      BY DEF Spans
  <1>2. 1 \in 1..Len(<<item>>) /\ <<item>>[1] = item /\ 1 + 1 = 2
      OBVIOUS
  <1> QED  BY <1>1, <1>2 DEF Trail

LEMMA SpansJoin ==
    ASSUME NEW s, NEW x \in Seq(Items), NEW y \in Seq(Items), NEW from, NEW mid, NEW to,
           Spans(s, from, x, mid), Spans(s, mid, y, to)
    PROVE  Spans(s, from, x \o y, to)
  <1> DEFINE m == Len(x)
             n == Len(y)
             z == x \o y
  <1>1. /\ m \in Nat /\ n \in Nat /\ Len(z) = m + n /\ z \in Seq(Items)
        /\ \A i \in 1..(m + n) : z[i] = IF i <= m THEN x[i] ELSE y[i - m]
      OBVIOUS
  <1> HIDE DEF z
  <1>2. PICK p \in [1..(m + 1) -> StreamPlaces] :
           p[1] = from /\ p[m + 1] = mid /\ Trail(s, p, x)
      BY DEF Spans
  <1>3. PICK q \in [1..(n + 1) -> StreamPlaces] :
           q[1] = mid /\ q[n + 1] = to /\ Trail(s, q, y)
      BY DEF Spans
  <1> DEFINE r == [i \in 1..(m + n + 1) |-> IF i <= m + 1 THEN p[i] ELSE q[i - m]]
  <1>4. r \in [1..(m + n + 1) -> StreamPlaces]
    <2> SUFFICES ASSUME NEW i \in 1..(m + n + 1)
                 PROVE  (IF i <= m + 1 THEN p[i] ELSE q[i - m]) \in StreamPlaces
        OBVIOUS
    <2> HIDE DEF m, n
    <2>1. i <= m + 1 => i \in 1..(m + 1)
        BY <1>1
    <2>2. i > m + 1 => i - m \in 1..(n + 1)
        BY <1>1
    <2> QED  BY <1>1, <2>1, <2>2
  <1>5. /\ \A i \in 1..(m + 1) : r[i] = p[i]
        /\ \A i \in 1..(n + 1) : r[i + m] = q[i]
    <2> HIDE DEF m, n
    <2>1. ASSUME NEW i \in 1..(m + 1) PROVE r[i] = p[i]
        BY <1>1
    <2>2. ASSUME NEW i \in 1..(n + 1) PROVE r[i + m] = q[i]
      <3>1. i + m \in 1..(m + n + 1) /\ (i + m) - m = i
          BY <1>1
      <3>2. CASE i = 1
          BY <1>1, <1>2, <1>3, <3>1, <3>2
      <3>3. CASE i # 1
        <4>1. ~(i + m <= m + 1)
            BY <1>1, <3>3
        <4> QED  BY <3>1, <4>1
      <3> QED  BY <3>2, <3>3
    <2> QED  BY <2>1, <2>2
  <1> HIDE DEF r
  <1>6. r[1] = from /\ r[m + n + 1] = to
    <2> HIDE DEF m, n
    <2>1. 1 \in 1..(m + 1) /\ n + 1 \in 1..(n + 1) /\ (n + 1) + m = m + n + 1
        BY <1>1
    <2>2. r[(n + 1) + m] = q[n + 1]
        BY <1>5, <2>1
    <2> QED  BY <1>2, <1>3, <1>5, <2>1, <2>2
  <1>7. Trail(s, r, z)
    <2> SUFFICES ASSUME NEW i \in 1..(m + n)
                 PROVE  FitsAt(s, r[i], z[i]) /\ r[i + 1] = Behind(s, r[i], z[i])
        BY <1>1 DEF Trail
    <2>1. CASE i <= m
      <3>1. i \in 1..m /\ i \in 1..(m + 1) /\ i + 1 \in 1..(m + 1)
          BY <1>1, <2>1
      <3>2. z[i] = x[i] /\ r[i] = p[i] /\ r[i + 1] = p[i + 1]
          BY <1>1, <1>5, <2>1, <3>1
      <3> QED  BY <1>2, <3>1, <3>2 DEF Trail
    <2>2. CASE i > m
      <3> DEFINE j == i - m
      <3>1. j \in 1..n /\ j \in 1..(n + 1) /\ j + 1 \in 1..(n + 1) /\ j + m = i
            /\ (j + 1) + m = i + 1
          BY <1>1, <2>2
      <3>2. z[i] = y[j]
          BY <1>1, <2>2
      <3> HIDE DEF j
      <3>3. r[j + m] = q[j] /\ r[(j + 1) + m] = q[j + 1]
          BY <1>5, <3>1
      <3>4. FitsAt(s, q[j], y[j]) /\ q[j + 1] = Behind(s, q[j], y[j])
          BY <1>3, <3>1 DEF Trail
      <3>5. r[i] = q[j] /\ r[i + 1] = q[j + 1]
          BY <3>1, <3>3
      <3> QED  BY <3>2, <3>4, <3>5
    <2> QED  BY <1>1, <2>1, <2>2
  <1> HIDE DEF m, n
  <1>8. r \in [1..(Len(z) + 1) -> StreamPlaces] /\ r[Len(z) + 1] = to
      BY <1>1, <1>4, <1>6
  <1>9. Spans(s, from, z, to)
      BY <1>6, <1>7, <1>8 DEF Spans
  <1> QED  BY <1>9 DEF z

LEMMA SpansSplit ==
    ASSUME NEW s, NEW x \in Seq(Items), NEW y \in Seq(Items), NEW from, NEW to,
           Spans(s, from, x \o y, to)
    PROVE  \E mid \in StreamPlaces : Spans(s, from, x, mid) /\ Spans(s, mid, y, to)
  <1> DEFINE m == Len(x)
             n == Len(y)
             z == x \o y
  <1>1. /\ m \in Nat /\ n \in Nat /\ Len(z) = m + n
        /\ \A i \in 1..m : z[i] = x[i]
        /\ \A i \in 1..n : z[i + m] = y[i]
      OBVIOUS
  <1>2. PICK r \in [1..(Len(z) + 1) -> StreamPlaces] :
           r[1] = from /\ r[Len(z) + 1] = to /\ Trail(s, r, z)
      BY DEF Spans
  <1> HIDE DEF z, m, n
  <1> DEFINE p == [i \in 1..(m + 1) |-> r[i]]
             q == [i \in 1..(n + 1) |-> r[i + m]]
  <1>3. /\ \A i \in 1..(m + 1) : i \in 1..(Len(z) + 1)
        /\ \A i \in 1..(n + 1) : i + m \in 1..(Len(z) + 1)
      BY <1>1
  <1>4. p \in [1..(m + 1) -> StreamPlaces] /\ q \in [1..(n + 1) -> StreamPlaces]
      BY <1>2, <1>3
  <1>5. /\ \A i \in 1..(m + 1) : p[i] = r[i]
        /\ \A i \in 1..(n + 1) : q[i] = r[i + m]
      OBVIOUS
  <1> HIDE DEF p, q
  <1>6. p[1] = from /\ p[m + 1] = q[1] /\ q[n + 1] = to
    <2>1. 1 \in 1..(m + 1) /\ m + 1 \in 1..(m + 1) /\ 1 \in 1..(n + 1) /\ n + 1 \in 1..(n + 1)
          /\ 1 + m = m + 1 /\ (n + 1) + m = Len(z) + 1
        BY <1>1
    <2> QED  BY <1>2, <1>5, <2>1
  <1>7. Trail(s, p, x)
    <2> SUFFICES ASSUME NEW i \in 1..m
                 PROVE  FitsAt(s, p[i], x[i]) /\ p[i + 1] = Behind(s, p[i], x[i])
        BY DEF Trail, m
    <2>1. i \in 1..(m + 1) /\ i + 1 \in 1..(m + 1) /\ i \in 1..Len(z)
        BY <1>1
    <2> QED  BY <1>1, <1>2, <1>5, <2>1 DEF Trail
  <1>8. Trail(s, q, y)
    <2> SUFFICES ASSUME NEW i \in 1..n
                 PROVE  FitsAt(s, q[i], y[i]) /\ q[i + 1] = Behind(s, q[i], y[i])
        BY DEF Trail, n
    <2>1. i \in 1..(n + 1) /\ i + 1 \in 1..(n + 1) /\ i + m \in 1..Len(z)
          /\ (i + 1) + m = (i + m) + 1
        BY <1>1
    <2>2. q[i] = r[i + m] /\ q[i + 1] = r[(i + m) + 1] /\ z[i + m] = y[i]
        BY <1>1, <1>5, <2>1
    <2> QED  BY <1>2, <2>1, <2>2 DEF Trail
  <1>9. q[1] \in StreamPlaces
    <2>1. 1 \in 1..(n + 1)
        BY <1>1
    <2> QED  BY <1>4, <2>1
  <1>10. Spans(s, from, x, q[1]) /\ Spans(s, q[1], y, to)
      BY <1>4, <1>6, <1>7, <1>8 DEF Spans, m, n
  <1> QED  BY <1>9, <1>10

LEMMA SpansMore ==
    ASSUME NEW s \in Seq(Nat), NEW n \in Nat, NEW from, NEW items, NEW to,
           Spans(s, from, items, to)
    PROVE  Spans(Append(s, n), from, items, to)
  <1> DEFINE t == Append(s, n)
  <1>1. \A k \in 1..Len(s) : k \in 1..Len(t) /\ t[k] = s[k]
      OBVIOUS
  <1> HIDE DEF t
  <1>2. PICK p \in [1..(Len(items) + 1) -> StreamPlaces] :
           p[1] = from /\ p[Len(items) + 1] = to /\ Trail(s, p, items)
      BY DEF Spans
  <1>3. Trail(t, p, items)
    <2> SUFFICES ASSUME NEW i \in 1..Len(items)
                 PROVE  FitsAt(t, p[i], items[i]) /\ p[i + 1] = Behind(t, p[i], items[i])
        BY DEF Trail
    <2>1. FitsAt(s, p[i], items[i]) /\ p[i + 1] = Behind(s, p[i], items[i])
        BY <1>2 DEF Trail
    <2>2. p[i].frame \in 1..Len(s)
        BY <2>1 DEF FitsAt
    <2>3. p[i].frame \in 1..Len(t) /\ t[p[i].frame] = s[p[i].frame]
        BY <1>1, <2>2
    <2>4. FitsAt(t, p[i], items[i])
        BY <2>1, <2>3 DEF FitsAt, HeaderFits, PayloadFits, FrameLength
    <2>5. Behind(t, p[i], items[i]) = Behind(s, p[i], items[i])
        BY <2>3 DEF Behind, Place, FrameLength
    <2> QED  BY <2>1, <2>4, <2>5
  <1>4. Spans(t, from, items, to)
      BY <1>2, <1>3 DEF Spans
  <1> QED  BY <1>4 DEF t

(* The bytes of the first items of a buffer.                               *)
LEMMA FirstOfNumbers ==
    ASSUME NEW T \in SUBSET Nat, T # {}
    PROVE  \E k \in T : \A m \in T : k <= m
  <1> DEFINE R == OpToRel(<, Nat)
  <1>1. IsWellFoundedOn(R, Nat)
      BY NatLessThanWellFounded
  <1>2. R = {p \in Nat \X Nat : p[1] < p[2]}
      BY DEF OpToRel
  <1> HIDE DEF R
  <1>3. PICK k \in T : \A m \in T : ~ (<<m, k>> \in R)
      BY <1>1, WFMin
  <1>4. ASSUME NEW m \in T PROVE k <= m
    <2>1. ~ (<<m, k>> \in R) /\ m \in Nat /\ k \in Nat
        BY <1>3
    <2> QED  BY <1>2, <2>1
  <1> QED  BY <1>4

SumsUp(f, n, list) == f = [i \in 0..n |-> IF i = 0 THEN 0 ELSE f[i - 1] + list[i].n]

LEMMA SumsValues ==
    ASSUME NEW n \in Nat, NEW a, NEW f, SumsUp(f, n, a)
    PROVE  f[0] = 0 /\ \A i \in 1..n : f[i] = f[i - 1] + a[i].n
  <1> DEFINE F(i) == IF i = 0 THEN 0 ELSE f[i - 1] + a[i].n
  <1>1. f = [i \in 0..n |-> F(i)]
      BY DEF SumsUp
  <1>2. \A i \in 0..n : f[i] = F(i)
    <2> HIDE DEF F
    <2> QED  BY <1>1
  <1>3. 0 \in 0..n /\ \A i \in 1..n : i \in 0..n /\ i # 0
      OBVIOUS
  <1> QED  BY <1>2, <1>3

LEMMA SumsExist ==
    ASSUME NEW n \in Nat, NEW a
    PROVE  \E f : SumsUp(f, n, a)
  <1> DEFINE T == {m \in Nat : ~ \E f : SumsUp(f, m, a)}
  <1> SUFFICES ASSUME T # {} PROVE FALSE
      OBVIOUS
  <1>1. T \in SUBSET Nat
      OBVIOUS
  <1>2. PICK k \in T : \A m \in T : k <= m
      BY <1>1, FirstOfNumbers
  <1>3. k \in Nat /\ ~ \E f : SumsUp(f, k, a)
      OBVIOUS
  <1>4. CASE k = 0
    <2> DEFINE f == [i \in 0..0 |-> 0]
    <2>1. f = [i \in 0..0 |-> IF i = 0 THEN 0 ELSE f[i - 1] + a[i].n]
        OBVIOUS
    <2>2. SumsUp(f, 0, a)
        BY <2>1 DEF SumsUp
    <2> QED  BY <1>3, <1>4, <2>2
  <1>5. CASE k # 0
    <2>1. k - 1 \in Nat /\ ~(k <= k - 1)
        BY <1>3, <1>5
    <2>2. PICK g : SumsUp(g, k - 1, a)
        BY <1>2, <2>1
    <2>3. g[0] = 0 /\ \A i \in 1..(k - 1) : g[i] = g[i - 1] + a[i].n
        BY <2>1, <2>2, SumsValues
    <2> DEFINE f == [i \in 0..k |-> IF i = k THEN g[k - 1] + a[k].n ELSE g[i]]
               F(i) == IF i = 0 THEN 0 ELSE f[i - 1] + a[i].n
    <2>4. ASSUME NEW i \in 0..k PROVE f[i] = F(i)
      <3>1. CASE i = k
        <4>1. k - 1 \in 0..k /\ k - 1 # k /\ k \in 0..k
            BY <1>3, <1>5
        <4>2. f[k - 1] = g[k - 1] /\ f[k] = g[k - 1] + a[k].n
            BY <4>1
        <4> QED  BY <1>5, <3>1, <4>2
      <3>2. CASE i = 0 /\ i # k
          BY <2>3, <3>2
      <3>3. CASE i # 0 /\ i # k
        <4>1. i \in 1..(k - 1) /\ i - 1 \in 0..k /\ i - 1 # k
            BY <1>3, <3>3
        <4>2. f[i] = g[i] /\ f[i - 1] = g[i - 1]
            BY <3>3, <4>1
        <4> QED  BY <2>3, <3>3, <4>1, <4>2
      <3> QED  BY <3>1, <3>2, <3>3
    <2>5. f = [i \in 0..k |-> f[i]]
        OBVIOUS
    <2>6. f = [i \in 0..k |-> F(i)]
      <3> HIDE DEF f, F
      <3> QED  BY <2>4, <2>5
    <2>7. SumsUp(f, k, a)
      <3> HIDE DEF f
      <3> QED  BY <2>6 DEF SumsUp
    <2> QED  BY <1>3, <2>7
  <1> QED  BY <1>4, <1>5

LEMMA BytesAreSums ==
    ASSUME NEW s \in Seq(Items)
    PROVE  /\ BytesOfFirst(s)[0] = 0
           /\ \A i \in 1..Len(s) : /\ BytesOfFirst(s)[i] = BytesOfFirst(s)[i - 1] + s[i].n
                                   /\ s[i].n \in Nat \ {0}
           /\ \A i \in 0..Len(s) : BytesOfFirst(s)[i] \in Nat
  <1> DEFINE g == CHOOSE g : g = [i \in 0..Len(s) |-> IF i = 0 THEN 0 ELSE g[i - 1] + s[i].n]
  <1>1. PICK f : SumsUp(f, Len(s), s)
      BY SumsExist
  <1>2. f = [i \in 0..Len(s) |-> IF i = 0 THEN 0 ELSE f[i - 1] + s[i].n]
      BY <1>1 DEF SumsUp
  <1>3. g = [i \in 0..Len(s) |-> IF i = 0 THEN 0 ELSE g[i - 1] + s[i].n]
      BY <1>2
  <1>4. BytesOfFirst(s) = g
      BY DEF BytesOfFirst
  <1> HIDE DEF g
  <1>5. SumsUp(g, Len(s), s)
      BY <1>3 DEF SumsUp
  <1>6. Len(s) \in Nat /\ \A i \in 1..Len(s) : s[i].n \in Nat \ {0}
    <2>1. \A i \in 1..Len(s) : s[i] \in Items
        OBVIOUS
    <2> QED  BY <2>1 DEF Items
  <1>7. g[0] = 0 /\ \A i \in 1..Len(s) : g[i] = g[i - 1] + s[i].n
      BY <1>5, <1>6, SumsValues
  <1> DEFINE T == {i \in 0..Len(s) : g[i] \notin Nat}
  <1>8. T = {}
    <2> SUFFICES ASSUME T # {} PROVE FALSE
        OBVIOUS
    <2>1. T \in SUBSET Nat
        BY <1>6
    <2>2. PICK k \in T : \A m \in T : k <= m
        BY <2>1, FirstOfNumbers
    <2>3. k \in 1..Len(s)
        BY <1>6, <1>7
    <2>4. k - 1 \in 0..Len(s) /\ ~(k <= k - 1)
        BY <1>6, <2>3
    <2>5. g[k - 1] \in Nat
        BY <2>2, <2>4
    <2>6. g[k] = g[k - 1] + s[k].n /\ s[k].n \in Nat
        BY <1>6, <1>7, <2>3
    <2>7. g[k] \in Nat
        BY <2>5, <2>6
    <2> QED  BY <2>7
  <1> QED  BY <1>4, <1>6, <1>7, <1>8

LEMMA HeaderItemsHaveNoFrame ==
    ASSUME NEW n \in Nat, NEW j \in 1..HeaderLength(n), HeaderLength(n) > 0
    PROVE  Header(n)[j] \in Items /\ Header(n)[j].of = 0 /\ Header(n)[j].n = 1
  <1>1. Header(n)[j] = Byte(HeaderByte(n, j)) /\ HeaderByte(n, j) \in 0..255
      BY HeaderBytes
  <1> QED  BY <1>1 DEF Byte, Items

LEMMA JoinedItems ==
    ASSUME NEW x \in Seq(Items), NEW y \in Seq(Items)
    PROVE  /\ x \o y \in Seq(Items) /\ Len(x \o y) = Len(x) + Len(y)
           /\ \A i \in 1..Len(x) : (x \o y)[i] = x[i]
           /\ \A i \in 1..Len(y) : (x \o y)[Len(x) + i] = y[i]
    OBVIOUS

(* encode writes one frame, from its beginning to that of the next.        *)
LEMMA FrameSpans ==
    ASSUME NEW s \in Seq(Nat), NEW k \in 1..Len(s), HeaderLength(s[k]) > 0
    PROVE  /\ Spans(s, [frame |-> k, at |-> 0], Header(s[k]) \o Payload(k, s[k]),
                    [frame |-> k + 1, at |-> 0])
           /\ Header(s[k]) \o Payload(k, s[k]) \in Seq(Items)
  <1> DEFINE n == s[k]
             h == HeaderLength(n)
             head == Header(n)
             m == IF n = 0 THEN h ELSE h + 1
             items == head \o Payload(k, n)
             p == [i \in 1..(m + 1) |-> IF i = m + 1 THEN [frame |-> k + 1, at |-> 0]
                                        ELSE [frame |-> k, at |-> i - 1]]
  <1>1. n \in Nat /\ h \in 1..4 /\ k \in Nat
      BY HeaderLengths
  <1>2. head \in Seq(Items) /\ Len(head) = h
      BY <1>1, HeaderBytes
  <1>3. n # 0 => Payload(k, n) = <<[byte |-> 0, of |-> k, n |-> n]>>
                 /\ [byte |-> 0, of |-> k, n |-> n] \in Items
      BY <1>1 DEF Payload, Items
  <1>4. n = 0 => Payload(k, n) = <<>>
      BY DEF Payload
  <1>5. /\ items \in Seq(Items) /\ Len(items) = m /\ m \in Nat
        /\ \A i \in 1..h : items[i] = head[i]
        /\ n # 0 => items[h + 1] = [byte |-> 0, of |-> k, n |-> n]
    <2> DEFINE pay == Payload(k, n)
    <2>0. pay \in Seq(Items) /\ Len(pay) = (IF n = 0 THEN 0 ELSE 1)
          /\ (n # 0 => pay[1] = [byte |-> 0, of |-> k, n |-> n])
      <3> DEFINE item == [byte |-> 0, of |-> k, n |-> n]
      <3>1. CASE n = 0
        <4>1. pay = <<>>
            BY <1>4, <3>1
        <4> HIDE DEF item, pay, n
        <4>2. pay \in Seq(Items) /\ Len(pay) = 0
            BY <4>1
        <4> QED  BY <3>1, <4>2
      <3>2. CASE n # 0
        <4>1. pay = <<item>> /\ item \in Items
            BY <1>3, <3>2
        <4> HIDE DEF item, pay, n
        <4>2. pay \in Seq(Items) /\ Len(pay) = 1 /\ pay[1] = item
            BY <4>1
        <4> QED  BY <3>2, <4>2 DEF item
      <3> QED  BY <3>1, <3>2
    <2>1. items = head \o pay
        OBVIOUS
    <2> HIDE DEF pay, head, items, h, n
    <2>2. /\ items \in Seq(Items) /\ Len(items) = h + Len(pay)
          /\ \A i \in 1..h : items[i] = head[i]
          /\ Len(pay) = 1 => items[h + 1] = pay[1]
      <3>1. pay \in Seq(Items) /\ head \in Seq(Items) /\ Len(head) = h
          BY <1>2, <2>0
      <3>2. Len(pay) = 1 => 1 \in 1..Len(pay)
          OBVIOUS
      <3> QED  BY <1>1, <2>1, <3>1, <3>2, JoinedItems
    <2>3. Len(items) = m /\ m \in Nat
        BY <1>1, <2>0, <2>2
    <2> HIDE DEF m
    <2> QED  BY <2>0, <2>2, <2>3
  <1>6. FrameLength(s, k) = h + n
      BY DEF FrameLength
  <1> HIDE DEF items
  <1>7. p \in [1..(m + 1) -> StreamPlaces] /\ p[1] = [frame |-> k, at |-> 0]
        /\ p[m + 1] = [frame |-> k + 1, at |-> 0]
        /\ \A i \in 1..m : p[i] = [frame |-> k, at |-> i - 1]
    <2>0. m >= 1
        BY <1>1
    <2> HIDE DEF m
    <2> QED  BY <1>1, <1>5, <2>0 DEF StreamPlaces
  <1> HIDE DEF p
  <1>8. Trail(s, p, items)
    <2> SUFFICES ASSUME NEW i \in 1..m
                 PROVE  FitsAt(s, p[i], items[i]) /\ p[i + 1] = Behind(s, p[i], items[i])
        BY <1>5 DEF Trail
    <2>1. p[i] = [frame |-> k, at |-> i - 1]
        BY <1>7
    <2>2. CASE i <= h
      <3>1. i \in 1..h /\ (i - 1) + 1 = i /\ i - 1 < h
          BY <1>1, <2>2
      <3>2. items[i] = head[i] /\ items[i].n = 1
          BY <1>1, <1>5, <3>1, HeaderItemsHaveNoFrame
      <3>3. FitsAt(s, p[i], items[i])
          BY <2>1, <3>1, <3>2 DEF FitsAt, HeaderFits
      <3>4. Behind(s, p[i], items[i]) = Place(s, k, i)
          BY <2>1, <3>1, <3>2 DEF Behind
      <3>5. CASE n = 0 /\ i = h
          BY <1>6, <1>1, <1>7, <3>3, <3>4, <3>5 DEF Place
      <3>6. CASE ~(n = 0 /\ i = h)
        <4>1. i # h + n /\ i + 1 \in 1..m
            BY <1>1, <2>2, <3>6
        <4>2. p[i + 1] = [frame |-> k, at |-> i]
            BY <4>1, <1>7, <1>1, <3>1
        <4> QED  BY <1>6, <3>3, <3>4, <4>1, <4>2 DEF Place
      <3> QED  BY <3>5, <3>6
    <2>3. CASE i > h
      <3>1. n # 0 /\ i = h + 1 /\ m = h + 1 /\ i - 1 = h
          BY <1>1, <2>3
      <3>2. items[i] = [byte |-> 0, of |-> k, n |-> n]
          BY <1>5, <3>1
      <3>3. FitsAt(s, p[i], items[i])
          BY <1>1, <1>6, <2>1, <3>1, <3>2 DEF FitsAt, PayloadFits
      <3>4. Behind(s, p[i], items[i]) = [frame |-> k + 1, at |-> 0]
          BY <1>6, <2>1, <3>1, <3>2 DEF Behind, Place
      <3> QED  BY <1>7, <3>1, <3>3, <3>4
    <2> QED  BY <1>1, <2>2, <2>3
  <1>9. Spans(s, [frame |-> k, at |-> 0], items, [frame |-> k + 1, at |-> 0])
    <2> HIDE DEF m
    <2> QED  BY <1>5, <1>7, <1>8 DEF Spans
  <1> QED  BY <1>5, <1>9 DEF items

(* A payload may be cut anywhere.                                          *)
LEMMA CutSpans ==
    ASSUME NEW s \in Seq(Nat), \A k \in 1..Len(s) : HeaderLength(s[k]) > 0,
           NEW from, NEW to, NEW item \in Items, item.of # 0,
           NEW m \in Nat, 0 < m, m < item.n, Spans(s, from, <<item>>, to)
    PROVE  /\ [item EXCEPT !.n = m] \in Items /\ [item EXCEPT !.n = @ - m] \in Items
           /\ Spans(s, from, <<[item EXCEPT !.n = m]>> \o <<[item EXCEPT !.n = @ - m]>>, to)
  <1> DEFINE k == from.frame
             a == [item EXCEPT !.n = m]
             b == [item EXCEPT !.n = @ - m]
  <1>1. from \in StreamPlaces /\ FitsAt(s, from, item) /\ to = Behind(s, from, item)
        /\ to \in StreamPlaces
      BY SpansOfOne
  <1>2. item.n \in Nat \ {0} /\ item.byte \in 0..255 /\ item.of \in Nat
      BY DEF Items
  <1>3. /\ a \in Items /\ a.n = m /\ a.of = item.of /\ a.byte = item.byte
        /\ b \in Items /\ b.n = item.n - m /\ b.of = item.of /\ b.byte = item.byte
    <2>1. m \in Nat \ {0} /\ item.n - m \in Nat \ {0}
        BY <1>2
    <2> QED  BY <1>2, <2>1 DEF Items
  <1>4. k \in 1..Len(s) /\ s[k] \in Nat /\ HeaderLength(s[k]) \in 1..4 /\ from.at \in Nat
    <2>1. k \in 1..Len(s) /\ s[k] \in Nat
        BY <1>1 DEF FitsAt
    <2> QED  BY <1>1, <2>1, HeaderLengths DEF StreamPlaces
  <1>5. PayloadFits(s, from, item)
    <2>1. ASSUME HeaderFits(s, from, item) PROVE FALSE
      <3>1. from.at + 1 \in 1..HeaderLength(s[k])
          BY <1>4, <2>1 DEF HeaderFits
      <3>2. Header(s[k])[from.at + 1].of = 0
          BY <1>4, <3>1, HeaderItemsHaveNoFrame
      <3> QED  BY <2>1, <3>2 DEF HeaderFits
    <2> QED  BY <1>1, <2>1 DEF FitsAt
  <1>6. FrameLength(s, k) \in Nat
      BY <1>4 DEF FrameLength
  <1> HIDE DEF a, b
  <1> DEFINE mid == [frame |-> k, at |-> from.at + m]
  <1>7. FitsAt(s, from, a) /\ Behind(s, from, a) = mid
    <2>1. from.at + m <= FrameLength(s, k) /\ from.at + m # FrameLength(s, k)
        BY <1>2, <1>4, <1>5, <1>6 DEF PayloadFits
    <2>2. PayloadFits(s, from, a)
        BY <1>3, <1>5, <2>1 DEF PayloadFits
    <2> QED  BY <1>3, <1>4, <2>1, <2>2 DEF FitsAt, Behind, Place
  <1>8. mid \in StreamPlaces /\ mid.frame = k /\ mid.at = from.at + m
      BY <1>1, <1>4 DEF StreamPlaces
  <1> HIDE DEF mid
  <1>9. FitsAt(s, mid, b) /\ Behind(s, mid, b) = to
    <2>1. mid.at + b.n = from.at + item.n
        BY <1>2, <1>3, <1>4, <1>8
    <2>2. mid.at >= HeaderLength(s[k])
        BY <1>4, <1>5, <1>8 DEF PayloadFits
    <2>3. PayloadFits(s, mid, b)
        BY <1>3, <1>5, <1>8, <2>1, <2>2 DEF PayloadFits
    <2> QED  BY <1>1, <1>4, <1>8, <2>1, <2>3 DEF FitsAt, Behind
  <1>10. Spans(s, from, <<a>>, mid) /\ Spans(s, mid, <<b>>, to)
      BY <1>1, <1>7, <1>8, <1>9, SpansOne
  <1>11. <<a>> \in Seq(Items) /\ <<b>> \in Seq(Items)
      BY <1>3
  <1>12. Spans(s, from, <<a>> \o <<b>>, to)
      BY <1>10, <1>11, SpansJoin
  <1> QED  BY <1>3, <1>12 DEF a, b

LEMMA RestOfJoined ==
    ASSUME NEW x \in Seq(Items), NEW y \in Seq(Items), NEW j \in 0..Len(x)
    PROVE  /\ SubSeq(x \o y, j + 1, Len(x \o y)) = SubSeq(x, j + 1, Len(x)) \o y
           /\ SubSeq(x, j + 1, Len(x)) \in Seq(Items)
  <1> DEFINE a == SubSeq(x \o y, j + 1, Len(x \o y))
             u == SubSeq(x, j + 1, Len(x))
             b == u \o y
  <1>1. u \in Seq(Items) /\ Len(u) = Len(x) - j /\ \A i \in 1..Len(u) : u[i] = x[j + i]
      OBVIOUS
  <1>2. /\ x \o y \in Seq(Items) /\ Len(x \o y) = Len(x) + Len(y)
        /\ \A i \in 1..Len(x) : (x \o y)[i] = x[i]
        /\ \A i \in 1..Len(y) : (x \o y)[Len(x) + i] = y[i]
      BY JoinedItems
  <1>3. a \in Seq(Items) /\ Len(a) = Len(x) + Len(y) - j
        /\ \A i \in 1..Len(a) : a[i] = (x \o y)[j + i]
    <2> DEFINE z == x \o y
    <2>1. z \in Seq(Items) /\ j \in 0..Len(z) /\ Len(x) \in Nat /\ Len(y) \in Nat
        BY <1>2
    <2> HIDE DEF z
    <2>2. /\ SubSeq(z, j + 1, Len(z)) \in Seq(Items)
          /\ Len(SubSeq(z, j + 1, Len(z))) = Len(z) - j
          /\ \A i \in 1..Len(SubSeq(z, j + 1, Len(z))) : SubSeq(z, j + 1, Len(z))[i] = z[j + i]
        BY <2>1
    <2> QED  BY <2>2, <1>2 DEF z
  <1> HIDE DEF u
  <1>4. /\ b \in Seq(Items) /\ Len(b) = Len(u) + Len(y)
        /\ \A i \in 1..Len(u) : b[i] = u[i]
        /\ \A i \in 1..Len(y) : b[Len(u) + i] = y[i]
      BY <1>1, JoinedItems
  <1> HIDE DEF a, b
  <1>5. Len(a) = Len(b)
      BY <1>1, <1>3, <1>4
  <1>6. ASSUME NEW i \in 1..Len(a) PROVE a[i] = b[i]
    <2>1. CASE i <= Len(u)
      <3>1. i \in 1..Len(u) /\ j + i \in 1..Len(x)
          BY <1>1, <2>1
      <3> QED  BY <1>1, <1>2, <1>3, <1>4, <3>1
    <2>2. CASE i > Len(u)
      <3> DEFINE m == i - Len(u)
      <3>1. m \in 1..Len(y) /\ j + i = Len(x) + m /\ i = Len(u) + m
          BY <1>1, <1>3, <2>2
      <3> HIDE DEF m
      <3>2. a[i] = (x \o y)[Len(x) + m]
          BY <1>3, <3>1
      <3>3. b[i] = y[m]
          BY <1>4, <3>1
      <3> QED  BY <1>2, <3>1, <3>2, <3>3
    <2> QED  BY <1>1, <2>1, <2>2
  <1>7. a = b
      BY <1>3, <1>4, <1>5, <1>6, SeqEqual
  <1> QED  BY <1>1, <1>7 DEF a, b, u

(* What is behind the first j items of a trail.                            *)
LEMMA TrailGoesOn ==
    ASSUME NEW s, NEW items \in Seq(Items), NEW p \in [1..(Len(items) + 1) -> StreamPlaces],
           Trail(s, p, items), NEW j \in 0..Len(items)
    PROVE  Spans(s, p[j + 1], SubSeq(items, j + 1, Len(items)), p[Len(items) + 1])
  <1> DEFINE y == SubSeq(items, j + 1, Len(items))
             n == Len(y)
             q == [i \in 1..(n + 1) |-> p[i + j]]
  <1>1. Len(items) \in Nat /\ n = Len(items) - j /\ n \in Nat
        /\ \A i \in 1..n : y[i] = items[i + j]
      OBVIOUS
  <1> HIDE DEF y, n
  <1>2. \A i \in 1..(n + 1) : i + j \in 1..(Len(items) + 1)
      BY <1>1
  <1>3. q \in [1..(n + 1) -> StreamPlaces] /\ \A i \in 1..(n + 1) : q[i] = p[i + j]
      BY <1>2
  <1> HIDE DEF q
  <1>4. q[1] = p[j + 1] /\ q[n + 1] = p[Len(items) + 1]
    <2>1. 1 \in 1..(n + 1) /\ n + 1 \in 1..(n + 1) /\ 1 + j = j + 1
          /\ (n + 1) + j = Len(items) + 1
        BY <1>1
    <2> QED  BY <1>3, <2>1
  <1>5. Trail(s, q, y)
    <2> SUFFICES ASSUME NEW i \in 1..n
                 PROVE  FitsAt(s, q[i], y[i]) /\ q[i + 1] = Behind(s, q[i], y[i])
        BY DEF Trail, n
    <2>1. i \in 1..(n + 1) /\ i + 1 \in 1..(n + 1) /\ i + j \in 1..Len(items)
          /\ (i + 1) + j = (i + j) + 1
        BY <1>1
    <2>2. q[i] = p[i + j] /\ q[i + 1] = p[(i + j) + 1] /\ y[i] = items[i + j]
        BY <1>1, <1>3, <2>1
    <2> QED  BY <2>1, <2>2 DEF Trail
  <1>6. Spans(s, p[j + 1], y, p[Len(items) + 1])
      BY <1>3, <1>4, <1>5 DEF Spans, n
  <1> QED  BY <1>6 DEF y

(* At the beginning of a frame the items are those of its header ...       *)
LEMMA HeaderIsNext ==
    ASSUME NEW s \in Seq(Nat), NEW k \in 1..Len(s), HeaderLength(s[k]) > 0,
           NEW j \in 1..HeaderLength(s[k]), NEW item,
           FitsAt(s, [frame |-> k, at |-> j - 1], item)
    PROVE  /\ item = Header(s[k])[j]
           /\ Behind(s, [frame |-> k, at |-> j - 1], item) = Place(s, k, j)
           /\ j < HeaderLength(s[k]) => Place(s, k, j) = [frame |-> k, at |-> j]
  <1>1. s[k] \in Nat /\ HeaderLength(s[k]) \in 1..4
      BY HeaderLengths
  <1>2. item = Header(s[k])[j]
    <2>1. (j - 1) + 1 = j /\ ~(j - 1 >= HeaderLength(s[k]))
        BY <1>1
    <2> QED  BY <2>1 DEF FitsAt, HeaderFits, PayloadFits
  <1>3. item.n = 1
      BY <1>1, <1>2, HeaderItemsHaveNoFrame
  <1>4. Behind(s, [frame |-> k, at |-> j - 1], item) = Place(s, k, j)
    <2>1. (j - 1) + 1 = j
        BY <1>1
    <2> QED  BY <1>3, <2>1 DEF Behind
  <1>5. ASSUME j < HeaderLength(s[k]) PROVE Place(s, k, j) = [frame |-> k, at |-> j]
    <2>1. j # FrameLength(s, k)
        BY <1>1, <1>5 DEF FrameLength
    <2> QED  BY <2>1 DEF Place
  <1> QED  BY <1>2, <1>4, <1>5

LEMMA FirstIsHeader ==
    ASSUME NEW s \in Seq(Nat), \A k \in 1..Len(s) : HeaderLength(s[k]) > 0, NEW k \in Nat,
           NEW items \in Seq(Items), items # <<>>, NEW to,
           Spans(s, [frame |-> k, at |-> 0], items, to)
    PROVE  k \in 1..Len(s) /\ items[1] = Header(s[k])[1]
  <1>1. PICK p \in [1..(Len(items) + 1) -> StreamPlaces] :
           p[1] = [frame |-> k, at |-> 0] /\ Trail(s, p, items)
      BY DEF Spans
  <1>2. 1 \in 1..Len(items)
      OBVIOUS
  <1>3. FitsAt(s, p[1], items[1])
      BY <1>1, <1>2 DEF Trail
  <1>4. k \in 1..Len(s)
      BY <1>1, <1>3 DEF FitsAt
  <1>5. 1 \in 1..HeaderLength(s[k]) /\ 1 - 1 = 0
    <2>1. HeaderLength(s[k]) \in 1..4
        BY <1>4, HeaderLengths
    <2> QED  BY <2>1
  <1>6. FitsAt(s, [frame |-> k, at |-> 1 - 1], items[1])
      BY <1>1, <1>3, <1>5
  <1> QED  BY <1>4, <1>5, <1>6, HeaderIsNext

LEMMA WholeHeader ==
    ASSUME NEW s \in Seq(Nat), NEW k \in 1..Len(s), HeaderLength(s[k]) > 0,
           NEW items \in Seq(Items), Len(items) >= HeaderLength(s[k]), NEW to,
           Spans(s, [frame |-> k, at |-> 0], items, to)
    PROVE  /\ \A j \in 1..HeaderLength(s[k]) : items[j] = Header(s[k])[j]
           /\ Spans(s, Place(s, k, HeaderLength(s[k])),
                    SubSeq(items, HeaderLength(s[k]) + 1, Len(items)), to)
  <1> DEFINE h == HeaderLength(s[k])
  <1>1. PICK p \in [1..(Len(items) + 1) -> StreamPlaces] :
           /\ p[1] = [frame |-> k, at |-> 0] /\ p[Len(items) + 1] = to
           /\ Trail(s, p, items)
      BY DEF Spans
  <1>2. h \in 1..4 /\ Len(items) \in Nat /\ h <= Len(items)
      BY HeaderLengths
  <1>3. ASSUME NEW j \in 1..h, p[j] = [frame |-> k, at |-> j - 1]
        PROVE  /\ items[j] = Header(s[k])[j] /\ p[j + 1] = Place(s, k, j)
               /\ j < h => p[j + 1] = [frame |-> k, at |-> (j + 1) - 1]
    <2>1. j \in 1..Len(items)
        BY <1>2
    <2>2. FitsAt(s, p[j], items[j]) /\ p[j + 1] = Behind(s, p[j], items[j])
        BY <1>1, <2>1 DEF Trail
    <2>3. (j + 1) - 1 = j
        BY <2>1
    <2> QED  BY <1>3, <2>2, <2>3, HeaderIsNext
  <1> HIDE DEF h
  <1>4. 1 \in 1..h /\ p[1] = [frame |-> k, at |-> 1 - 1]
      BY <1>1, <1>2
  <1>5. h > 1 => 2 \in 1..h /\ p[2] = [frame |-> k, at |-> 2 - 1]
    <2> SUFFICES ASSUME h > 1 PROVE 2 \in 1..h /\ p[2] = [frame |-> k, at |-> 2 - 1]
        OBVIOUS
    <2>1. p[1 + 1] = [frame |-> k, at |-> (1 + 1) - 1]
        BY <1>3, <1>4
    <2>2. 1 + 1 = 2 /\ 2 \in 1..h
        BY <1>2
    <2> QED  BY <2>1, <2>2
  <1>6. h > 2 => 3 \in 1..h /\ p[3] = [frame |-> k, at |-> 3 - 1]
    <2> SUFFICES ASSUME h > 2 PROVE 3 \in 1..h /\ p[3] = [frame |-> k, at |-> 3 - 1]
        OBVIOUS
    <2>0. 2 \in 1..h /\ 2 < h /\ h > 1
        BY <1>2
    <2>1. p[2 + 1] = [frame |-> k, at |-> (2 + 1) - 1]
        BY <1>3, <1>5, <2>0
    <2>2. 2 + 1 = 3 /\ 3 \in 1..h
        BY <1>2
    <2> QED  BY <2>1, <2>2
  <1>7. h > 3 => 4 \in 1..h /\ p[4] = [frame |-> k, at |-> 4 - 1]
    <2> SUFFICES ASSUME h > 3 PROVE 4 \in 1..h /\ p[4] = [frame |-> k, at |-> 4 - 1]
        OBVIOUS
    <2>0. 3 \in 1..h /\ 3 < h /\ h > 2
        BY <1>2
    <2>1. p[3 + 1] = [frame |-> k, at |-> (3 + 1) - 1]
        BY <1>3, <1>6, <2>0
    <2>2. 3 + 1 = 4 /\ 4 \in 1..h
        BY <1>2
    <2> QED  BY <2>1, <2>2
  <1>8. \A j \in 1..h : p[j] = [frame |-> k, at |-> j - 1]
    <2> SUFFICES ASSUME NEW j \in 1..h PROVE p[j] = [frame |-> k, at |-> j - 1]
        OBVIOUS
    <2>1. j = 1 \/ (j = 2 /\ h > 1) \/ (j = 3 /\ h > 2) \/ (j = 4 /\ h > 3)
        BY <1>2
    <2> QED  BY <1>4, <1>5, <1>6, <1>7, <2>1
  <1>9. \A j \in 1..h : items[j] = Header(s[k])[j]
      BY <1>3, <1>8
  <1>10. p[h + 1] = Place(s, k, h)
    <2>1. h \in 1..h
        BY <1>2
    <2> QED  BY <1>3, <1>8, <2>1
  <1>11. h \in 0..Len(items)
      BY <1>2
  <1>12. Spans(s, p[h + 1], SubSeq(items, h + 1, Len(items)), p[Len(items) + 1])
      BY <1>1, <1>11, TrailGoesOn
  <1> QED  BY <1>1, <1>9, <1>10, <1>12 DEF h

(* ... and behind the header they are payload.                             *)
LEMMA PayloadIsNext ==
    ASSUME NEW s \in Seq(Nat), NEW k \in 1..Len(s), HeaderLength(s[k]) > 0, NEW c \in Nat,
           c < s[k], NEW item \in Items, FitsAt(s, Place(s, k, HeaderLength(s[k]) + c), item)
    PROVE  /\ item.of = k /\ c + item.n <= s[k]
           /\ Behind(s, Place(s, k, HeaderLength(s[k]) + c), item)
              = Place(s, k, HeaderLength(s[k]) + (c + item.n))
  <1> DEFINE h == HeaderLength(s[k])
             p == [frame |-> k, at |-> h + c]
  <1>1. s[k] \in Nat /\ h \in 1..4 /\ item.n \in Nat
      BY HeaderLengths DEF Items
  <1>2. Place(s, k, h + c) = p
    <2>1. h + c # h + s[k]
        BY <1>1
    <2> QED  BY <2>1 DEF Place, FrameLength
  <1>3. p.frame = k /\ p.at = h + c /\ ~(p.at < h)
      BY <1>1
  <1>4. FitsAt(s, p, item)
      BY <1>2
  <1> HIDE DEF p
  <1>5. PayloadFits(s, p, item)
      BY <1>3, <1>4 DEF FitsAt, HeaderFits
  <1>6. item.of = k /\ (h + c) + item.n <= h + s[k]
      BY <1>3, <1>5 DEF PayloadFits, FrameLength
  <1>7. c + item.n <= s[k]
      BY <1>1, <1>6
  <1>8. Behind(s, p, item) = Place(s, k, h + (c + item.n))
    <2>1. (h + c) + item.n = h + (c + item.n)
        BY <1>1
    <2> QED  BY <1>3, <2>1 DEF Behind
  <1> QED  BY <1>2, <1>6, <1>7, <1>8

LEMMA LessThanSum ==
    ASSUME NEW a \in Nat, NEW d \in Nat, NEW b, b = a + d, NEW c \in Nat, b <= c
    PROVE  a <= c /\ (d # 0 => a < c)
    OBVIOUS

(* Partial sums of lengths only grow: the last of them is the greatest. The *)
(* argument is the one step nearest to the end at which this would fail.    *)
LEMMA LastIsGreatest ==
    ASSUME NEW i \in Nat, NEW B, \A j \in 0..i : B[j] \in Nat,
           \A j \in 1..i : B[j - 1] <= B[j]
    PROVE  \A j \in 0..i : B[j] <= B[i]
  <1> DEFINE T == {d \in 0..i : ~(B[i - d] <= B[i])}
  <1>1. SUFFICES ASSUME T # {} PROVE FALSE
    <2> SUFFICES ASSUME NEW j \in 0..i, T = {} PROVE B[j] <= B[i]
        OBVIOUS
    <2>1. i - j \in 0..i /\ i - (i - j) = j
        OBVIOUS
    <2> QED  BY <2>1
  <1>2. T \in SUBSET Nat
      OBVIOUS
  <1>3. PICK d \in T : \A m \in T : d <= m
    <2> HIDE DEF T
    <2> QED  BY <1>1, <1>2, FirstOfNumbers
  <1>4. d \in 0..i /\ ~(B[i - d] <= B[i])
      OBVIOUS
  <1>5. d # 0
    <2>1. i - 0 = i /\ i \in 0..i
        OBVIOUS
    <2> QED  BY <1>4, <2>1
  <1>6. d - 1 \in 0..i /\ ~(d <= d - 1) /\ i - d \in 0..i /\ i - (d - 1) \in 1..i
        /\ i - (d - 1) \in 0..i /\ (i - (d - 1)) - 1 = i - d /\ i \in 0..i
      BY <1>4, <1>5
  <1>7. B[i - (d - 1)] <= B[i]
      BY <1>3, <1>6
  <1>8. B[i - d] <= B[i - (d - 1)]
      BY <1>6
  <1>9. B[i - d] \in Nat /\ B[i - (d - 1)] \in Nat /\ B[i] \in Nat
      BY <1>6
  <1>10. B[i - d] <= B[i]
      BY <1>7, <1>8, <1>9
  <1> QED  BY <1>4, <1>10

(* The items that decode_data takes are the payload and nothing else.      *)
LEMMA PayloadIsWhole ==
    ASSUME NEW s \in Seq(Nat), NEW k \in 1..Len(s), HeaderLength(s[k]) > 0,
           NEW x \in Seq(Items), NEW y \in Seq(Items), NEW to,
           Spans(s, Place(s, k, HeaderLength(s[k])), x \o y, to),
           BytesOfFirst(x)[Len(x)] >= s[k],
           NEW i \in 0..Len(x), BytesOfFirst(x)[i] <= s[k],
           i < Len(x) => BytesOfFirst(x)[i + 1] > s[k]
    PROVE  /\ BytesOfFirst(x)[i] = s[k] /\ \A j \in 1..i : x[j].of = k
           /\ Spans(s, [frame |-> k + 1, at |-> 0], SubSeq(x, i + 1, Len(x)) \o y, to)
  <1> DEFINE h == HeaderLength(s[k])
             n == s[k]
             B == BytesOfFirst(x)
             z == x \o y
  <1>1. n \in Nat /\ h \in 1..4 /\ Len(x) \in Nat /\ Len(y) \in Nat
      BY HeaderLengths
  <1>2. /\ B[0] = 0 /\ \A j \in 0..Len(x) : B[j] \in Nat
        /\ \A j \in 1..Len(x) : B[j] = B[j - 1] + x[j].n /\ x[j].n \in Nat \ {0}
      BY BytesAreSums
  <1>3. z \in Seq(Items) /\ Len(z) = Len(x) + Len(y) /\ \A j \in 1..Len(x) : z[j] = x[j]
      BY JoinedItems
  <1>4. \A j \in 1..Len(x) : x[j] \in Items
      OBVIOUS
  <1>5. PICK p \in [1..(Len(z) + 1) -> StreamPlaces] :
           p[1] = Place(s, k, h) /\ p[Len(z) + 1] = to /\ Trail(s, p, z)
      BY DEF Spans
  <1>g. B[Len(x)] >= n /\ B[i] <= n /\ (i < Len(x) => B[i + 1] > n)
      OBVIOUS
  <1>l. Len(x) \in Nat /\ Len(y) \in Nat /\ Len(z) = Len(x) + Len(y)
      BY <1>1, <1>3
  <1> HIDE DEF h, n, B, z
  <1>6. ASSUME NEW j \in 0..Len(x), j < Len(x), B[j] < n, p[j + 1] = Place(s, k, h + B[j])
        PROVE  /\ x[j + 1].of = k /\ B[j + 1] <= n
               /\ p[(j + 1) + 1] = Place(s, k, h + B[j + 1])
    <2>0. j < Len(x)
        BY <1>6
    <2>1. j + 1 \in 1..Len(x) /\ j + 1 \in 1..Len(z) /\ (j + 1) - 1 = j
        BY <1>l, <2>0
    <2>2. /\ FitsAt(s, p[j + 1], x[j + 1]) /\ p[(j + 1) + 1] = Behind(s, p[j + 1], x[j + 1])
          /\ x[j + 1] \in Items /\ B[j + 1] = B[j] + x[j + 1].n /\ B[j] \in Nat
        BY <1>2, <1>3, <1>4, <1>5, <2>1 DEF Trail
    <2> DEFINE c == B[j]
               item == x[j + 1]
    <2>3. c \in Nat /\ c < s[k] /\ item \in Items
          /\ FitsAt(s, Place(s, k, HeaderLength(s[k]) + c), item)
        BY <1>6, <2>2 DEF h, n
    <2> HIDE DEF c, item
    <2>4. /\ item.of = k /\ c + item.n <= s[k]
          /\ Behind(s, Place(s, k, HeaderLength(s[k]) + c), item)
             = Place(s, k, HeaderLength(s[k]) + (c + item.n))
        BY <2>3, PayloadIsNext
    <2> QED  BY <1>6, <2>2, <2>4 DEF h, n, c, item
  <1>7. \A j \in 0..Len(x) : B[j] <= n => p[j + 1] = Place(s, k, h + B[j])
    <2> DEFINE T == {j \in 0..Len(x) : B[j] <= n /\ p[j + 1] # Place(s, k, h + B[j])}
    <2> SUFFICES ASSUME T # {} PROVE FALSE
        OBVIOUS
    <2>1. T \in SUBSET Nat
        BY <1>1
    <2>2. PICK j \in T : \A m \in T : j <= m
        BY <2>1, FirstOfNumbers
    <2>3. j # 0
      <3>1. h + 0 = h /\ 0 + 1 = 1
          BY <1>1
      <3> QED  BY <1>2, <1>5, <3>1, <2>2
    <2>4. j \in 1..Len(x) /\ j - 1 \in 0..Len(x) /\ j - 1 < Len(x) /\ (j - 1) + 1 = j
          /\ ~(j <= j - 1)
        BY <1>1, <2>3
    <2>5. B[j - 1] < n
      <3>1. B[j] = B[j - 1] + x[j].n /\ x[j].n \in Nat \ {0} /\ B[j - 1] \in Nat
          BY <1>2, <2>4
      <3>2. B[j] <= n /\ n \in Nat
          BY <1>1, <2>2
      <3> HIDE DEF T
      <3> QED  BY <3>1, <3>2, LessThanSum
    <2>6. p[(j - 1) + 1] = Place(s, k, h + B[j - 1])
      <3>1. B[j - 1] <= n
        <4>1. B[j - 1] \in Nat /\ n \in Nat
            BY <1>1, <1>2, <2>4
        <4> HIDE DEF T
        <4> QED  BY <2>5, <4>1
      <3> QED  BY <2>2, <2>4, <3>1
    <2>7. p[((j - 1) + 1) + 1] = Place(s, k, h + B[(j - 1) + 1])
        BY <1>6, <2>4, <2>5, <2>6
    <2> QED  BY <2>2, <2>4, <2>7
  <1>8. B[i] = n
    <2>1. ASSUME B[i] < n PROVE FALSE
      <3>1. i < Len(x)
          BY <1>1, <1>2, <1>g, <2>1
      <3>2. B[i] <= n
          BY <1>g
      <3>3. B[i + 1] <= n
          BY <1>6, <1>7, <2>1, <3>1, <3>2
      <3>4. B[i + 1] > n /\ i + 1 \in 0..Len(x)
          BY <1>1, <1>g, <3>1
      <3> QED  BY <1>1, <1>2, <3>3, <3>4
    <2> QED  BY <1>1, <1>2, <1>g, <2>1
  <1>9. \A j \in 0..i : B[j] <= B[i]
    <2>1. \A j \in 0..i : B[j] \in Nat
        BY <1>1, <1>2
    <2>2. ASSUME NEW j \in 1..i PROVE B[j - 1] <= B[j]
      <3>1. j \in 1..Len(x) /\ j - 1 \in 0..i /\ j \in 0..i
          BY <1>1
      <3>2. B[j] = B[j - 1] + x[j].n /\ x[j].n \in Nat
          BY <1>2, <3>1
      <3>3. B[j - 1] \in Nat /\ B[j] \in Nat
          BY <2>1, <3>1
      <3> HIDE DEF B
      <3> QED  BY <3>2, <3>3, LessThanSum
    <2>3. i \in Nat
        BY <1>1
    <2> HIDE DEF B
    <2> QED  BY <2>1, <2>2, <2>3, LastIsGreatest
  <1>10. \A j \in 1..i : x[j].of = k
    <2> SUFFICES ASSUME NEW j \in 1..i PROVE x[j].of = k
        OBVIOUS
    <2>1. j \in 1..Len(x) /\ j - 1 \in 0..Len(x) /\ j - 1 < Len(x) /\ (j - 1) + 1 = j
          /\ j \in 0..i /\ j \in 0..Len(x)
        BY <1>1
    <2>2. B[j - 1] < n
      <3>1. B[j] = B[j - 1] + x[j].n /\ x[j].n \in Nat \ {0} /\ B[j - 1] \in Nat
          BY <1>2, <2>1
      <3>2. B[j] <= n
          BY <1>8, <1>9, <2>1
      <3>3. n \in Nat
          BY <1>1
      <3> QED  BY <3>1, <3>2, <3>3
    <2>3. p[(j - 1) + 1] = Place(s, k, h + B[j - 1])
      <3>1. B[j - 1] <= n
        <4>1. B[j - 1] \in Nat /\ n \in Nat
            BY <1>1, <1>2, <2>1
        <4> QED  BY <2>2, <4>1
      <3> QED  BY <1>7, <2>1, <3>1
    <2>4. x[(j - 1) + 1].of = k
        BY <1>6, <2>1, <2>2, <2>3
    <2> QED  BY <2>1, <2>4
  <1>11. p[i + 1] = [frame |-> k + 1, at |-> 0]
    <2>1. B[i] <= n
        BY <1>g
    <2>2. p[i + 1] = Place(s, k, h + B[i])
        BY <1>7, <2>1
    <2> QED  BY <1>8, <2>2 DEF Place, FrameLength, h, n
  <1>12. i \in 0..Len(z)
      BY <1>l
  <1>13. Spans(s, p[i + 1], SubSeq(z, i + 1, Len(z)), p[Len(z) + 1])
      BY <1>3, <1>5, <1>12, TrailGoesOn
  <1>14. SubSeq(z, i + 1, Len(z)) = SubSeq(x, i + 1, Len(x)) \o y
      BY RestOfJoined DEF z
  <1> QED  BY <1>5, <1>8, <1>10, <1>11, <1>13, <1>14 DEF B, n

LEMMA WholeExists ==
    ASSUME src \in Seq(Items), NEW n \in Nat
    PROVE  /\ Whole(n) \in 0..Len(src) /\ BytesOfFirst(src)[Whole(n)] <= n
           /\ Whole(n) < Len(src) => BytesOfFirst(src)[Whole(n) + 1] > n
  <1> DEFINE B == BytesOfFirst(src)
             W(i) == B[i] <= n /\ (i < Len(src) => B[i + 1] > n)
             T == {i \in 0..Len(src) : i = Len(src) \/ B[i + 1] > n}
  <1>1. /\ B[0] = 0 /\ \A j \in 0..Len(src) : B[j] \in Nat
      BY BytesAreSums
  <1>2. Len(src) \in Nat
      OBVIOUS
  <1> HIDE DEF B
  <1>3. T \in SUBSET Nat /\ T # {}
    <2>1. Len(src) \in T
        BY <1>2
    <2> QED  BY <1>2, <2>1
  <1>4. PICK i \in T : \A m \in T : i <= m
      BY <1>3, FirstOfNumbers
  <1>5. B[i] <= n
    <2>1. CASE i = 0
        BY <1>1, <2>1
    <2>2. CASE i # 0
      <3>1. i - 1 \in 0..Len(src) /\ ~(i <= i - 1) /\ (i - 1) + 1 = i /\ i \in 0..Len(src)
          BY <1>2, <2>2
      <3>2. i - 1 \notin T
          BY <1>4, <3>1
      <3>3. ~(B[i] > n)
          BY <3>1, <3>2
      <3> QED  BY <1>1, <3>1, <3>3
    <2> QED  BY <2>1, <2>2
  <1>6. i \in 0..Len(src) /\ W(i)
      BY <1>2, <1>4, <1>5
  <1>7. Whole(n) = CHOOSE j \in 0..Len(src) : W(j)
      BY DEF Whole, B
  <1> HIDE DEF W
  <1>8. Whole(n) \in 0..Len(src) /\ W(Whole(n))
      BY <1>6, <1>7
  <1> QED  BY <1>8 DEF W, B

LEMMA FramingInitInv == FramingInit => FramingInv
  <1> SUFFICES ASSUME FramingInit PROVE FramingInv
      OBVIOUS
  <1>1. FramingTypes /\ ReceiverInv
      BY FramingConstants DEF FramingInit, FramingTypes, ReceiverInv
  <1>2. Spans(sizes, [frame |-> 1, at |-> 0], <<>>, [frame |-> 1, at |-> 0])
        /\ [frame |-> 1, at |-> 0] \in StreamPlaces
    <2>1. [frame |-> 1, at |-> 0] \in StreamPlaces
        BY DEF StreamPlaces
    <2> QED  BY <2>1, SpansEmpty
  <1>3. src \o out = <<>> /\ ReceiverPlace = [frame |-> 1, at |-> 0]
        /\ StreamEnd(sizes) = [frame |-> 1, at |-> 0]
      BY DEF FramingInit, ReceiverPlace, ReceiverAt, StreamEnd
  <1>4. StreamInv
      BY <1>2, <1>3 DEF StreamInv
  <1> QED  BY <1>1, <1>4 DEF FramingInv

LEMMA SizesAreNumbers ==
    ASSUME FramingTypes
    PROVE  /\ sizes \in Seq(Nat) /\ Len(sizes) \in Nat
           /\ \A k \in 1..Len(sizes) : HeaderLength(sizes[k]) > 0
  <1>1. sizes \in Seq(Lengths) /\ Lengths \subseteq Nat
      BY FramingConstants DEF FramingTypes
  <1>2. Len(sizes) \in Nat /\ sizes = [i \in 1..Len(sizes) |-> sizes[i]]
        /\ \A i \in 1..Len(sizes) : sizes[i] \in Nat
      BY <1>1
  <1>3. sizes \in Seq(Nat)
      BY <1>2, SeqDef
  <1> QED  BY <1>2, <1>3 DEF FramingTypes

LEMMA FramingInvImplies == FramingInv => FramingTypeOK /\ FramesAreExact
  <1> SUFFICES ASSUME FramingInv PROVE FramingTypeOK /\ FramesAreExact
      OBVIOUS
  <1>1. /\ sizes \in Seq(Nat) /\ Len(sizes) \in Nat
        /\ \A k \in 1..Len(sizes) : HeaderLength(sizes[k]) > 0
      BY SizesAreNumbers DEF FramingInv
  <1>2. FramingTypeOK
    <2>1. \A buffer \in {out, src} : \A i \in DOMAIN buffer : buffer[i] \in Items
        BY DEF FramingInv, FramingTypes
    <2>2. \A buffer \in {out, src} : \A i \in DOMAIN buffer :
             buffer[i].byte \in 0..255 /\ buffer[i].n \in Nat \ {0}
        BY <2>1 DEF Items
    <2>3. Len(expected) <= 1
      <3>1. CASE expected = <<>>
          BY <3>1
      <3>2. CASE expected = <<sizes[Len(got) + 1]>>
          BY <3>2
      <3> QED  BY <3>1, <3>2 DEF FramingInv, ReceiverInv
    <2> QED  BY <2>2, <2>3 DEF FramingInv, FramingTypes, FramingTypeOK
  <1>3. \A k \in DOMAIN got : got[k] = k
      BY DEF FramingInv, ReceiverInv
  <1>4. ASSUME expected = <<>>, src # <<>> PROVE src[1].of = 0
    <2> DEFINE k == Len(got) + 1
    <2>1. ReceiverPlace = [frame |-> k, at |-> 0] /\ k \in Nat
        BY <1>4 DEF ReceiverPlace, ReceiverAt, FramingInv, ReceiverInv
    <2>2. src \in Seq(Items) /\ out \in Seq(Items)
        BY DEF FramingInv, FramingTypes
    <2>3. src \o out \in Seq(Items) /\ src \o out # <<>> /\ (src \o out)[1] = src[1]
      <3>1. 1 \in 1..Len(src)
          BY <1>4, <2>2
      <3> QED  BY <2>2, <3>1, JoinedItems
    <2>4. PICK to \in StreamPlaces : Spans(sizes, [frame |-> k, at |-> 0], src \o out, to)
        BY <2>1 DEF FramingInv, StreamInv
    <2> HIDE DEF k
    <2>5. k \in 1..Len(sizes) /\ src[1] = Header(sizes[k])[1]
        BY <1>1, <2>1, <2>3, <2>4, FirstIsHeader
    <2>6. sizes[k] \in Nat /\ HeaderLength(sizes[k]) > 0 /\ 1 \in 1..HeaderLength(sizes[k])
      <3>1. sizes[k] \in Nat /\ HeaderLength(sizes[k]) > 0
          BY <1>1, <2>5
      <3> QED  BY <3>1, HeaderLengths
    <2> QED  BY <2>5, <2>6, HeaderItemsHaveNoFrame
  <1> QED  BY <1>2, <1>3, <1>4 DEF FramesAreExact

LEMMA JoinedThrice ==
    ASSUME NEW x \in Seq(Items), NEW y \in Seq(Items), NEW z \in Seq(Items)
    PROVE  (x \o y) \o z = x \o (y \o z)
    BY ConcatAssociative

LEMMA SendKeeps ==
    ASSUME FramingInv, NEW n \in Lengths, Send(n)
    PROVE  FramingInv'
  <1>1. /\ sizes \in Seq(Nat) /\ Len(sizes) \in Nat /\ sizes \in Seq(Lengths)
        /\ \A k \in 1..Len(sizes) : HeaderLength(sizes[k]) > 0
        /\ src \in Seq(Items) /\ out \in Seq(Items)
      BY SizesAreNumbers DEF FramingInv, FramingTypes
  <1>2. n \in Nat /\ HeaderLength(n) > 0 /\ Len(sizes) < MaxFrames /\ MaxFrames \in Nat
      BY FramingConstants DEF Send
  <1> DEFINE t == Append(sizes, n)
             k == Len(sizes) + 1
             frame == Header(n) \o Payload(k, n)
  <1>3. /\ t \in Seq(Nat) /\ t \in Seq(Lengths) /\ Len(t) = k /\ t[k] = n
        /\ \A i \in 1..Len(sizes) : t[i] = sizes[i]
      BY <1>1, <1>2
  <1>4. sizes' = t /\ UNCHANGED <<src, expected, got, link>> /\ link = "open"
      BY DEF Send
  <1>h. Header(n) \in Seq(Items) /\ Payload(k, n) \in Seq(Items)
    <2>1. [byte |-> 0, of |-> k, n |-> n] \in Items \/ n = 0
        BY <1>1, <1>2 DEF Items
    <2> QED  BY <1>1, <1>2, <2>1, HeaderBytes DEF Payload
  <1>5. out' = out \o frame
    <2>1. out' = out \o Header(n) \o Payload(k, n)
        BY DEF Send
    <2> HIDE DEF k
    <2> QED  BY <2>1, <1>1, <1>h, JoinedThrice
  <1> HIDE DEF t
  <1>6. \A i \in 1..Len(t) : HeaderLength(t[i]) > 0
    <2> SUFFICES ASSUME NEW i \in 1..Len(t) PROVE HeaderLength(t[i]) > 0
        OBVIOUS
    <2>1. i \in 1..Len(sizes) \/ i = k
        BY <1>1, <1>3
    <2> QED  BY <1>1, <1>2, <1>3, <2>1
  <1>7. k \in 1..Len(t) /\ k \in Nat /\ Len(t) <= MaxFrames
      BY <1>1, <1>2, <1>3
  <1> HIDE DEF frame
  <1>8. /\ Spans(t, [frame |-> k, at |-> 0], frame, [frame |-> k + 1, at |-> 0])
        /\ frame \in Seq(Items)
      BY <1>2, <1>3, <1>7, FrameSpans DEF frame
  <1>9. FramingTypes'
    <2>1. out' \in Seq(Items)
        BY <1>1, <1>5, <1>8
    <2> QED  BY <1>1, <1>3, <1>4, <1>6, <1>7, <2>1 DEF FramingTypes
  <1>10. ReceiverInv'
    <2>1. CASE expected = <<>>
        BY <1>4, <2>1 DEF FramingInv, ReceiverInv
    <2>2. CASE Len(got) < Len(sizes) /\ expected = <<sizes[Len(got) + 1]>>
      <3>1. got \in Seq(Nat)
          BY DEF FramingInv, ReceiverInv
      <3>2. Len(got) + 1 \in 1..Len(sizes) /\ Len(got) < Len(t)
          BY <1>1, <1>3, <2>2, <3>1
      <3> QED  BY <1>3, <1>4, <2>2, <3>2 DEF FramingInv, ReceiverInv
    <2> QED  BY <2>1, <2>2 DEF FramingInv, ReceiverInv
  <1>11. ReceiverPlace' = ReceiverPlace
    <2>1. CASE expected = <<>>
        BY <1>4, <2>1 DEF ReceiverPlace, ReceiverAt
    <2>2. CASE expected # <<>>
      <3>1. got \in Seq(Nat) /\ Len(got) < Len(sizes)
          BY <2>2 DEF FramingInv, ReceiverInv
      <3>2. Len(got) + 1 \in 1..Len(sizes)
          BY <1>1, <3>1
      <3>3. t[Len(got) + 1] = sizes[Len(got) + 1]
          BY <1>3, <3>2
      <3> QED  BY <1>4, <2>2, <3>3 DEF ReceiverPlace, ReceiverAt, Place, FrameLength
    <2> QED  BY <2>1, <2>2
  <1>12. Spans(sizes, ReceiverPlace, src \o out, StreamEnd(sizes))
      BY <1>4 DEF FramingInv, StreamInv
  <1>13. Spans(t, ReceiverPlace, src \o out, [frame |-> k, at |-> 0])
      BY <1>1, <1>2, <1>12, SpansMore DEF StreamEnd, t
  <1>14. Spans(t, ReceiverPlace, (src \o out) \o frame, [frame |-> k + 1, at |-> 0])
    <2>1. src \o out \in Seq(Items)
        BY <1>1
    <2> QED  BY <1>8, <1>13, <2>1, SpansJoin
  <1>15. src' \o out' = (src \o out) \o frame
    <2>1. (src \o out) \o frame = src \o (out \o frame)
        BY <1>1, <1>8, JoinedThrice
    <2> QED  BY <1>4, <1>5, <2>1
  <1>16. StreamEnd(t) = [frame |-> k + 1, at |-> 0] /\ StreamEnd(t) \in StreamPlaces
      BY <1>3, <1>7 DEF StreamEnd, StreamPlaces
  <1>17. StreamInv'
      BY <1>4, <1>11, <1>14, <1>15, <1>16 DEF StreamInv
  <1> QED  BY <1>9, <1>10, <1>17 DEF FramingInv

(* A step that leaves the receiver where it is, and the stream.            *)
LEMMA BuffersStep ==
    ASSUME FramingInv, UNCHANGED <<sizes, expected, got>>,
           src' \in Seq(Items), out' \in Seq(Items), link' \in {"open", "cut", "refused"},
           NEW to \in StreamPlaces, Spans(sizes, ReceiverPlace, src' \o out', to),
           link' = "open" => to = StreamEnd(sizes)
    PROVE  FramingInv'
  <1>1. FramingTypes' /\ ReceiverInv'
      BY DEF FramingInv, FramingTypes, ReceiverInv
  <1>2. ReceiverPlace' = ReceiverPlace /\ StreamEnd(sizes)' = StreamEnd(sizes)
      BY DEF ReceiverPlace, StreamEnd
  <1>3. StreamInv'
      BY <1>2 DEF StreamInv
  <1> QED  BY <1>1, <1>3 DEF FramingInv

LEMMA LinkBreaksKeeps ==
    ASSUME FramingInv, LinkBreaks
    PROVE  FramingInv'
  <1>1. src \in Seq(Items) /\ out \in Seq(Items)
      BY DEF FramingInv, FramingTypes
  <1>2. PICK to \in StreamPlaces : Spans(sizes, ReceiverPlace, src \o out, to)
      BY DEF FramingInv, StreamInv
  <1>3. PICK mid \in StreamPlaces : Spans(sizes, ReceiverPlace, src, mid)
      BY <1>1, <1>2, SpansSplit
  <1>4. src' \o out' = src /\ src' \in Seq(Items) /\ out' \in Seq(Items) /\ link' = "cut"
        /\ UNCHANGED <<sizes, expected, got>>
      BY <1>1 DEF LinkBreaks
  <1> QED  BY <1>3, <1>4, BuffersStep

(* The buffers of sender and receiver are one stream, wherever it is cut.  *)
LEMMA TakenIsLeft ==
    ASSUME NEW x \in Seq(Items), NEW y \in Seq(Items), NEW i \in 0..Len(y)
    PROVE  /\ Taken(y, i, 0) \in Seq(Items) /\ Left(y, i, 0) \in Seq(Items)
           /\ (x \o Taken(y, i, 0)) \o Left(y, i, 0) = x \o y
  <1> DEFINE a == SubSeq(y, 1, i)
             b == SubSeq(y, i + 1, Len(y))
  <1>1. /\ a \in Seq(Items) /\ b \in Seq(Items) /\ Len(a) = i /\ Len(b) = Len(y) - i
        /\ \A j \in 1..Len(a) : a[j] = y[j]
        /\ \A j \in 1..Len(b) : b[j] = y[i + j]
      OBVIOUS
  <1>2. Taken(y, i, 0) = a \o <<>> /\ Left(y, i, 0) = b
      BY DEF Taken, Left
  <1> HIDE DEF a, b
  <1>3. Taken(y, i, 0) = a
      BY <1>1, <1>2
  <1>4. a \o b = y
    <2>1. /\ a \o b \in Seq(Items) /\ Len(a \o b) = Len(a) + Len(b)
          /\ \A j \in 1..Len(a) : (a \o b)[j] = a[j]
          /\ \A j \in 1..Len(b) : (a \o b)[Len(a) + j] = b[j]
        BY <1>1, JoinedItems
    <2>2. Len(a \o b) = Len(y) /\ Len(y) \in Nat
        BY <1>1, <2>1
    <2>3. ASSUME NEW j \in 1..Len(y) PROVE (a \o b)[j] = y[j]
      <3>1. CASE j <= i
        <4>1. j \in 1..Len(a)
            BY <1>1, <2>2, <3>1
        <4> QED  BY <1>1, <2>1, <4>1
      <3>2. CASE j > i
        <4> DEFINE m == j - i
        <4>1. m \in 1..Len(b) /\ j = i + m /\ i = Len(a)
            BY <1>1, <2>2, <3>2
        <4> HIDE DEF m
        <4> QED  BY <1>1, <2>1, <4>1
      <3> QED  BY <2>2, <3>1, <3>2
    <2> HIDE DEF a, b
    <2> QED  BY <2>1, <2>2, <2>3, SeqEqual
  <1>5. (x \o a) \o b = x \o (a \o b)
      BY <1>1, JoinedThrice
  <1> QED  BY <1>1, <1>2, <1>3, <1>4, <1>5

LEMMA FirstOfRest ==
    ASSUME NEW y \in Seq(Items), NEW i \in 0..(Len(y) - 1)
    PROVE  SubSeq(y, i + 1, Len(y)) = <<y[i + 1]>> \o SubSeq(y, i + 2, Len(y))
  <1> DEFINE a == SubSeq(y, i + 1, Len(y))
             b == SubSeq(y, i + 2, Len(y))
             c == <<y[i + 1]>>
  <1>1. Len(y) \in Nat /\ i + 1 \in 1..Len(y) /\ y[i + 1] \in Items
      OBVIOUS
  <1>2. a \in Seq(Items) /\ Len(a) = Len(y) - i /\ \A j \in 1..Len(a) : a[j] = y[i + j]
      BY <1>1
  <1>3. b \in Seq(Items) /\ Len(b) = Len(y) - i - 1
        /\ \A j \in 1..Len(b) : b[j] = y[i + 1 + j]
      BY <1>1
  <1>4. c \in Seq(Items) /\ Len(c) = 1 /\ c[1] = y[i + 1]
      BY <1>1
  <1> HIDE DEF a, b, c
  <1>5. /\ c \o b \in Seq(Items) /\ Len(c \o b) = Len(c) + Len(b)
        /\ \A j \in 1..Len(c) : (c \o b)[j] = c[j]
        /\ \A j \in 1..Len(b) : (c \o b)[Len(c) + j] = b[j]
      BY <1>3, <1>4, JoinedItems
  <1>6. Len(a) = Len(c \o b)
      BY <1>1, <1>2, <1>3, <1>4, <1>5
  <1>7. ASSUME NEW j \in 1..Len(a) PROVE a[j] = (c \o b)[j]
    <2>1. CASE j = 1
        BY <1>2, <1>4, <1>5, <2>1
    <2>2. CASE j # 1
      <3> DEFINE m == j - 1
      <3>1. m \in 1..Len(b) /\ j = 1 + m /\ i + 1 + m = i + j
          BY <1>1, <1>2, <1>3, <2>2
      <3> HIDE DEF m
      <3>2. (c \o b)[1 + m] = b[m] /\ b[m] = y[i + 1 + m]
          BY <1>3, <1>4, <1>5, <3>1
      <3> QED  BY <1>2, <3>1, <3>2
    <2> QED  BY <2>1, <2>2
  <1>8. a = c \o b
      BY <1>2, <1>5, <1>6, <1>7, SeqEqual
  <1> QED  BY <1>8 DEF a, b, c

LEMMA DeliverKeeps ==
    ASSUME FramingInv, Deliver
    PROVE  FramingInv'
  <1>1. /\ src \in Seq(Items) /\ out \in Seq(Items) /\ sizes \in Seq(Nat)
        /\ \A k \in 1..Len(sizes) : HeaderLength(sizes[k]) > 0
      BY SizesAreNumbers DEF FramingInv, FramingTypes
  <1>2. PICK to \in StreamPlaces :
           /\ Spans(sizes, ReceiverPlace, src \o out, to)
           /\ link = "open" => to = StreamEnd(sizes)
      BY DEF FramingInv, StreamInv
  <1>3. UNCHANGED <<sizes, expected, got, link>> /\ link' \in {"open", "cut", "refused"}
      BY DEF Deliver, FramingInv, FramingTypes
  <1>4. ASSUME NEW i \in 1..Len(out), src' = src \o Taken(out, i, 0), out' = Left(out, i, 0)
        PROVE  FramingInv'
    <2>1. i \in 0..Len(out)
        OBVIOUS
    <2>2. /\ Taken(out, i, 0) \in Seq(Items) /\ Left(out, i, 0) \in Seq(Items)
          /\ (src \o Taken(out, i, 0)) \o Left(out, i, 0) = src \o out
        BY <1>1, <2>1, TakenIsLeft
    <2>3. src' \in Seq(Items) /\ out' \in Seq(Items) /\ src' \o out' = src \o out
      <3>1. src \o Taken(out, i, 0) \in Seq(Items)
          BY <1>1, <2>2, JoinedItems
      <3> QED  BY <1>4, <2>2, <3>1
    <2> QED  BY <1>2, <1>3, <2>3, BuffersStep
  <1>5. ASSUME NEW i \in 0..(Len(out) - 1), NEW m \in Cuts(out[i + 1]),
               src' = src \o Taken(out, i, m), out' = Left(out, i, m)
        PROVE  FramingInv'
    <2> DEFINE item == out[i + 1]
               head == [item EXCEPT !.n = m]
               tail == [item EXCEPT !.n = @ - m]
               x == src \o SubSeq(out, 1, i)
               y == SubSeq(out, i + 2, Len(out))
    <2>1. item \in Items /\ item.n \in Nat \ {0}
      <3>1. i + 1 \in 1..Len(out)
          BY <1>1
      <3>2. item \in Items
          BY <1>1, <3>1
      <3> QED  BY <3>2 DEF Items
    <2>2. item.of # 0 /\ m \in Nat /\ 0 < m /\ m < item.n
      <3>1. item.of # 0 /\ m \in {1, item.n - 1} \ {0, item.n}
          BY DEF Cuts
      <3> HIDE DEF item
      <3> QED  BY <2>1, <3>1
    <2>3. Taken(out, i, m) = SubSeq(out, 1, i) \o <<head>> /\ Left(out, i, m) = <<tail>> \o y
        BY <2>2 DEF Taken, Left
    <2>4. /\ SubSeq(out, 1, i) \in Seq(Items) /\ y \in Seq(Items) /\ x \in Seq(Items)
          /\ (src \o SubSeq(out, 1, i)) \o (<<item>> \o y) = src \o out
      <3>1. i \in 0..Len(out)
          BY <1>1
      <3>2. /\ Taken(out, i, 0) \in Seq(Items) /\ Left(out, i, 0) \in Seq(Items)
            /\ (src \o Taken(out, i, 0)) \o Left(out, i, 0) = src \o out
          BY <1>1, <3>1, TakenIsLeft
      <3>3. SubSeq(out, 1, i) \in Seq(Items) /\ y \in Seq(Items)
          BY <1>1
      <3>4. Taken(out, i, 0) = SubSeq(out, 1, i)
        <4>1. Taken(out, i, 0) = SubSeq(out, 1, i) \o <<>>
            BY DEF Taken
        <4> QED  BY <3>3, <4>1
      <3>5. Left(out, i, 0) = <<item>> \o y
        <4>1. Left(out, i, 0) = SubSeq(out, i + 1, Len(out))
            BY DEF Left
        <4>2. SubSeq(out, i + 1, Len(out)) = <<item>> \o y
            BY <1>1, FirstOfRest
        <4> QED  BY <4>1, <4>2
      <3>6. x \in Seq(Items)
          BY <1>1, <3>3, JoinedItems
      <3> QED  BY <3>2, <3>3, <3>4, <3>5, <3>6
    <2> HIDE DEF item, head, tail, x, y
    <2>5. Spans(sizes, ReceiverPlace, x \o (<<item>> \o y), to)
        BY <1>2, <2>4 DEF x
    <2>6. <<item>> \in Seq(Items) /\ <<item>> \o y \in Seq(Items)
        BY <2>1, <2>4
    <2>7. PICK a \in StreamPlaces : /\ Spans(sizes, ReceiverPlace, x, a)
                                    /\ Spans(sizes, a, <<item>> \o y, to)
        BY <2>4, <2>5, <2>6, SpansSplit
    <2>8. PICK b \in StreamPlaces : Spans(sizes, a, <<item>>, b) /\ Spans(sizes, b, y, to)
        BY <2>4, <2>6, <2>7, SpansSplit
    <2>9. /\ head \in Items /\ tail \in Items
          /\ Spans(sizes, a, <<head>> \o <<tail>>, b)
        BY <1>1, <2>1, <2>2, <2>8, CutSpans DEF head, tail
    <2>10. /\ <<head>> \in Seq(Items) /\ <<tail>> \in Seq(Items)
           /\ <<head>> \o <<tail>> \in Seq(Items)
        BY <2>9
    <2>11. Spans(sizes, a, (<<head>> \o <<tail>>) \o y, to)
        BY <2>4, <2>8, <2>9, <2>10, SpansJoin
    <2>12. (<<head>> \o <<tail>>) \o y \in Seq(Items)
        BY <2>4, <2>10, JoinedItems
    <2>13. Spans(sizes, ReceiverPlace, x \o ((<<head>> \o <<tail>>) \o y), to)
        BY <2>4, <2>7, <2>11, <2>12, SpansJoin
    <2>14. src' \in Seq(Items) /\ out' \in Seq(Items)
           /\ src' \o out' = x \o ((<<head>> \o <<tail>>) \o y)
      <3>1. src' = src \o (SubSeq(out, 1, i) \o <<head>>) /\ out' = <<tail>> \o y
          BY <1>5, <2>3
      <3>2. src \o (SubSeq(out, 1, i) \o <<head>>) = x \o <<head>>
          BY <1>1, <2>4, <2>10, JoinedThrice DEF x
      <3>3. (x \o <<head>>) \o (<<tail>> \o y) = x \o (<<head>> \o (<<tail>> \o y))
        <4>1. <<tail>> \o y \in Seq(Items)
            BY <2>4, <2>10, JoinedItems
        <4> QED  BY <2>4, <2>10, <4>1, JoinedThrice
      <3>4. <<head>> \o (<<tail>> \o y) = (<<head>> \o <<tail>>) \o y
          BY <2>4, <2>10, JoinedThrice
      <3>5. x \o <<head>> \in Seq(Items) /\ <<tail>> \o y \in Seq(Items)
          BY <2>4, <2>10, JoinedItems
      <3> QED  BY <3>1, <3>2, <3>3, <3>4, <3>5
    <2> QED  BY <1>2, <1>3, <2>13, <2>14, BuffersStep
  <1> QED  BY <1>4, <1>5 DEF Deliver

(* decode_head finds the length that encode wrote.                         *)
LEMMA DecodeHeadKeeps ==
    ASSUME FramingInv, decode_head
    PROVE  FramingInv'
  <1>1. /\ src \in Seq(Items) /\ out \in Seq(Items) /\ sizes \in Seq(Nat)
        /\ \A i \in 1..Len(sizes) : HeaderLength(sizes[i]) > 0
        /\ got \in Seq(Nat) /\ Len(got) \in Nat
      BY SizesAreNumbers DEF FramingInv, FramingTypes, ReceiverInv
  <1>2. PICK to \in StreamPlaces :
           /\ Spans(sizes, ReceiverPlace, src \o out, to)
           /\ link = "open" => to = StreamEnd(sizes)
      BY DEF FramingInv, StreamInv
  <1>3. expected = <<>> /\ src # <<>> /\ Len(src) >= head_len /\ UNCHANGED <<sizes, out, got>>
      BY DEF decode_head
  <1>4. CASE link' = "refused" /\ UNCHANGED <<expected, src>>
      BY <1>1, <1>2, <1>3, <1>4, BuffersStep
  <1>5. CASE /\ expected' = <<DeclaredLength>> /\ UNCHANGED link
             /\ src' = SubSeq(src, head_len + 1, Len(src))
    <2> DEFINE k == Len(got) + 1
               n == sizes[k]
               h == HeaderLength(n)
               z == src \o out
    <2>1. ReceiverPlace = [frame |-> k, at |-> 0] /\ k \in Nat
        BY <1>1, <1>3 DEF ReceiverPlace, ReceiverAt
    <2>2. /\ z \in Seq(Items) /\ z # <<>> /\ Len(z) = Len(src) + Len(out)
          /\ \A i \in 1..Len(src) : z[i] = src[i]
      <3>1. Len(src) > 0 /\ Len(out) \in Nat /\ Len(src) \in Nat
          BY <1>1, <1>3
      <3>2. z \in Seq(Items) /\ Len(z) = Len(src) + Len(out)
            /\ \A i \in 1..Len(src) : z[i] = src[i]
          BY <1>1, JoinedItems
      <3> HIDE DEF z
      <3>3. Len(z) > 0
          BY <3>1, <3>2
      <3> QED  BY <3>2, <3>3
    <2> HIDE DEF k, z
    <2>3. k \in 1..Len(sizes) /\ z[1] = Header(sizes[k])[1]
        BY <1>1, <1>2, <2>1, <2>2, FirstIsHeader DEF z
    <2>4. n \in Nat /\ h > 0 /\ h \in 1..4
      <3>1. n \in Nat /\ h > 0
          BY <1>1, <2>3
      <3> QED  BY <3>1, HeaderLengths
    <2>5. src[1] = Byte(HeaderByte(n, 1))
      <3>1. 1 \in 1..Len(src) /\ 1 \in 1..h
          BY <1>1, <1>3, <2>4
      <3> QED  BY <2>2, <2>3, <2>4, <3>1, HeaderBytes
    <2>6. head_len = h /\ src[1].byte \div 4 = n % 64
      <3>1. src[1].byte = HeaderByte(n, 1)
          BY <2>5 DEF Byte
      <3>2. HeaderByte(n, 1) % 4 = h - 1 /\ HeaderByte(n, 1) \div 4 = n % 64
          BY <2>4, HeaderBytes
      <3> HIDE DEF h
      <3> QED  BY <2>4, <3>1, <3>2 DEF head_len
    <2>7. Len(z) >= h /\ Len(src) >= h /\ h \in 0..Len(src) /\ Len(src) \in Nat
      <3> HIDE DEF h, n
      <3>1. Len(src) \in Nat /\ Len(out) \in Nat /\ Len(z) = Len(src) + Len(out)
          BY <1>1, <2>2
      <3>2. Len(src) >= h
          BY <1>3, <2>6
      <3>3. h \in Nat
          BY <2>4
      <3> QED  BY <3>1, <3>2, <3>3
    <2>8. /\ \A j \in 1..h : z[j] = Header(n)[j]
          /\ Spans(sizes, Place(sizes, k, h), SubSeq(z, h + 1, Len(z)), to)
        BY <1>1, <1>2, <2>1, <2>2, <2>3, <2>4, <2>7, WholeHeader DEF z
    <2>9. \A j \in 1..h : src[j].byte = HeaderByte(n, j)
      <3> SUFFICES ASSUME NEW j \in 1..h PROVE src[j].byte = HeaderByte(n, j)
          OBVIOUS
      <3>1. j \in 1..Len(src)
          BY <2>4, <2>7
      <3>2. src[j] = Header(n)[j]
          BY <2>2, <2>8, <3>1
      <3>3. Header(n)[j] = Byte(HeaderByte(n, j))
          BY <2>4, HeaderBytes
      <3> QED  BY <3>2, <3>3 DEF Byte
    <2>10. DeclaredLength = n
      <3> DEFINE two == IF 2 > h THEN 0 ELSE src[2].byte * 64
                 three == IF 3 > h THEN 0 ELSE src[3].byte * 16384
                 four == IF 4 > h THEN 0 ELSE src[4].byte * 4194304
      <3>1. two = (IF 2 > h THEN 0 ELSE HeaderByte(n, 2) * 64)
        <4> HIDE DEF h, n
        <4>1. 2 > h \/ 2 \in 1..h
            BY <2>4
        <4> QED  BY <2>9, <4>1, SMT
      <3>2. three = (IF 3 > h THEN 0 ELSE HeaderByte(n, 3) * 16384)
        <4> HIDE DEF h, n
        <4>1. 3 > h \/ 3 \in 1..h
            BY <2>4
        <4> QED  BY <2>9, <4>1, SMT
      <3>3. four = (IF 4 > h THEN 0 ELSE HeaderByte(n, 4) * 4194304)
        <4> HIDE DEF h, n
        <4>1. 4 > h \/ 4 \in 1..h
            BY <2>4
        <4> QED  BY <2>9, <4>1, SMT
      <3>4. DeclaredLength = (src[1].byte \div 4) + two + three + four
          BY <2>6, SMT DEF DeclaredLength
      <3> HIDE DEF two, three, four
      <3>5. n = (n % 64) + two + three + four
          BY <2>4, <3>1, <3>2, <3>3, HeaderSum, SMT
      <3> QED  BY <2>6, <3>4, <3>5
    <2> HIDE DEF n, h
    <2>11. /\ SubSeq(z, h + 1, Len(z)) = src' \o out' /\ src' \in Seq(Items)
      <3>1. /\ SubSeq(z, h + 1, Len(z)) = SubSeq(src, h + 1, Len(src)) \o out
            /\ SubSeq(src, h + 1, Len(src)) \in Seq(Items)
          BY <1>1, <2>7, RestOfJoined DEF z
      <3> QED  BY <1>3, <1>5, <2>6, <3>1
    <2>12. FramingTypes'
        BY <1>1, <1>3, <1>5, <2>11 DEF FramingInv, FramingTypes
    <2>13. ReceiverInv'
      <3>1. Len(got) < Len(sizes)
          BY <1>1, <2>3 DEF k
      <3> QED  BY <1>3, <1>5, <2>10, <3>1 DEF FramingInv, ReceiverInv, n, k
    <2>14. ReceiverPlace' = Place(sizes, k, h)
      <3>1. expected' # <<>>
          BY <1>5
      <3> QED  BY <1>3, <3>1 DEF ReceiverPlace, ReceiverAt, h, n, k, Place, FrameLength
    <2>15. StreamInv'
        BY <1>2, <1>3, <1>5, <2>8, <2>11, <2>14 DEF StreamInv, StreamEnd
    <2> QED  BY <2>12, <2>13, <2>15 DEF FramingInv
  <1> QED  BY <1>4, <1>5 DEF decode_head

LEMMA DecodeDataKeeps ==
    ASSUME FramingInv, decode_data
    PROVE  FramingInv'
  <1>1. /\ src \in Seq(Items) /\ out \in Seq(Items) /\ sizes \in Seq(Nat)
        /\ \A i \in 1..Len(sizes) : HeaderLength(sizes[i]) > 0
        /\ got \in Seq(Nat) /\ Len(got) \in Nat /\ Len(src) \in Nat /\ Len(sizes) \in Nat
      BY SizesAreNumbers DEF FramingInv, FramingTypes, ReceiverInv
  <1>2. PICK to \in StreamPlaces :
           /\ Spans(sizes, ReceiverPlace, src \o out, to)
           /\ link = "open" => to = StreamEnd(sizes)
      BY DEF FramingInv, StreamInv
  <1> DEFINE k == Len(got) + 1
             n == sizes[k]
             i == Whole(n)
             m == n - BytesOfFirst(src)[i]
  <1>3. Len(got) < Len(sizes) /\ expected = <<n>>
      BY DEF FramingInv, ReceiverInv, decode_data
  <1>4. k \in 1..Len(sizes) /\ n \in Nat /\ HeaderLength(n) > 0
    <2>1. k \in 1..Len(sizes)
        BY <1>1, <1>3
    <2> QED  BY <1>1, <2>1
  <1>5. ReceiverPlace = Place(sizes, k, HeaderLength(n))
      BY <1>3 DEF ReceiverPlace, ReceiverAt
  <1>6. BytesOfFirst(src)[Len(src)] >= n
      BY <1>3 DEF decode_data, Enough
  <1>7. /\ got' = Append(got, Decoded(k, Taken(src, i, m), n)) /\ src' = Left(src, i, m)
        /\ expected' = <<>> /\ UNCHANGED <<sizes, out, link>>
      BY <1>3 DEF decode_data
  <1>8. /\ i \in 0..Len(src) /\ BytesOfFirst(src)[i] <= n
        /\ i < Len(src) => BytesOfFirst(src)[i + 1] > n
      BY <1>1, <1>4, WholeExists
  <1> HIDE DEF i, k
  <1>9. /\ BytesOfFirst(src)[i] = n /\ \A j \in 1..i : src[j].of = k
        /\ Spans(sizes, [frame |-> k + 1, at |-> 0], SubSeq(src, i + 1, Len(src)) \o out, to)
      BY <1>1, <1>2, <1>4, <1>5, <1>6, <1>8, PayloadIsWhole
  <1>10. m = 0
      BY <1>4, <1>9
  <1> HIDE DEF m
  <1>11. SubSeq(src, 1, i) \in Seq(Items) /\ SubSeq(src, i + 1, Len(src)) \in Seq(Items)
      BY <1>1, <1>8
  <1>12. Taken(src, i, m) = SubSeq(src, 1, i) /\ src' = SubSeq(src, i + 1, Len(src))
    <2>1. Taken(src, i, m) = SubSeq(src, 1, i) \o <<>>
        BY <1>10 DEF Taken
    <2> QED  BY <1>7, <1>10, <1>11, <2>1 DEF Left
  <1>13. Decoded(k, Taken(src, i, m), n) = k
    <2>1. ASSUME NEW j \in DOMAIN SubSeq(src, 1, i) PROVE SubSeq(src, 1, i)[j].of = k
      <3>1. j \in 1..i /\ SubSeq(src, 1, i)[j] = src[j]
          BY <1>1, <1>8
      <3> QED  BY <1>9, <3>1
    <2> QED  BY <1>12, <2>1 DEF Decoded
  <1> HIDE DEF n
  <1>14. got' = Append(got, k) /\ k \in Nat
      BY <1>1, <1>7, <1>13 DEF k
  <1>15. /\ got' \in Seq(Nat) /\ Len(got') = Len(got) + 1
         /\ \A j \in 1..Len(got') : got'[j] = j
    <2>1. /\ got' \in Seq(Nat) /\ Len(got') = Len(got) + 1 /\ got'[Len(got) + 1] = k
          /\ \A j \in 1..Len(got) : got'[j] = got[j]
        BY <1>1, <1>14
    <2>2. \A j \in 1..Len(got) : got[j] = j
        BY DEF FramingInv, ReceiverInv
    <2>3. ASSUME NEW j \in 1..Len(got') PROVE got'[j] = j
      <3>1. j \in 1..Len(got) \/ j = Len(got) + 1
          BY <1>1, <2>1
      <3> QED  BY <2>1, <2>2, <3>1 DEF k
    <2> QED  BY <2>1, <2>3
  <1>16. FramingTypes' /\ ReceiverInv'
      BY <1>1, <1>7, <1>11, <1>12, <1>15 DEF FramingInv, FramingTypes, ReceiverInv
  <1>17. ReceiverPlace' = [frame |-> k + 1, at |-> 0]
      BY <1>7, <1>15 DEF ReceiverPlace, ReceiverAt, k
  <1>18. StreamInv'
      BY <1>2, <1>7, <1>9, <1>12, <1>17 DEF StreamInv, StreamEnd
  <1> QED  BY <1>16, <1>18 DEF FramingInv

LEMMA FramingStep == FramingInv /\ [FramingNext]_framingVars => FramingInv'
  <1> SUFFICES ASSUME FramingInv, [FramingNext]_framingVars PROVE FramingInv'
      OBVIOUS
  <1>1. CASE UNCHANGED framingVars
      BY <1>1 DEF framingVars, FramingInv, FramingTypes, ReceiverInv, StreamInv, ReceiverPlace
  <1>2. ASSUME NEW n \in Lengths, Send(n) PROVE FramingInv'
      BY <1>2, SendKeeps
  <1>3. CASE Deliver
      BY <1>3, DeliverKeeps
  <1>4. CASE LinkBreaks
      BY <1>4, LinkBreaksKeeps
  <1>5. CASE Reading
      BY <1>5, DecodeHeadKeeps, DecodeDataKeeps DEF Reading
  <1> QED  BY <1>1, <1>2, <1>3, <1>4, <1>5 DEF FramingNext

-----------------------------------------------------------------------------
(* The WebRTC streams.                                                     *)

RtcTasks == [step : {"idle", "describing", "inserting", "closing", "done", "failed"},
             offer : Offers \cup {NoOffer}, got : Tasks \cup {Nobody}]
Connections == [state : {"absent", "new", "connected"} \cup Ended, role : {"offer", "answer"},
                described : BOOLEAN, remote : BOOLEAN,
                stream : {"placeholder", "real", "closed"}, open : BOOLEAN,
                notified : BOOLEAN, handler : {"idle", "ending", "cleaning"},
                drops : 0..MaxDrops]
StreamCalls == [step : {"none", "waiting", "woken", "ok", "failed"}, kind : {"send", "read"},
                count : Nat]

RtcTypes ==
    /\ inline \in BOOLEAN
    /\ task \in [Tasks -> RtcTasks] /\ pc \in [Tasks -> Connections]
    /\ op \in [Tasks -> StreamCalls] /\ holder \in Tasks \cup {Nobody}

(* What a connection is found by is the fingerprint of whoever made the    *)
(* offer, and it is found only once it is described.                       *)
SessionsInv ==
    \A k \in DOMAIN sessions :
      sessions[k] \in Tasks /\ pc[sessions[k]].described /\ Key(sessions[k]) = k

(* A call of new that has not begun has no description, a stream is used   *)
(* only by a task that has one.                                            *)
CallsAreOrdered(t) ==
    /\ task[t].step = "idle" => ~pc[t].described /\ task[t].offer = NoOffer
    /\ task[t].step \in {"inserting", "closing"} => pc[t].described
    /\ task[t].step = "done" => task[t].got # Nobody
    /\ task[t].got # Nobody => task[t].step = "done"
    /\ op[t].step \in {"waiting", "woken"} => task[t].step = "done"

OpensOnReal(c) == c.open => c.stream # "placeholder"

RtcInv ==
    /\ RtcTypes /\ SessionsInv /\ StreamIsToPeer
    /\ \A t \in Tasks : CallsAreOrdered(t) /\ OpensOnReal(pc[t])

LEMMA RtcInvImplies == RtcInv => RtcTypeOK /\ StreamIsToPeer /\ ChannelIsReal
  <1> SUFFICES ASSUME RtcInv PROVE RtcTypeOK /\ StreamIsToPeer /\ ChannelIsReal
      OBVIOUS
  <1>1. RtcTypeOK
    <2>1. \A t \in Tasks : task[t].got \in Tasks \cup {Nobody} /\ pc[t].drops \in 0..MaxDrops
        BY DEF RtcInv, RtcTypes, RtcTasks, Connections
    <2>2. (\A k \in DOMAIN sessions : sessions[k] \in Tasks) /\ holder \in Tasks \cup {Nobody}
        BY DEF RtcInv, RtcTypes, SessionsInv
    <2> QED  BY <2>1, <2>2 DEF RtcTypeOK
  <1>2. ChannelIsReal
      BY DEF RtcInv, RtcTypes, StreamCalls, ChannelIsReal
  <1> QED  BY <1>1, <1>2 DEF RtcInv

LEMMA RtcInitInv == RtcInit => RtcInv
  <1> SUFFICES ASSUME RtcInit PROVE RtcInv
      OBVIOUS
  <1>1. NoPc \in Connections
      BY WebRtcConstants DEF NoPc, Connections
  <1>2. RtcTypes
      BY <1>1 DEF RtcInit, RtcTypes, RtcTasks, StreamCalls
  <1>3. SessionsInv
      BY DEF RtcInit, SessionsInv
  <1>4. StreamIsToPeer
      BY DEF RtcInit, StreamIsToPeer
  <1>5. \A t \in Tasks : CallsAreOrdered(t) /\ OpensOnReal(pc[t])
      BY DEF RtcInit, CallsAreOrdered, OpensOnReal, NoPc
  <1> QED  BY <1>2, <1>3, <1>4, <1>5 DEF RtcInv

(* A step of a handler, of the network or of a call that sends or reads:   *)
(* the calls of new and the descriptions stay as they are, and nothing is  *)
(* added to SESSIONS.                                                      *)
LEMMA UseStep ==
    ASSUME RtcInv, UNCHANGED <<inline, task, holder>>,
           pc' \in [Tasks -> Connections], op' \in [Tasks -> StreamCalls],
           \A t \in Tasks : pc'[t].described = pc[t].described /\ OpensOnReal(pc'[t]),
           \A t \in Tasks : op'[t].step \in {"waiting", "woken"} => task[t].step = "done",
           \A k \in DOMAIN sessions' : k \in DOMAIN sessions /\ sessions'[k] = sessions[k]
    PROVE  RtcInv'
  <1>1. RtcTypes'
      BY DEF RtcInv, RtcTypes
  <1>2. SessionsInv'
    <2> SUFFICES ASSUME NEW k \in DOMAIN sessions'
                 PROVE  sessions'[k] \in Tasks /\ pc'[sessions'[k]].described
                        /\ (Key(sessions[k]))' = k
        BY DEF SessionsInv
    <2>1. sessions[k] \in Tasks /\ pc[sessions[k]].described /\ Key(sessions[k]) = k
        BY DEF RtcInv, SessionsInv
    <2> QED  BY <2>1 DEF Key
  <1>3. StreamIsToPeer'
    <2> SUFFICES ASSUME NEW t \in Tasks, task[t].got # Nobody
                 PROVE  /\ task[t].got # t => /\ task[t].offer # NoOffer
                                              /\ task[task[t].got].offer = task[t].offer
                        /\ pc'[task[t].got].described
        BY DEF StreamIsToPeer
    <2>1. task[t].got \in Tasks
        BY DEF RtcInv, RtcTypes, RtcTasks
    <2> QED  BY <2>1 DEF RtcInv, StreamIsToPeer
  <1>4. \A t \in Tasks : CallsAreOrdered(t)'
    <2> SUFFICES ASSUME NEW t \in Tasks PROVE CallsAreOrdered(t)'
        OBVIOUS
    <2>1. CallsAreOrdered(t)
        BY DEF RtcInv
    <2> QED  BY <2>1 DEF CallsAreOrdered
  <1> QED  BY <1>1, <1>2, <1>3, <1>4 DEF RtcInv

(* Such a step that changes one connection alone.                          *)
LEMMA ConnectionStep ==
    ASSUME RtcInv, NEW p \in Tasks, NEW c \in Connections,
           pc' = [pc EXCEPT ![p] = c], c.described = pc[p].described, OpensOnReal(c),
           UNCHANGED <<inline, task, sessions, holder, op>>
    PROVE  RtcInv'
  <1>1. pc' \in [Tasks -> Connections]
      BY DEF RtcInv, RtcTypes
  <1>2. \A t \in Tasks : pc'[t].described = pc[t].described /\ OpensOnReal(pc'[t])
      BY DEF RtcInv, RtcTypes
  <1>3. op' \in [Tasks -> StreamCalls]
      BY DEF RtcInv, RtcTypes
  <1>4. \A t \in Tasks : op'[t].step \in {"waiting", "woken"} => task[t].step = "done"
      BY DEF RtcInv, CallsAreOrdered
  <1>5. \A k \in DOMAIN sessions' : k \in DOMAIN sessions /\ sessions'[k] = sessions[k]
      OBVIOUS
  <1> QED  BY <1>1, <1>2, <1>3, <1>4, <1>5, UseStep

(* ... and one that changes a call alone.                                  *)
LEMMA CallStep ==
    ASSUME RtcInv, NEW t \in Tasks, NEW r \in StreamCalls, op' = [op EXCEPT ![t] = r],
           task[t].step = "done", UNCHANGED <<inline, task, pc, sessions, holder>>
    PROVE  RtcInv'
  <1>1. pc' \in [Tasks -> Connections] /\ op' \in [Tasks -> StreamCalls]
      BY DEF RtcInv, RtcTypes
  <1>2. \A u \in Tasks : pc'[u].described = pc[u].described /\ OpensOnReal(pc'[u])
      BY DEF RtcInv
  <1>3. \A u \in Tasks : op'[u].step \in {"waiting", "woken"} => task[u].step = "done"
      BY DEF RtcInv, RtcTypes, CallsAreOrdered
  <1>4. \A k \in DOMAIN sessions' : k \in DOMAIN sessions /\ sessions'[k] = sessions[k]
      OBVIOUS
  <1> QED  BY <1>1, <1>2, <1>3, <1>4, UseStep

(* ... or one connection and a call that is over.                          *)
LEMMA LastUseStep ==
    ASSUME RtcInv, NEW t \in Tasks, NEW r \in StreamCalls, op' = [op EXCEPT ![t] = r],
           r.step \notin {"waiting", "woken"},
           NEW p \in Tasks, NEW c \in Connections, pc' = [pc EXCEPT ![p] = c],
           c.described = pc[p].described, OpensOnReal(c),
           UNCHANGED <<inline, task, sessions, holder>>
    PROVE  RtcInv'
  <1>1. pc' \in [Tasks -> Connections] /\ op' \in [Tasks -> StreamCalls]
      BY DEF RtcInv, RtcTypes
  <1>2. \A u \in Tasks : pc'[u].described = pc[u].described /\ OpensOnReal(pc'[u])
      BY DEF RtcInv, RtcTypes
  <1>3. \A u \in Tasks : op'[u].step \in {"waiting", "woken"} => task[u].step = "done"
      BY DEF RtcInv, RtcTypes, CallsAreOrdered
  <1>4. \A k \in DOMAIN sessions' : k \in DOMAIN sessions /\ sessions'[k] = sessions[k]
      OBVIOUS
  <1> QED  BY <1>1, <1>2, <1>3, <1>4, UseStep

(* What a change of state leaves alone.                                    *)
LEMMA ChangedToKeeps ==
    ASSUME NEW c \in Connections, NEW s \in {"connected"} \cup Ended
    PROVE  /\ ChangedTo(c, s) \in Connections
           /\ ChangedTo(c, s).described = c.described /\ ChangedTo(c, s).open = c.open
           /\ ChangedTo(c, s).stream = c.stream /\ ChangedTo(c, s).drops = c.drops
    BY DEF ChangedTo, Connections, Ended

LEMMA CloseOfKeeps ==
    ASSUME NEW c \in Connections
    PROVE  /\ Close(c) \in Connections /\ Close(c).described = c.described
           /\ OpensOnReal(c) => OpensOnReal(Close(c))
    BY ChangedToKeeps DEF Close, Ended, OpensOnReal

LEMMA NewKeeps ==
    ASSUME RtcInv, NEW t \in Tasks, NEW offer \in Offers \cup {NoOffer, Garbled}, New(t, offer)
    PROVE  RtcInv'
  <1> USE DEF RtcTasks
  <1>t. task[t] \in RtcTasks /\ task \in [Tasks -> RtcTasks] /\ pc \in [Tasks -> Connections]
        /\ op \in [Tasks -> StreamCalls]
      BY DEF RtcInv, RtcTypes
  <1>i. task[t].step = "idle" /\ task[t].offer = NoOffer /\ task[t].got = Nobody
        /\ ~pc[t].described
      BY <1>t DEF RtcInv, CallsAreOrdered, New
  <1>n. t # Nobody
      BY WebRtcConstants DEF Nobody
  (* Nothing refers to a connection that is not described. *)
  <1>r. /\ \A k \in DOMAIN sessions : sessions[k] # t
        /\ \A u \in Tasks : task[u].got # t
      BY <1>i, <1>n DEF RtcInv, SessionsInv, StreamIsToPeer
  <1>u. UNCHANGED <<inline, sessions, holder, op>>
      BY DEF New
  <1>1. CASE /\ ~Parses(offer) /\ task' = [task EXCEPT ![t].step = "failed"] /\ pc' = pc
    <2> DEFINE r == [task[t] EXCEPT !.step = "failed"]
    <2>1. r \in RtcTasks /\ r.offer = NoOffer /\ r.got = Nobody /\ r.step = "failed"
        BY <1>t, <1>i
    <2>2. task' = [task EXCEPT ![t] = r]
        BY <1>1, <1>t
    <2> HIDE DEF r
    <2>3. RtcTypes'
        BY <1>1, <1>u, <2>1, <2>2 DEF RtcInv, RtcTypes
    <2>4. \A u \in Tasks : task'[u].offer = task[u].offer /\ task'[u].got = task[u].got
                           /\ Key(u)' = Key(u)
        BY <1>i, <1>t, <2>1, <2>2 DEF Key
    <2>5. SessionsInv'
        BY <1>1, <1>u, <2>4 DEF RtcInv, SessionsInv
    <2>6. StreamIsToPeer'
        BY <1>1, <1>t, <2>4 DEF RtcInv, StreamIsToPeer
    <2>7. \A u \in Tasks : CallsAreOrdered(u)' /\ OpensOnReal(pc'[u])
      <3> SUFFICES ASSUME NEW u \in Tasks PROVE CallsAreOrdered(u)' /\ OpensOnReal(pc'[u])
          OBVIOUS
      <3>1. CallsAreOrdered(u) /\ OpensOnReal(pc[u])
          BY DEF RtcInv
      <3>2. CASE u = t
          BY <3>1, <3>2, <1>1, <1>i, <1>u, <1>t, <2>1, <2>2 DEF CallsAreOrdered
      <3>3. CASE u # t
          BY <3>1, <3>3, <1>1, <1>u, <1>t, <2>2 DEF CallsAreOrdered
      <3> QED  BY <3>2, <3>3
    <2> QED  BY <2>3, <2>5, <2>6, <2>7 DEF RtcInv
  <1>2. CASE /\ offer # NoOffer /\ Cached(offer) /\ pc' = pc
             /\ task' = [task EXCEPT ![t].step = "done", ![t].offer = offer,
                                     ![t].got = sessions[offer]]
    <2>0. sessions[offer] \in Tasks /\ pc[sessions[offer]].described
          /\ Key(sessions[offer]) = offer /\ sessions[offer] # t
        BY <1>2, <1>r DEF RtcInv, SessionsInv, Cached
    (* The one that is found made an answer, for the name of a task is no offer. *)
    <2>1. task[sessions[offer]].offer = offer
        BY <2>0, <1>2, WebRtcConstants DEF Key, NoOffer, Garbled
    <2>o. offer \in Offers \cup {NoOffer}
        BY <2>0, <2>1, <1>t
    <2> DEFINE r == [task[t] EXCEPT !.step = "done", !.offer = offer, !.got = sessions[offer]]
    <2>2. r \in RtcTasks /\ r.offer = offer /\ r.got = sessions[offer] /\ r.step = "done"
        BY <1>t, <1>i, <2>0, <2>o
    <2>3. task' = [task EXCEPT ![t] = r]
        BY <1>2, <1>t
    <2> HIDE DEF r
    <2>p. pc' = pc
        BY <1>2
    <2>4. RtcTypes'
        BY <2>p, <1>u, <2>2, <2>3 DEF RtcInv, RtcTypes
    <2>5. \A u \in Tasks : u # t => task'[u] = task[u] /\ Key(u)' = Key(u)
        BY <1>t, <2>3 DEF Key
    <2>6. SessionsInv'
        BY <1>2, <1>u, <2>5, <1>r DEF RtcInv, SessionsInv
    <2>7. StreamIsToPeer'
      <3> SUFFICES ASSUME NEW u \in Tasks, task'[u].got # Nobody
                   PROVE  /\ task'[u].got # u => /\ task'[u].offer # NoOffer
                                                 /\ task'[task'[u].got].offer = task'[u].offer
                          /\ pc[task'[u].got].described
          BY <1>2 DEF StreamIsToPeer
      <3>1. CASE u = t
          BY <3>1, <2>0, <2>1, <2>2, <2>3, <2>5, <1>t, <1>2
      <3>2. CASE u # t
        <4>1. task'[u] = task[u] /\ task[u].got \in Tasks /\ task[u].got # t
            BY <3>2, <2>5, <1>t, <1>r
        <4> QED  BY <4>1, <2>5 DEF RtcInv, StreamIsToPeer
      <3> QED  BY <3>1, <3>2
    <2>8. \A u \in Tasks : CallsAreOrdered(u)' /\ OpensOnReal(pc'[u])
      <3> SUFFICES ASSUME NEW u \in Tasks PROVE CallsAreOrdered(u)' /\ OpensOnReal(pc'[u])
          OBVIOUS
      <3>1. CallsAreOrdered(u) /\ OpensOnReal(pc[u])
          BY DEF RtcInv
      <3>2. CASE u = t
          BY <3>1, <3>2, <1>2, <1>i, <1>u, <1>t, <2>0, <2>2, <2>3, WebRtcConstants
          DEF CallsAreOrdered, Nobody
      <3>3. CASE u # t
          BY <3>1, <3>3, <1>2, <1>u, <2>5 DEF CallsAreOrdered
      <3> QED  BY <3>2, <3>3
    <2> QED  BY <2>4, <2>6, <2>7, <2>8 DEF RtcInv
  <1>3. CASE /\ Parses(offer)
             /\ task' = [task EXCEPT ![t].step = "describing", ![t].offer = offer]
             /\ pc' = [pc EXCEPT ![t] = [NoPc EXCEPT
                           !.state = "new",
                           !.role = IF offer = NoOffer THEN "offer" ELSE "answer",
                           !.stream = IF offer = NoOffer THEN "real" ELSE "placeholder"]]
    <2>o. offer \in Offers \cup {NoOffer}
        BY <1>3 DEF Parses
    <2> DEFINE r == [task[t] EXCEPT !.step = "describing", !.offer = offer]
               c == [NoPc EXCEPT !.state = "new",
                                 !.role = IF offer = NoOffer THEN "offer" ELSE "answer",
                                 !.stream = IF offer = NoOffer THEN "real" ELSE "placeholder"]
    <2>1. r \in RtcTasks /\ r.got = Nobody /\ r.step = "describing"
        BY <1>t, <1>i, <2>o
    <2>2. c \in Connections /\ ~c.described /\ ~c.open
      <3> DEFINE role == IF offer = NoOffer THEN "offer" ELSE "answer"
                 stream == IF offer = NoOffer THEN "real" ELSE "placeholder"
      <3>1. role \in {"offer", "answer"} /\ stream \in {"real", "placeholder"}
          OBVIOUS
      <3>2. NoPc \in Connections /\ ~NoPc.described /\ ~NoPc.open
          BY WebRtcConstants DEF NoPc, Connections
      <3>3. c = [NoPc EXCEPT !.state = "new", !.role = role, !.stream = stream]
          OBVIOUS
      <3> HIDE DEF role, stream, c
      <3> QED  BY <3>1, <3>2, <3>3 DEF Connections
    <2>3. task' = [task EXCEPT ![t] = r] /\ pc' = [pc EXCEPT ![t] = c]
        BY <1>3, <1>t
    <2> HIDE DEF r, c
    <2>4. RtcTypes'
        BY <1>u, <2>1, <2>2, <2>3 DEF RtcInv, RtcTypes
    <2>5. \A u \in Tasks : u # t => task'[u] = task[u] /\ pc'[u] = pc[u] /\ Key(u)' = Key(u)
        BY <1>t, <2>3 DEF Key
    <2>5t. task'[t] = r /\ pc'[t] = c
        BY <1>t, <2>3
    <2>6. SessionsInv'
        BY <1>u, <2>5, <1>r DEF RtcInv, SessionsInv
    <2>7. StreamIsToPeer'
      <3> SUFFICES ASSUME NEW u \in Tasks, task'[u].got # Nobody
                   PROVE  /\ task'[u].got # u => /\ task'[u].offer # NoOffer
                                                 /\ task'[task'[u].got].offer = task'[u].offer
                          /\ pc'[task'[u].got].described
          BY DEF StreamIsToPeer
      <3>1. u # t
          BY <2>1, <2>5t
      <3>2. task'[u] = task[u] /\ task[u].got \in Tasks /\ task[u].got # t
          BY <3>1, <2>5, <1>t, <1>r
      <3> QED  BY <3>2, <2>5 DEF RtcInv, StreamIsToPeer
    <2>8. \A u \in Tasks : CallsAreOrdered(u)' /\ OpensOnReal(pc'[u])
      <3> SUFFICES ASSUME NEW u \in Tasks PROVE CallsAreOrdered(u)' /\ OpensOnReal(pc'[u])
          OBVIOUS
      <3>1. CallsAreOrdered(u) /\ OpensOnReal(pc[u])
          BY DEF RtcInv
      <3>2. CASE u = t
          BY <3>1, <3>2, <1>i, <1>u, <2>1, <2>2, <2>5t DEF CallsAreOrdered, OpensOnReal
      <3>3. CASE u # t
          BY <3>1, <3>3, <1>u, <2>5 DEF CallsAreOrdered
      <3> QED  BY <3>2, <3>3
    <2> QED  BY <2>4, <2>6, <2>7, <2>8 DEF RtcInv
  <1> QED  BY <1>1, <1>2, <1>3 DEF New

(* A step of a call of new: it goes on to another step, and its own        *)
(* connection may change, but not lose its description.                    *)
LEMMA GoesOnStep ==
    ASSUME RtcInv, NEW t \in Tasks, NEW r \in RtcTasks, NEW c \in Connections,
           task' = [task EXCEPT ![t] = r], pc' = [pc EXCEPT ![t] = c],
           r.offer = task[t].offer, task[t].got = Nobody, task[t].step # "idle",
           r.step # "idle", r.step \in {"inserting", "closing"} => c.described,
           r.step = "done" <=> r.got # Nobody, task[t].step # "done",
           r.got \notin {Nobody, t} =>
               /\ r.offer # NoOffer /\ task[r.got].offer = r.offer /\ pc[r.got].described,
           r.got = t => c.described,
           pc[t].described => c.described, OpensOnReal(c),
           holder' \in Tasks \cup {Nobody},
           \A k \in DOMAIN sessions' :
               \/ k \in DOMAIN sessions /\ sessions'[k] = sessions[k]
               \/ k = Key(t) /\ sessions'[k] = t /\ c.described,
           UNCHANGED <<inline, op>>
    PROVE  RtcInv'
  <1>t. task \in [Tasks -> RtcTasks] /\ pc \in [Tasks -> Connections]
        /\ op \in [Tasks -> StreamCalls]
      BY DEF RtcInv, RtcTypes
  <1>1. RtcTypes'
      BY DEF RtcInv, RtcTypes
  <1>2. \A u \in Tasks : u # t => task'[u] = task[u] /\ pc'[u] = pc[u]
      BY <1>t
  <1>3. task'[t] = r /\ pc'[t] = c
      BY <1>t
  <1>4. \A u \in Tasks : /\ task'[u].offer = task[u].offer /\ Key(u)' = Key(u)
                         /\ pc[u].described => pc'[u].described
    <2> SUFFICES ASSUME NEW u \in Tasks
                 PROVE  /\ task'[u].offer = task[u].offer /\ Key(u)' = Key(u)
                        /\ pc[u].described => pc'[u].described
        OBVIOUS
    <2>1. CASE u = t
        BY <2>1, <1>3 DEF Key
    <2>2. CASE u # t
        BY <2>2, <1>2 DEF Key
    <2> QED  BY <2>1, <2>2
  <1>5. SessionsInv'
    <2> SUFFICES ASSUME NEW k \in DOMAIN sessions'
                 PROVE  sessions'[k] \in Tasks /\ pc'[sessions'[k]].described
                        /\ (Key(sessions[k]))' = k
        BY DEF SessionsInv
    <2>1. CASE k \in DOMAIN sessions /\ sessions'[k] = sessions[k]
      <3>1. sessions[k] \in Tasks /\ pc[sessions[k]].described /\ Key(sessions[k]) = k
          BY <2>1 DEF RtcInv, SessionsInv
      <3> QED  BY <2>1, <3>1, <1>4 DEF Key
    <2>2. CASE k = Key(t) /\ sessions'[k] = t /\ c.described
        BY <2>2, <1>3, <1>4 DEF Key
    <2> QED  BY <2>1, <2>2
  <1>6. StreamIsToPeer'
    <2> SUFFICES ASSUME NEW u \in Tasks, task'[u].got # Nobody
                 PROVE  /\ task'[u].got # u => /\ task'[u].offer # NoOffer
                                               /\ task'[task'[u].got].offer = task'[u].offer
                        /\ pc'[task'[u].got].described
        BY DEF StreamIsToPeer
    <2>1. CASE u = t
      <3>1. r.got \in Tasks /\ task'[u] = r
          BY <2>1, <1>3 DEF RtcTasks
      <3>2. CASE r.got = t
          BY <2>1, <3>1, <3>2, <1>3
      <3>3. CASE r.got # t
          BY <2>1, <3>1, <3>3, <1>4
      <3> QED  BY <3>2, <3>3
    <2>2. CASE u # t
      <3>1. task'[u] = task[u] /\ task[u].got \in Tasks
          BY <2>2, <1>2, <1>t DEF RtcTasks
      <3> QED  BY <3>1, <1>4 DEF RtcInv, StreamIsToPeer
    <2> QED  BY <2>1, <2>2
  <1>7. \A u \in Tasks : CallsAreOrdered(u)' /\ OpensOnReal(pc'[u])
    <2> SUFFICES ASSUME NEW u \in Tasks PROVE CallsAreOrdered(u)' /\ OpensOnReal(pc'[u])
        OBVIOUS
    <2>1. CallsAreOrdered(u) /\ OpensOnReal(pc[u])
        BY DEF RtcInv
    <2>2. CASE u = t
      <3>1. op'[t].step \notin {"waiting", "woken"}
          BY <2>1, <2>2 DEF CallsAreOrdered
      <3> QED  BY <2>2, <3>1, <1>3 DEF CallsAreOrdered
    <2>3. CASE u # t
        BY <2>1, <2>3, <1>2 DEF CallsAreOrdered
    <2> QED  BY <2>2, <2>3
  <1> QED  BY <1>1, <1>5, <1>6, <1>7 DEF RtcInv

LEMMA DescribeKeeps ==
    ASSUME RtcInv, NEW t \in Tasks, Describe(t)
    PROVE  RtcInv'
  <1>t. task[t] \in RtcTasks /\ task \in [Tasks -> RtcTasks] /\ pc \in [Tasks -> Connections]
        /\ pc[t] \in Connections /\ OpensOnReal(pc[t])
      BY DEF RtcInv, RtcTypes
  <1>n. task[t].got = Nobody /\ task[t].step = "describing"
      BY <1>t DEF RtcInv, CallsAreOrdered, Describe
  <1>u. UNCHANGED <<inline, sessions, holder, op>> /\ holder' \in Tasks \cup {Nobody}
      BY DEF Describe, RtcInv, RtcTypes
  <1>1. CASE /\ task' = [task EXCEPT ![t].step = "inserting"]
             /\ pc' = [pc EXCEPT ![t].described = TRUE, ![t].remote = (pc[t].role = "answer")]
    <2> DEFINE r == [task[t] EXCEPT !.step = "inserting"]
               c == [pc[t] EXCEPT !.described = TRUE, !.remote = (pc[t].role = "answer")]
    <2>1. r \in RtcTasks /\ r.step = "inserting" /\ r.offer = task[t].offer /\ r.got = Nobody
        BY <1>t, <1>n DEF RtcTasks
    <2>2. c \in Connections /\ c.described /\ OpensOnReal(c)
        BY <1>t DEF Connections, OpensOnReal
    <2>3. task' = [task EXCEPT ![t] = r] /\ pc' = [pc EXCEPT ![t] = c]
        BY <1>1, <1>t DEF RtcTasks, Connections
    <2>4. t # Nobody
        BY WebRtcConstants DEF Nobody
    <2> HIDE DEF r, c
    <2> QED  BY <1>n, <1>u, <2>1, <2>2, <2>3, <2>4, GoesOnStep
  <1>2. CASE task' = [task EXCEPT ![t].step = "failed"] /\ pc' = pc
    <2> DEFINE r == [task[t] EXCEPT !.step = "failed"]
    <2>1. r \in RtcTasks /\ r.step = "failed" /\ r.offer = task[t].offer /\ r.got = Nobody
        BY <1>t, <1>n DEF RtcTasks
    <2>3. task' = [task EXCEPT ![t] = r] /\ pc' = [pc EXCEPT ![t] = pc[t]]
        BY <1>2, <1>t DEF RtcTasks
    <2>4. t # Nobody
        BY WebRtcConstants DEF Nobody
    <2> HIDE DEF r
    <2> QED  BY <1>t, <1>n, <1>u, <2>1, <2>3, <2>4, GoesOnStep
  <1> QED  BY <1>1, <1>2, <1>u DEF Describe

LEMMA InsertKeeps ==
    ASSUME RtcInv, NEW t \in Tasks, Insert(t)
    PROVE  RtcInv'
  <1>t. task[t] \in RtcTasks /\ task \in [Tasks -> RtcTasks] /\ pc \in [Tasks -> Connections]
        /\ pc[t] \in Connections /\ OpensOnReal(pc[t])
      BY DEF RtcInv, RtcTypes
  <1>n. task[t].got = Nobody /\ task[t].step = "inserting" /\ pc[t].described
      BY <1>t DEF RtcInv, CallsAreOrdered, Insert
  <1>m. t # Nobody /\ \A u \in Tasks : u # Nobody
      BY WebRtcConstants DEF Nobody
  <1>u. UNCHANGED <<inline, op>>
      BY DEF Insert
  <1>h. holder \in Tasks \cup {Nobody} /\ t \in Tasks \cup {Nobody}
      BY DEF RtcInv, RtcTypes
  <1>1. CASE Cached(Key(t))
    <2>0. sessions' = sessions /\ pc' = [pc EXCEPT ![t] = Close(pc[t])]
        BY <1>1, <1>t DEF Insert
    <2>1. Close(pc[t]) \in Connections /\ Close(pc[t]).described /\ OpensOnReal(Close(pc[t]))
        BY <1>t, <1>n, CloseOfKeeps
    <2> DEFINE c == Close(pc[t])
    <2>2. CASE holder' = t /\ task' = [task EXCEPT ![t].step = "closing"]
      <3> DEFINE r == [task[t] EXCEPT !.step = "closing"]
      <3>1. r \in RtcTasks /\ r.step = "closing" /\ r.offer = task[t].offer /\ r.got = Nobody
          BY <1>t, <1>n DEF RtcTasks
      <3>2. task' = [task EXCEPT ![t] = r]
          BY <2>2, <1>t DEF RtcTasks
      <3> HIDE DEF r, c
      <3> QED  BY <1>n, <1>m, <1>u, <1>h, <2>0, <2>1, <2>2, <3>1, <3>2, GoesOnStep DEF c
    <2>3. CASE /\ holder' = holder
               /\ task' = [task EXCEPT ![t].step = "done", ![t].got = sessions[Key(t)]]
      <3> DEFINE p == sessions[Key(t)]
                 r == [task[t] EXCEPT !.step = "done", !.got = p]
      <3>1. p \in Tasks /\ pc[p].described /\ Key(p) = Key(t)
          BY <1>1 DEF RtcInv, SessionsInv, Cached
      <3>2. r \in RtcTasks /\ r.step = "done" /\ r.offer = task[t].offer /\ r.got = p
          BY <1>t, <1>n, <3>1 DEF RtcTasks
      <3>3. task' = [task EXCEPT ![t] = r]
          BY <2>3, <1>t DEF RtcTasks
      (* Two tasks with one key answer one offer. *)
      <3>4. p # t => task[t].offer # NoOffer /\ task[p].offer = task[t].offer
        <4>1. task[p].offer \in Offers \cup {NoOffer} /\ task[t].offer \in Offers \cup {NoOffer}
            BY <1>t, <3>1 DEF RtcTasks
        <4> QED  BY <4>1, <3>1, WebRtcConstants DEF Key
      <3> HIDE DEF r, p, c
      <3> QED  BY <1>n, <1>m, <1>u, <1>h, <2>0, <2>1, <2>3, <3>1, <3>2, <3>3, <3>4, GoesOnStep
               DEF c
    <2> QED  BY <1>1, <2>2, <2>3 DEF Insert
  <1>2. CASE ~Cached(Key(t))
    <2> DEFINE r == [task[t] EXCEPT !.step = "done", !.got = t]
    <2>1. /\ sessions' = With(sessions, Key(t), t) /\ pc' = pc /\ holder' = holder
          /\ task' = [task EXCEPT ![t].step = "done", ![t].got = t]
        BY <1>2 DEF Insert
    <2>2. r \in RtcTasks /\ r.step = "done" /\ r.offer = task[t].offer /\ r.got = t
        BY <1>t, <1>n DEF RtcTasks
    <2>3. task' = [task EXCEPT ![t] = r] /\ pc' = [pc EXCEPT ![t] = pc[t]]
        BY <2>1, <1>t DEF RtcTasks
    <2>4. \A k \in DOMAIN sessions' :
             \/ k \in DOMAIN sessions /\ sessions'[k] = sessions[k]
             \/ k = Key(t) /\ sessions'[k] = t /\ pc[t].described
        BY <2>1, <1>n DEF With
    <2> HIDE DEF r
    <2> QED  BY <1>t, <1>n, <1>m, <1>u, <1>h, <2>1, <2>2, <2>3, <2>4, GoesOnStep
  <1> QED  BY <1>1, <1>2

LEMMA CrateKeeps ==
    ASSUME RtcInv, NEW t \in Tasks,
           SetRemote(t) \/ NetworkChange(t) \/ OnDataChannel(t) \/ OnOpen(t) \/ OnEnded(t)
    PROVE  RtcInv'
  <1>t. pc \in [Tasks -> Connections] /\ pc[t] \in Connections /\ OpensOnReal(pc[t])
      BY DEF RtcInv, RtcTypes
  <1>1. CASE SetRemote(t)
    <2> DEFINE p == task[t].got
               c == [pc[p] EXCEPT !.remote = TRUE]
    <2>1. p \in Tasks
        BY <1>1 DEF SetRemote, RtcInv, RtcTypes, RtcTasks, CallsAreOrdered
    <2>2. pc[p] \in Connections /\ OpensOnReal(pc[p])
        BY <2>1 DEF RtcInv, RtcTypes
    <2>3. c \in Connections /\ c.described = pc[p].described /\ OpensOnReal(c)
        BY <2>2 DEF Connections, OpensOnReal
    <2>4. pc' = [pc EXCEPT ![p] = c] /\ UNCHANGED <<inline, task, sessions, holder, op>>
        BY <1>1, <1>t, <2>1 DEF SetRemote
    <2> HIDE DEF p, c
    <2> QED  BY <2>1, <2>3, <2>4, ConnectionStep
  <1>2. CASE NetworkChange(t)
    <2>1. UNCHANGED <<inline, task, sessions, holder, op>>
        BY <1>2 DEF NetworkChange
    <2>2. CASE pc' = [pc EXCEPT ![t] = ChangedTo(@, "connected")]
      <3> DEFINE c == ChangedTo(pc[t], "connected")
      <3>1. c \in Connections /\ c.described = pc[t].described /\ OpensOnReal(c)
          BY <1>t, ChangedToKeeps DEF OpensOnReal, Ended
      <3>2. pc' = [pc EXCEPT ![t] = c]
          BY <2>2
      <3> HIDE DEF c
      <3> QED  BY <2>1, <3>1, <3>2, ConnectionStep
    <2>3. CASE pc[t].drops < MaxDrops /\ pc' = [pc EXCEPT ![t] = Lost(@)]
      <3> DEFINE d == ChangedTo(pc[t], "disconnected")
                 c == Lost(pc[t])
      <3>1. d \in Connections /\ d.described = pc[t].described /\ OpensOnReal(d)
          BY <1>t, ChangedToKeeps DEF Ended, OpensOnReal
      <3>2. pc[t].drops + 1 \in 0..MaxDrops
          BY <2>3, <1>t, WebRtcConstants DEF Connections
      <3>3. c = [d EXCEPT !.drops = pc[t].drops + 1]
          BY DEF Lost
      <3>4. pc' = [pc EXCEPT ![t] = c]
          BY <2>3
      <3> HIDE DEF c, d
      <3>5. c \in Connections /\ c.described = d.described /\ OpensOnReal(c)
          BY <3>1, <3>2, <3>3 DEF Connections, OpensOnReal
      <3> QED  BY <2>1, <3>1, <3>4, <3>5, ConnectionStep
    <2>4. CASE pc' = [pc EXCEPT ![t] = ChangedTo(@, "failed")]
      <3> DEFINE c == ChangedTo(pc[t], "failed")
      <3>1. c \in Connections /\ c.described = pc[t].described /\ OpensOnReal(c)
          BY <1>t, ChangedToKeeps DEF OpensOnReal, Ended
      <3>2. pc' = [pc EXCEPT ![t] = c]
          BY <2>4
      <3> HIDE DEF c
      <3> QED  BY <2>1, <3>1, <3>2, ConnectionStep
    <2> QED  BY <1>2, <2>2, <2>3, <2>4 DEF NetworkChange
  <1>3. CASE OnDataChannel(t)
    <2> DEFINE c == [pc[t] EXCEPT !.stream = "real"]
    <2>1. c \in Connections /\ c.described = pc[t].described /\ OpensOnReal(c)
        BY <1>t DEF Connections, OpensOnReal
    <2>2. pc' = [pc EXCEPT ![t] = c] /\ UNCHANGED <<inline, task, sessions, holder, op>>
        BY <1>3, <1>t DEF OnDataChannel
    <2> HIDE DEF c
    <2> QED  BY <2>1, <2>2, ConnectionStep
  <1>4. CASE OnOpen(t)
    <2> DEFINE c == [pc[t] EXCEPT !.open = TRUE, !.notified = TRUE]
    <2>1. c \in Connections /\ c.described = pc[t].described /\ OpensOnReal(c)
        BY <1>4, <1>t DEF Connections, OpensOnReal, OnOpen
    <2>2. pc' = [pc EXCEPT ![t] = c] /\ UNCHANGED <<inline, task, sessions, holder, op>>
        BY <1>4, <1>t DEF OnOpen
    <2> HIDE DEF c
    <2> QED  BY <2>1, <2>2, ConnectionStep
  <1>5. CASE OnEnded(t)
    <2> DEFINE s == IF pc[t].stream = "real" THEN "closed" ELSE pc[t].stream
               c == [pc[t] EXCEPT !.notified = TRUE, !.stream = s, !.handler = "cleaning"]
    <2>1. c \in Connections /\ c.described = pc[t].described /\ OpensOnReal(c)
        BY <1>t DEF Connections, OpensOnReal
    <2>2. pc' = [pc EXCEPT ![t] = c] /\ UNCHANGED <<inline, task, sessions, holder, op>>
        BY <1>5, <1>t DEF OnEnded
    <2> HIDE DEF c
    <2> QED  BY <2>1, <2>2, ConnectionStep
  <1> QED  BY <1>1, <1>2, <1>3, <1>4, <1>5

LEMMA OnEndedCleansKeeps ==
    ASSUME RtcInv, NEW t \in Tasks, OnEndedCleans(t)
    PROVE  RtcInv'
  <1>t. pc \in [Tasks -> Connections] /\ pc[t] \in Connections /\ OpensOnReal(pc[t])
      BY DEF RtcInv, RtcTypes
  <1> DEFINE c == [pc[t] EXCEPT !.handler = "idle"]
  <1>1. c \in Connections /\ c.described = pc[t].described /\ OpensOnReal(c)
      BY <1>t DEF Connections, OpensOnReal
  <1>2. pc' = [pc EXCEPT ![t] = c] /\ UNCHANGED <<inline, task, holder, op>>
      BY <1>t DEF OnEndedCleans
  <1> HIDE DEF c
  <1>3. pc' \in [Tasks -> Connections]
      BY <1>t, <1>1, <1>2
  <1>4. \A u \in Tasks : pc'[u].described = pc[u].described /\ OpensOnReal(pc'[u])
      BY <1>t, <1>1, <1>2 DEF RtcInv
  <1>5. op' \in [Tasks -> StreamCalls]
      BY <1>2 DEF RtcInv, RtcTypes
  <1>6. \A u \in Tasks : op'[u].step \in {"waiting", "woken"} => task[u].step = "done"
      BY <1>2 DEF RtcInv, CallsAreOrdered
  <1>7. \A k \in DOMAIN sessions' : k \in DOMAIN sessions /\ sessions'[k] = sessions[k]
      BY DEF OnEndedCleans, Without
  <1> QED  BY <1>2, <1>3, <1>4, <1>5, <1>6, <1>7, UseStep

LEMMA UserKeeps ==
    ASSUME RtcInv, NEW t \in Tasks,
           (\E kind \in {"send", "read"} : Call(t, kind)) \/ Wake(t) \/ Use(t) \/ SendTimesOut(t)
    PROVE  RtcInv'
  <1>t. pc \in [Tasks -> Connections] /\ op \in [Tasks -> StreamCalls] /\ op[t] \in StreamCalls
        /\ CallsAreOrdered(t)
      BY DEF RtcInv, RtcTypes
  <1>1. ASSUME NEW kind \in {"send", "read"}, Call(t, kind) PROVE RtcInv'
    <2> DEFINE r == [step |-> "waiting", kind |-> kind, count |-> op[t].count + 1]
    <2>1. r \in StreamCalls
        BY <1>t DEF StreamCalls
    <2>2. /\ op' = [op EXCEPT ![t] = r] /\ task[t].step = "done"
          /\ UNCHANGED <<inline, task, pc, sessions, holder>>
        BY <1>1, <1>t DEF Call
    <2> HIDE DEF r
    <2> QED  BY <2>1, <2>2, CallStep
  <1>2. CASE Wake(t)
    <2> DEFINE r == [op[t] EXCEPT !.step = "woken"]
    <2>1. r \in StreamCalls /\ task[t].step = "done"
        BY <1>2, <1>t DEF StreamCalls, Wake, CallsAreOrdered
    <2>2. op' = [op EXCEPT ![t] = r] /\ UNCHANGED <<inline, task, pc, sessions, holder>>
        BY <1>2, <1>t DEF Wake
    <2> HIDE DEF r
    <2> QED  BY <2>1, <2>2, CallStep
  <1>p. ASSUME task[t].step = "done"
        PROVE  /\ task[t].got \in Tasks /\ pc[task[t].got] \in Connections
               /\ OpensOnReal(pc[task[t].got])
    <2>1. task[t].got \in Tasks
        BY <1>p, <1>t DEF RtcInv, RtcTypes, RtcTasks, CallsAreOrdered
    <2> QED  BY <2>1 DEF RtcInv, RtcTypes
  <1>3. CASE Use(t)
    <2> DEFINE p == task[t].got
    <2>1. p \in Tasks /\ pc[p] \in Connections /\ OpensOnReal(pc[p]) /\ task[t].step = "done"
        BY <1>3, <1>t, <1>p DEF Use, CallsAreOrdered
    <2>2. UNCHANGED <<inline, task, sessions, holder>>
        BY <1>3 DEF Use
    <2>3. CASE op' = [op EXCEPT ![t].step = "ok"] /\ UNCHANGED pc
      <3> DEFINE r == [op[t] EXCEPT !.step = "ok"]
      <3>1. r \in StreamCalls /\ op' = [op EXCEPT ![t] = r]
          BY <2>3, <1>t DEF StreamCalls
      <3> HIDE DEF r, p
      <3> QED  BY <2>1, <2>2, <2>3, <3>1, CallStep
    <2>4. CASE op' = [op EXCEPT ![t].step = "failed"]
               /\ (UNCHANGED pc \/ pc' = [pc EXCEPT ![p] = Close(@)])
      <3> DEFINE r == [op[t] EXCEPT !.step = "failed"]
      <3>1. r \in StreamCalls /\ op' = [op EXCEPT ![t] = r] /\ r.step = "failed"
          BY <2>4, <1>t DEF StreamCalls
      <3> HIDE DEF r
      <3>2. CASE UNCHANGED pc
          BY <2>1, <2>2, <3>1, <3>2, CallStep
      <3>3. CASE pc' = [pc EXCEPT ![p] = Close(@)]
        <4>1. /\ Close(pc[p]) \in Connections /\ OpensOnReal(Close(pc[p]))
              /\ Close(pc[p]).described = pc[p].described
            BY <2>1, CloseOfKeeps
        <4>2. pc' = [pc EXCEPT ![p] = Close(pc[p])]
            BY <3>3
        <4> HIDE DEF p
        <4> QED  BY <2>1, <2>2, <3>1, <4>1, <4>2, LastUseStep
      <3> QED  BY <2>4, <3>2, <3>3
    <2>5. ~(pc[p].stream = "placeholder" /\ pc[p].open)
        BY <2>1 DEF OpensOnReal
    <2> QED  BY <1>3, <2>3, <2>4, <2>5 DEF Use
  <1>4. CASE SendTimesOut(t)
    <2> DEFINE p == task[t].got
               r == [op[t] EXCEPT !.step = "failed"]
    <2>1. p \in Tasks /\ pc[p] \in Connections /\ OpensOnReal(pc[p])
        BY <1>4, <1>t, <1>p DEF SendTimesOut, CallsAreOrdered
    <2>2. r \in StreamCalls /\ op' = [op EXCEPT ![t] = r] /\ r.step = "failed"
        BY <1>4, <1>t DEF StreamCalls, SendTimesOut
    <2>3. /\ Close(pc[p]) \in Connections /\ OpensOnReal(Close(pc[p]))
          /\ Close(pc[p]).described = pc[p].described
        BY <2>1, CloseOfKeeps
    <2>4. pc' = [pc EXCEPT ![p] = Close(pc[p])] /\ UNCHANGED <<inline, task, sessions, holder>>
        BY <1>4 DEF SendTimesOut
    <2> HIDE DEF p, r
    <2> QED  BY <2>1, <2>2, <2>3, <2>4, LastUseStep
  <1> QED  BY <1>1, <1>2, <1>3, <1>4

LEMMA RtcStep == RtcInv /\ [RtcNext]_rtcVars => RtcInv'
  <1> SUFFICES ASSUME RtcInv, [RtcNext]_rtcVars PROVE RtcInv'
      OBVIOUS
  <1>1. CASE UNCHANGED rtcVars
      BY <1>1 DEF rtcVars, RtcInv, RtcTypes, SessionsInv, StreamIsToPeer, CallsAreOrdered, Key
  <1>2. ASSUME NEW t \in Tasks, NEW offer \in Offers \cup {NoOffer, Garbled}, New(t, offer)
        PROVE  RtcInv'
      BY <1>2, NewKeeps
  <1>3. ASSUME NEW t \in Tasks, Describe(t) PROVE RtcInv'
      BY <1>3, DescribeKeeps
  <1>4. ASSUME NEW t \in Tasks, Insert(t) PROVE RtcInv'
      BY <1>4, InsertKeeps
  <1>5. ASSUME NEW t \in Tasks,
               SetRemote(t) \/ NetworkChange(t) \/ OnDataChannel(t) \/ OnOpen(t) \/ OnEnded(t)
        PROVE  RtcInv'
      BY <1>5, CrateKeeps
  <1>6. ASSUME NEW t \in Tasks, OnEndedCleans(t) PROVE RtcInv'
      BY <1>6, OnEndedCleansKeeps
  <1>7. ASSUME NEW t \in Tasks,
               \/ \E kind \in {"send", "read"} : Call(t, kind)
               \/ Wake(t) \/ Use(t) \/ SendTimesOut(t)
        PROVE  RtcInv'
      BY <1>7, UserKeeps
  <1> QED  BY <1>1, <1>2, <1>3, <1>4, <1>5, <1>6, <1>7 DEF RtcNext

-----------------------------------------------------------------------------
(* A byte stream cut anywhere gives back the frames that were sent, also   *)
(* behind a send that timed out half flushed, and payload is never taken   *)
(* for a header (bytes_codec.rs, encode, decode; tcp.rs); a WebRTC stream  *)
(* is to the peer whose offer it answers and is used only on its real      *)
(* channel, whichever call won the race for the cache (webrtc.rs, new,     *)
(* send_bytes, next): for every set of lengths and every limit, and for    *)
(* every set of tasks and of offers.                                       *)
THEOREM StreamsTheorem == Spec => []StreamsAreExact
  <1>1. Init => FramingInv /\ RtcInv
      BY FramingInitInv, RtcInitInv DEF Init
  <1>2. ASSUME FramingInv /\ RtcInv,
               [Next]_<<part, framingVars, rtcVars, tlsVars, transferVars, configVars>>
        PROVE  (FramingInv /\ RtcInv)'
    <2>1. [FramingNext]_framingVars /\ [RtcNext]_rtcVars
        BY <1>2 DEF Next
    <2> QED  BY <2>1, <1>2, FramingStep, RtcStep
  <1>3. FramingInv /\ RtcInv => StreamsAreExact
      BY FramingInvImplies, RtcInvImplies DEF StreamsAreExact
  <1> QED  BY <1>1, <1>2, <1>3, PTL DEF Spec
=============================================================================
