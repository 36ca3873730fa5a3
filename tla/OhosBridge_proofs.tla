------------------------- MODULE OhosBridge_proofs -------------------------
(***************************************************************************)
(* The registries of the bridges, first that of the native owners, for     *)
(* every number of surfaces, sessions, hosts and permits: a surface has    *)
(* one decoder, the gates count what lives, and the bridge implements      *)
(* SurfaceOwnership.  Then those of the sessions, for every number of      *)
(* names, viewers, calls and threads: no backend is left running behind a  *)
(* frontend that cannot reach it, and a poll asks for the password the     *)
(* login waits for.  The two share no variable.                            *)
(***************************************************************************)
EXTENDS OhosBridge, MCFrontends, FiniteSetTheorems, FunctionTheorems, TLAPS

HeldBy(kind) == {n \in DOMAIN entries : entries[n].kind = kind /\ Holding(n)}

QuarantinedBy(kind) == {n \in HeldBy(kind) : entries[n].native = "quarantined"}

(* One viewer entry per surface and one host: what registration checks     *)
(* stays true, because an entry leaves its registry only for good.         *)
RegistryInv ==
    \A m, n \in DOMAIN entries :
        (/\ m # n /\ entries[m].registered /\ entries[n].registered
         /\ entries[m].kind = entries[n].kind)
        => entries[m].kind = "viewer" /\ entries[m].surface # entries[n].surface

(* An owner that is done holds nothing but what it quarantined; only one   *)
(* that is done without quarantine leaves its registry.                    *)
OwnerInv ==
    \A n \in DOMAIN entries :
        /\ entries[n].done => entries[n].native \notin {"reserved", "live"}
        /\ ~entries[n].registered =>
             entries[n].done /\ entries[n].native # "quarantined"

CountInv ==
    \A kind \in Kinds :
        /\ budget[kind].live = Cardinality(HeldBy(kind))
        /\ budget[kind].live <= (IF kind = "viewer" THEN MaxOwners ELSE MaxPublishers)
        /\ budget[kind].quarantined = Cardinality(QuarantinedBy(kind))

(* What is not a count.                                                    *)
ShapeInv ==
    /\ app \in [directory : Directories \cup {"none"}, id : BOOLEAN]
    /\ entries \in Seq(Entry) /\ Len(entries) <= MaxEntries
    /\ budget \in [Kinds -> [live : Nat, quarantined : Nat]]
    /\ RegistryInv /\ OwnerInv

BridgeInv == ShapeInv /\ CountInv

-----------------------------------------------------------------------------
(* The entries are finitely many, and so is what they hold.                *)
LEMMA HeldIsFinite ==
    ASSUME ShapeInv, NEW kind
    PROVE  /\ IsFiniteSet(HeldBy(kind)) /\ Cardinality(HeldBy(kind)) \in 0..MaxEntries
           /\ IsFiniteSet(QuarantinedBy(kind))
           /\ Cardinality(QuarantinedBy(kind)) \in 0..MaxEntries
  <1>1. Len(entries) \in Nat /\ DOMAIN entries = 1..Len(entries) /\ Len(entries) <= MaxEntries
      BY DEF ShapeInv
  <1>2. IsFiniteSet(1..Len(entries)) /\ Cardinality(1..Len(entries)) = Len(entries)
    <2>1. ASSUME NEW k \in Nat
          PROVE  IsFiniteSet(1..k) /\ Cardinality(1..k) = k
      <3>1. /\ 1 \in Int /\ k \in Int
            /\ (IF 1 > k THEN 0 ELSE k - 1 + 1) = k
          OBVIOUS
      <3>2. /\ IsFiniteSet(1..k)
            /\ Cardinality(1..k) = (IF 1 > k THEN 0 ELSE k - 1 + 1)
          BY <3>1, FS_Interval
      <3> QED  BY <3>1, <3>2
    <2> QED  BY <1>1, <2>1
  <1>3. HeldBy(kind) \subseteq 1..Len(entries) /\ QuarantinedBy(kind) \subseteq 1..Len(entries)
      BY <1>1 DEF HeldBy, QuarantinedBy
  <1>4. /\ IsFiniteSet(HeldBy(kind)) /\ Cardinality(HeldBy(kind)) <= Len(entries)
        /\ IsFiniteSet(QuarantinedBy(kind)) /\ Cardinality(QuarantinedBy(kind)) <= Len(entries)
    <2>1. ASSUME NEW S, S \subseteq 1..Len(entries)
          PROVE  IsFiniteSet(S) /\ Cardinality(S) <= Len(entries)
        BY <1>2, <2>1, FS_Subset
    <2> QED  BY <1>3, <2>1
  <1>5. Cardinality(HeldBy(kind)) \in Nat /\ Cardinality(QuarantinedBy(kind)) \in Nat
      BY <1>4, FS_CardinalityType
  <1> QED  BY <1>1, <1>4, <1>5, BridgeConstants

(* The invariant says what the runs check.                                 *)
LEMMA BridgeInvImplies == BridgeInv => OwnersAreExact
  <1> SUFFICES ASSUME BridgeInv PROVE OwnersAreExact
      OBVIOUS
  <1>1. BridgeTypeOK
    <2>1. \A kind \in Kinds : budget[kind] \in [live : 0..MaxEntries, quarantined : 0..MaxEntries]
        BY HeldIsFinite DEF BridgeInv, ShapeInv, CountInv
    <2> QED  BY <2>1 DEF BridgeInv, ShapeInv, BridgeTypeOK
  <1>2. NativesAreExclusive
      BY DEF BridgeInv, ShapeInv, RegistryInv, OwnerInv, NativesAreExclusive, Holding
  <1>3. OwnersAreCounted
      BY DEF BridgeInv, CountInv, OwnersAreCounted, HeldBy, QuarantinedBy
  <1> QED  BY <1>1, <1>2, <1>3 DEF OwnersAreExact

(* Replacing one entry.                                                    *)
LEMMA SetsFields ==
    ASSUME entries \in Seq(Entry), NEW n \in DOMAIN entries, NEW e \in Entry, Sets(n, e)
    PROVE  /\ entries' \in Seq(Entry) /\ Len(entries') = Len(entries)
           /\ DOMAIN entries' = DOMAIN entries
           /\ entries'[n] = e
           /\ \A m \in DOMAIN entries : m # n => entries'[m] = entries[m]
  BY DEF Sets

(* A step that replaces an entry by one of the same kind and surface, as   *)
(* registered as before or less, keeps the shape.                          *)
LEMMA SetsKeepsShape ==
    ASSUME ShapeInv, NEW n \in DOMAIN entries, NEW e \in Entry, Sets(n, e), UNCHANGED app,
           budget' \in [Kinds -> [live : Nat, quarantined : Nat]],
           e.kind = entries[n].kind, e.surface = entries[n].surface,
           e.registered => entries[n].registered,
           e.done => e.native \notin {"reserved", "live"},
           ~e.registered => e.done /\ e.native # "quarantined"
    PROVE  ShapeInv'
  <1>1. /\ entries' \in Seq(Entry) /\ Len(entries') = Len(entries)
        /\ DOMAIN entries' = DOMAIN entries /\ entries'[n] = e
        /\ \A m \in DOMAIN entries : m # n => entries'[m] = entries[m]
      BY SetsFields DEF ShapeInv
  <1>2. RegistryInv'
    <2> SUFFICES ASSUME NEW m \in DOMAIN entries, NEW k \in DOMAIN entries, m # k,
                        entries'[m].registered, entries'[k].registered,
                        entries'[m].kind = entries'[k].kind
                 PROVE  entries'[m].kind = "viewer"
                        /\ entries'[m].surface # entries'[k].surface
        BY <1>1 DEF RegistryInv
    <2>1. ASSUME NEW j \in DOMAIN entries
          PROVE  /\ entries'[j].kind = entries[j].kind
                 /\ entries'[j].surface = entries[j].surface
                 /\ entries'[j].registered => entries[j].registered
        BY <1>1
    <2> QED  BY <2>1 DEF ShapeInv, RegistryInv
  <1>3. OwnerInv'
      BY <1>1 DEF ShapeInv, OwnerInv
  <1> QED  BY <1>1, <1>2, <1>3 DEF ShapeInv

(* When no native object came or went the counts stand.                    *)
LEMMA SetsKeepsCount ==
    ASSUME BridgeInv, NEW n \in DOMAIN entries, NEW e \in Entry, Sets(n, e), UNCHANGED budget,
           e.kind = entries[n].kind,
           (e.native \in {"reserved", "live", "quarantined"}) = Holding(n),
           (e.native = "quarantined") = (entries[n].native = "quarantined")
    PROVE  CountInv' /\ \A kind : HeldBy(kind)' = HeldBy(kind)
                                  /\ QuarantinedBy(kind)' = QuarantinedBy(kind)
  <1>1. /\ DOMAIN entries' = DOMAIN entries /\ entries'[n] = e
        /\ \A m \in DOMAIN entries : m # n => entries'[m] = entries[m]
      BY SetsFields DEF BridgeInv, ShapeInv
  <1>2. ASSUME NEW kind PROVE HeldBy(kind)' = HeldBy(kind)
      BY <1>1 DEF HeldBy, Holding
  <1>3. ASSUME NEW kind PROVE QuarantinedBy(kind)' = QuarantinedBy(kind)
      BY <1>1, <1>2 DEF QuarantinedBy, HeldBy, Holding
  <1> QED  BY <1>2, <1>3 DEF BridgeInv, CountInv

-----------------------------------------------------------------------------
(* The steps, by what they do to the counts.                               *)

(* A step that gives or takes no native object.                            *)
LEMMA QuietStep ==
    ASSUME BridgeInv, NEW n \in DOMAIN entries, NEW e \in Entry, Sets(n, e),
           UNCHANGED <<app, budget>>,
           e.kind = entries[n].kind, e.surface = entries[n].surface,
           e.registered => entries[n].registered,
           e.done => e.native \notin {"reserved", "live"},
           ~e.registered => e.done /\ e.native # "quarantined",
           (e.native \in {"reserved", "live", "quarantined"}) = Holding(n),
           (e.native = "quarantined") = (entries[n].native = "quarantined")
    PROVE  BridgeInv'
  <1>1. budget' \in [Kinds -> [live : Nat, quarantined : Nat]]
      BY DEF BridgeInv, ShapeInv
  <1>2. ShapeInv'
      BY <1>1, SetsKeepsShape DEF BridgeInv
  <1>3. CountInv'
      BY SetsKeepsCount
  <1> QED  BY <1>2, <1>3 DEF BridgeInv

(* A new entry holds nothing, and registration admitted it.                *)
LEMMA RegisterStep ==
    ASSUME BridgeInv, NEW kind \in Kinds, NEW s \in Surfaces, Register(kind, s),
           UNCHANGED <<app, budget>>, Len(entries) < MaxEntries,
           \A m \in Registered(kind) : kind = "viewer" /\ entries[m].surface # s
    PROVE  /\ BridgeInv'
           /\ \A k : HeldBy(k)' = HeldBy(k) /\ QuarantinedBy(k)' = QuarantinedBy(k)
           /\ \A m \in DOMAIN entries : entries'[m] = entries[m]
           /\ DOMAIN entries \subseteq DOMAIN entries'
           /\ \A m \in DOMAIN entries' \ DOMAIN entries : entries'[m].native = "none"
  <1> DEFINE e == [kind |-> kind, surface |-> s, registered |-> TRUE, closing |-> FALSE,
                   joining |-> FALSE, native |-> "none", done |-> FALSE]
             last == Len(entries) + 1
  <1>1. e \in Entry
      BY DEF Entry, Natives, Kinds
  <1>2. /\ e.kind = kind /\ e.surface = s /\ e.registered /\ e.native = "none" /\ ~e.done
      OBVIOUS
  <1>3. entries' = Append(entries, e)
      BY DEF Register
  <1> HIDE DEF e
  <1>4. entries \in Seq(Entry) /\ Len(entries) \in Nat /\ DOMAIN entries = 1..Len(entries)
      BY DEF BridgeInv, ShapeInv
  <1>5. /\ entries' \in Seq(Entry) /\ Len(entries') = last /\ DOMAIN entries' = 1..last
        /\ entries'[last] = e
        /\ \A m \in DOMAIN entries : m # last /\ entries'[m] = entries[m]
        /\ \A m \in DOMAIN entries' : m \in DOMAIN entries \/ m = last
        /\ DOMAIN entries \subseteq DOMAIN entries'
      BY <1>1, <1>3, <1>4
  <1> HIDE DEF last
  <1>6. ASSUME NEW k
        PROVE  HeldBy(k)' = HeldBy(k) /\ QuarantinedBy(k)' = QuarantinedBy(k)
    <2>1. HeldBy(k)' = HeldBy(k)
        BY <1>2, <1>5 DEF HeldBy, Holding
    <2> QED  BY <1>2, <1>5, <2>1 DEF QuarantinedBy, HeldBy
  <1>7. RegistryInv'
    <2> SUFFICES ASSUME NEW m \in DOMAIN entries', NEW k \in DOMAIN entries', m # k,
                        entries'[m].registered, entries'[k].registered,
                        entries'[m].kind = entries'[k].kind
                 PROVE  entries'[m].kind = "viewer"
                        /\ entries'[m].surface # entries'[k].surface
        BY DEF RegistryInv
    <2>1. CASE m \in DOMAIN entries /\ k \in DOMAIN entries
        BY <1>5, <2>1 DEF BridgeInv, ShapeInv, RegistryInv
    <2>2. CASE m = last /\ k \in DOMAIN entries
        BY <1>2, <1>5, <2>2 DEF Registered
    <2>3. CASE m \in DOMAIN entries /\ k = last
        BY <1>2, <1>5, <2>3 DEF Registered
    <2> QED  BY <1>5, <2>1, <2>2, <2>3
  <1>8. OwnerInv'
    <2> SUFFICES ASSUME NEW m \in DOMAIN entries'
                 PROVE  /\ entries'[m].done => entries'[m].native \notin {"reserved", "live"}
                        /\ ~entries'[m].registered =>
                             /\ entries'[m].done
                             /\ entries'[m].native # "quarantined"
        BY DEF OwnerInv
    <2>1. CASE m = last
        BY <1>2, <1>5, <2>1
    <2>2. CASE m \in DOMAIN entries
        BY <1>5, <2>2 DEF BridgeInv, ShapeInv, OwnerInv
    <2> QED  BY <1>5, <2>1, <2>2
  <1>9. ShapeInv'
    <2>1. Len(entries') <= MaxEntries
        BY <1>4, <1>5, BridgeConstants DEF last
    <2> QED  BY <1>5, <1>7, <1>8, <2>1 DEF BridgeInv, ShapeInv
  <1>10. CountInv'
      BY <1>6 DEF BridgeInv, CountInv
  <1> QED  BY <1>2, <1>5, <1>6, <1>9, <1>10 DEF BridgeInv

(* A permit is taken: the gate was open, and the entry held nothing.       *)
LEMMA AdmittedReserve ==
    ASSUME BridgeInv, NEW n \in DOMAIN entries, Unopened(n), ~entries[n].closing,
           NEW CONSTANT kind, kind = entries[n].kind, AdmittedKind(kind),
           Sets(n, [entries[n] EXCEPT !.native = "reserved"]),
           budget' = [budget EXCEPT ![kind].live = @ + 1],
           UNCHANGED app
    PROVE  BridgeInv'
  <1> DEFINE e == [entries[n] EXCEPT !.native = "reserved"]
  <1>1. entries[n] \in Entry /\ entries[n].done = FALSE
        /\ entries[n].native \in {"none", "gone"}
    <2>1. entries[n] \in Entry
        BY DEF BridgeInv, ShapeInv
    <2>2. entries[n].done \in BOOLEAN
        BY <2>1 DEF Entry
    <2> QED  BY <2>1, <2>2 DEF Unopened
  <1>2. /\ e \in Entry /\ e.native = "reserved" /\ e.kind = kind /\ ~e.done
        /\ e.surface = entries[n].surface /\ e.registered = entries[n].registered
      BY <1>1 DEF Entry, Natives
  <1>3. entries[n].registered
      BY <1>1 DEF BridgeInv, ShapeInv, OwnerInv
  <1>4. Sets(n, e)
      OBVIOUS
  <1>5. kind \in Kinds
      BY <1>1 DEF Entry
  <1> HIDE DEF e
  <1>6. /\ budget \in [Kinds -> [live : Nat, quarantined : Nat]]
        /\ budget[kind].live \in Nat
      BY <1>5 DEF BridgeInv, ShapeInv
  <1>7. /\ budget' \in [Kinds -> [live : Nat, quarantined : Nat]]
        /\ budget'[kind].live = budget[kind].live + 1
        /\ budget'[kind].quarantined = budget[kind].quarantined
        /\ \A k \in Kinds : k # kind => budget'[k] = budget[k]
      BY <1>5, <1>6
  <1>8. ShapeInv'
      BY <1>2, <1>3, <1>4, <1>7, SetsKeepsShape DEF BridgeInv
  <1>9. /\ DOMAIN entries' = DOMAIN entries /\ entries'[n] = e
        /\ \A m \in DOMAIN entries : m # n => entries'[m] = entries[m]
      BY <1>2, <1>4, SetsFields DEF BridgeInv, ShapeInv
  <1>10. /\ HeldBy(kind)' = HeldBy(kind) \cup {n} /\ n \notin HeldBy(kind)
         /\ QuarantinedBy(kind)' = QuarantinedBy(kind)
    <2>1. HeldBy(kind)' = HeldBy(kind) \cup {n} /\ n \notin HeldBy(kind)
        BY <1>1, <1>2, <1>9 DEF HeldBy, Holding
    <2>2. n \notin QuarantinedBy(kind) /\ e.native # "quarantined"
        BY <1>2, <2>1 DEF QuarantinedBy
    <2>3. \A m : m \in QuarantinedBy(kind)' <=> m \in QuarantinedBy(kind)
        BY <1>9, <2>1, <2>2 DEF QuarantinedBy, HeldBy
    <2> QED  BY <2>1, <2>3
  <1>11. ASSUME NEW k, k # kind
         PROVE  HeldBy(k)' = HeldBy(k) /\ QuarantinedBy(k)' = QuarantinedBy(k)
    <2>1. HeldBy(k)' = HeldBy(k) /\ n \notin HeldBy(k)
        BY <1>2, <1>9, <1>11 DEF HeldBy, Holding
    <2>2. \A m : m \in QuarantinedBy(k)' <=> m \in QuarantinedBy(k)
        BY <1>9, <2>1 DEF QuarantinedBy, HeldBy
    <2> QED  BY <2>1, <2>2
  <1>12. Cardinality(HeldBy(kind)') = Cardinality(HeldBy(kind)) + 1
    <2>1. IsFiniteSet(HeldBy(kind))
        BY HeldIsFinite DEF BridgeInv
    <2>2. Cardinality(HeldBy(kind) \cup {n}) = Cardinality(HeldBy(kind)) + 1
        BY <1>10, <2>1, FS_AddElement
    <2> QED  BY <1>10, <2>2
  <1>13. budget'[kind].live <= (IF kind = "viewer" THEN MaxOwners ELSE MaxPublishers)
    <2>1. budget[kind].live < (IF kind = "viewer" THEN MaxOwners ELSE MaxPublishers)
        BY <1>5 DEF AdmittedKind, CanReserve, CanPublish, Kinds
    <2> QED  BY <1>6, <1>7, <2>1, BridgeConstants
  <1>14. CountInv'
    <2> SUFFICES ASSUME NEW k \in Kinds
                 PROVE  /\ budget'[k].live = Cardinality(HeldBy(k)')
                        /\ budget'[k].live <= (IF k = "viewer" THEN MaxOwners ELSE MaxPublishers)
                        /\ budget'[k].quarantined = Cardinality(QuarantinedBy(k)')
        BY DEF CountInv
    <2>1. CASE k = kind
      <3>1. budget'[kind].quarantined = Cardinality(QuarantinedBy(kind)')
          BY <1>5, <1>7, <1>10 DEF BridgeInv, CountInv
      <3>2. budget'[kind].live = Cardinality(HeldBy(kind)')
          BY <1>5, <1>7, <1>12 DEF BridgeInv, CountInv
      <3> QED  BY <1>13, <2>1, <3>1, <3>2
    <2>2. CASE k # kind
        BY <1>7, <1>11, <2>2 DEF BridgeInv, CountInv
    <2> QED  BY <2>1, <2>2
  <1> QED  BY <1>8, <1>14 DEF BridgeInv

(* The owner ends: its native objects are gone with the permit, or in      *)
(* quarantine with it.                                                     *)
LEMMA ShutdownStep ==
    ASSUME BridgeInv, NEW n \in DOMAIN entries, entries[n].native \in {"reserved", "live"},
           NEW CONSTANT kind, kind = entries[n].kind,
           NEW end \in {"gone", "quarantined"}, NEW last \in BOOLEAN,
           end = "quarantined" => last,
           Sets(n, [entries[n] EXCEPT !.native = end, !.done = last]),
           budget' = [budget EXCEPT ![kind] =
                          IF end = "gone" THEN GivesBack(@) ELSE Quarantines(@)],
           UNCHANGED app
    PROVE  BridgeInv'
  <1> DEFINE e0 == [entries[n] EXCEPT !.native = end]
             e == [e0 EXCEPT !.done = last]
             b == IF end = "gone" THEN GivesBack(budget[kind]) ELSE Quarantines(budget[kind])
  <1>1. entries[n] \in Entry /\ entries[n].registered /\ kind \in Kinds
    <2>1. entries[n] \in Entry
        BY DEF BridgeInv, ShapeInv
    <2>2. entries[n].registered \in BOOLEAN /\ kind \in Kinds
        BY <2>1 DEF Entry
    <2>3. entries[n].done => FALSE
        BY DEF BridgeInv, ShapeInv, OwnerInv
    <2>4. ~entries[n].registered => entries[n].done
        BY DEF BridgeInv, ShapeInv, OwnerInv
    <2> QED  BY <2>1, <2>2, <2>3, <2>4
  <1>2. e0 \in Entry /\ e0.native = end /\ e0.kind = kind
        /\ e0.surface = entries[n].surface /\ e0.registered
      BY <1>1 DEF Entry, Natives
  <1>3. Sets(n, e)
      OBVIOUS
  <1> HIDE DEF e0
  <1>4. /\ e \in Entry /\ e.native = end /\ e.kind = kind
        /\ e.surface = entries[n].surface /\ e.registered
      BY <1>2 DEF Entry
  <1> HIDE DEF e
  <1>5. /\ HeldBy(kind) \in SUBSET DOMAIN entries /\ n \in HeldBy(kind)
        /\ n \notin QuarantinedBy(kind)
      BY DEF HeldBy, QuarantinedBy, Holding
  <1>6. /\ IsFiniteSet(HeldBy(kind)) /\ Cardinality(HeldBy(kind)) \in Nat
        /\ IsFiniteSet(QuarantinedBy(kind)) /\ Cardinality(QuarantinedBy(kind)) \in Nat
      BY HeldIsFinite, FS_CardinalityType DEF BridgeInv
  <1>7. /\ Cardinality(HeldBy(kind)) > 0
        /\ Cardinality(HeldBy(kind) \ {n}) = Cardinality(HeldBy(kind)) - 1
        /\ Cardinality(QuarantinedBy(kind) \cup {n}) = Cardinality(QuarantinedBy(kind)) + 1
    <2>1. Cardinality(HeldBy(kind) \ {n}) = Cardinality(HeldBy(kind)) - 1
        BY <1>5, <1>6, FS_RemoveElement
    <2>2. Cardinality(QuarantinedBy(kind) \cup {n}) = Cardinality(QuarantinedBy(kind)) + 1
        BY <1>5, <1>6, FS_AddElement
    <2>3. Cardinality(HeldBy(kind)) # 0
        BY <1>5, <1>6, FS_EmptySet
    <2> QED  BY <1>6, <2>1, <2>2, <2>3
  <1>8. /\ budget[kind] \in [live : Nat, quarantined : Nat]
        /\ budget[kind].live = Cardinality(HeldBy(kind))
        /\ budget[kind].quarantined = Cardinality(QuarantinedBy(kind))
      BY <1>1 DEF BridgeInv, ShapeInv, CountInv
  <1>9. /\ b \in [live : Nat, quarantined : Nat]
        /\ b.live = Cardinality(IF end = "gone" THEN HeldBy(kind) \ {n} ELSE HeldBy(kind))
        /\ b.quarantined = Cardinality(IF end = "gone" THEN QuarantinedBy(kind)
                                       ELSE QuarantinedBy(kind) \cup {n})
        /\ b.live <= budget[kind].live
    <2>1. CASE end = "gone"
        BY <1>6, <1>7, <1>8, <2>1 DEF GivesBack
    <2>2. CASE end = "quarantined"
        BY <1>6, <1>7, <1>8, <2>2 DEF Quarantines
    <2> QED  BY <2>1, <2>2
  <1>10. budget' = [budget EXCEPT ![kind] = b]
      OBVIOUS
  <1> HIDE DEF b
  <1>11. /\ budget' \in [Kinds -> [live : Nat, quarantined : Nat]]
         /\ budget'[kind] = b
         /\ \A k \in Kinds : k # kind => budget'[k] = budget[k]
      BY <1>1, <1>9, <1>10 DEF BridgeInv, ShapeInv
  <1>12. ShapeInv'
      BY <1>1, <1>3, <1>4, <1>11, SetsKeepsShape DEF BridgeInv
  <1>13. /\ DOMAIN entries' = DOMAIN entries /\ entries'[n] = e
         /\ \A m \in DOMAIN entries : m # n => entries'[m] = entries[m]
      BY <1>3, <1>4, SetsFields DEF BridgeInv, ShapeInv
  <1>14. HeldBy(kind)' = IF end = "gone" THEN HeldBy(kind) \ {n} ELSE HeldBy(kind)
      BY <1>4, <1>5, <1>13 DEF HeldBy, Holding
  <1>15. QuarantinedBy(kind)' = IF end = "gone" THEN QuarantinedBy(kind)
                                ELSE QuarantinedBy(kind) \cup {n}
      BY <1>4, <1>5, <1>13, <1>14 DEF QuarantinedBy
  <1>16. ASSUME NEW k, k # kind
         PROVE  HeldBy(k)' = HeldBy(k) /\ QuarantinedBy(k)' = QuarantinedBy(k)
    <2>1. HeldBy(k)' = HeldBy(k) /\ n \notin HeldBy(k)
        BY <1>4, <1>13, <1>16 DEF HeldBy, Holding
    <2>2. \A m : m \in QuarantinedBy(k)' <=> m \in QuarantinedBy(k)
        BY <1>13, <2>1 DEF QuarantinedBy, HeldBy
    <2> QED  BY <2>1, <2>2
  <1>17. CountInv'
    <2> SUFFICES ASSUME NEW k \in Kinds
                 PROVE  /\ budget'[k].live = Cardinality(HeldBy(k)')
                        /\ budget'[k].live <= (IF k = "viewer" THEN MaxOwners ELSE MaxPublishers)
                        /\ budget'[k].quarantined = Cardinality(QuarantinedBy(k)')
        BY DEF CountInv
    <2>1. CASE k = kind
      <3>1. budget'[k].live <= (IF k = "viewer" THEN MaxOwners ELSE MaxPublishers)
        <4>1. budget[k].live <= (IF k = "viewer" THEN MaxOwners ELSE MaxPublishers)
            BY DEF BridgeInv, CountInv
        <4>2. b.live \in Nat /\ budget[kind].live \in Nat
            BY <1>8, <1>9
        <4>3. budget'[k].live = b.live /\ b.live <= budget[k].live
            BY <1>9, <1>11, <2>1
        <4> QED  BY <2>1, <4>1, <4>2, <4>3, BridgeConstants
      <3> QED  BY <1>9, <1>11, <1>14, <1>15, <2>1, <3>1
    <2>2. CASE k # kind
        BY <1>11, <1>16, <2>2 DEF BridgeInv, CountInv
    <2> QED  BY <2>1, <2>2
  <1> QED  BY <1>12, <1>17 DEF BridgeInv

(* Closing, joining, creating and ending unopened are quiet.               *)
LEMMA QuietActions ==
    ASSUME BridgeInv, NEW n \in DOMAIN entries,
           \/ EngineRequestClose(n) \/ EngineHostRequestClose(n)
           \/ EngineClose(n) \/ EngineHostClose(n) \/ CloseReturns(n)
           \/ Create(n) \/ EndsUnopened(n)
           \/ Reserve(n) /\ UNCHANGED budget
    PROVE  /\ BridgeInv'
           /\ DOMAIN entries' = DOMAIN entries
           /\ \A m \in DOMAIN entries :
                 /\ entries'[m].kind = entries[m].kind
                 /\ entries'[m].surface = entries[m].surface
                 /\ Holding(m)' = Holding(m)
                 /\ (entries'[m].native = "quarantined") = (entries[m].native = "quarantined")
  <1>1. /\ entries \in Seq(Entry) /\ entries[n] \in Entry
        /\ entries[n].registered \in BOOLEAN /\ entries[n].done \in BOOLEAN
        /\ entries[n].done => entries[n].native \notin {"reserved", "live"}
        /\ ~entries[n].registered => /\ entries[n].done
                                     /\ entries[n].native # "quarantined"
    <2>1. entries \in Seq(Entry) /\ entries[n] \in Entry
        BY DEF BridgeInv, ShapeInv
    <2> QED  BY <2>1 DEF Entry, BridgeInv, ShapeInv, OwnerInv
  <1>2. ASSUME NEW e \in Entry, Sets(n, e), UNCHANGED <<app, budget>>,
               e.kind = entries[n].kind, e.surface = entries[n].surface,
               e.registered => entries[n].registered,
               e.done => e.native \notin {"reserved", "live"},
               ~e.registered => e.done /\ e.native # "quarantined",
               (e.native \in {"reserved", "live", "quarantined"}) = Holding(n),
               (e.native = "quarantined") = (entries[n].native = "quarantined")
        PROVE  /\ BridgeInv'
               /\ DOMAIN entries' = DOMAIN entries
               /\ \A m \in DOMAIN entries :
                     /\ entries'[m].kind = entries[m].kind
                     /\ entries'[m].surface = entries[m].surface
                     /\ Holding(m)' = Holding(m)
                     /\ (entries'[m].native = "quarantined")
                          = (entries[m].native = "quarantined")
    <2>1. BridgeInv'
        BY <1>2, QuietStep
    <2>2. /\ DOMAIN entries' = DOMAIN entries /\ entries'[n] = e
          /\ \A m \in DOMAIN entries : m # n => entries'[m] = entries[m]
        BY <1>1, <1>2, SetsFields
    <2> QED  BY <1>2, <2>1, <2>2 DEF Holding
  <1>3. CASE EngineRequestClose(n) \/ EngineHostRequestClose(n)
    <2> DEFINE e == [entries[n] EXCEPT !.closing = TRUE]
    <2>1. Sets(n, e) /\ UNCHANGED <<app, budget>>
        BY <1>3 DEF EngineRequestClose, EngineHostRequestClose, Closing
    <2>2. /\ e \in Entry /\ e.kind = entries[n].kind /\ e.surface = entries[n].surface
          /\ e.registered = entries[n].registered /\ e.native = entries[n].native
          /\ e.done = entries[n].done
        BY <1>1 DEF Entry
    <2> HIDE DEF e
    <2> QED  BY <1>1, <1>2, <2>1, <2>2 DEF Holding
  <1>4. CASE EngineClose(n) \/ EngineHostClose(n)
    <2> DEFINE e1 == [entries[n] EXCEPT !.closing = TRUE]
               e == [e1 EXCEPT !.joining = TRUE]
    <2>1. Sets(n, e) /\ UNCHANGED <<app, budget>>
        BY <1>4 DEF EngineClose, EngineHostClose, Joining
    <2>2. /\ e1 \in Entry /\ e1.kind = entries[n].kind /\ e1.surface = entries[n].surface
          /\ e1.registered = entries[n].registered /\ e1.native = entries[n].native
          /\ e1.done = entries[n].done
        BY <1>1 DEF Entry
    <2> HIDE DEF e1
    <2>3. /\ e \in Entry /\ e.kind = entries[n].kind /\ e.surface = entries[n].surface
          /\ e.registered = entries[n].registered /\ e.native = entries[n].native
          /\ e.done = entries[n].done
        BY <2>2 DEF Entry
    <2> HIDE DEF e
    <2> QED  BY <1>1, <1>2, <2>1, <2>3 DEF Holding
  <1>5. CASE CloseReturns(n)
    <2> DEFINE e == [entries[n] EXCEPT !.registered = ReleasedWhenProven(entries[n])]
    <2>1. Sets(n, e) /\ UNCHANGED <<app, budget>> /\ entries[n].registered /\ entries[n].done
        BY <1>5 DEF CloseReturns
    <2>2. /\ e \in Entry /\ e.kind = entries[n].kind /\ e.surface = entries[n].surface
          /\ e.registered = (entries[n].native = "quarantined")
          /\ e.native = entries[n].native
          /\ e.done = entries[n].done
        BY <1>1 DEF Entry, ReleasedWhenProven
    <2> HIDE DEF e
    <2> QED  BY <1>1, <1>2, <2>1, <2>2 DEF Holding
  <1>6. CASE Create(n)
    <2> DEFINE e == [entries[n] EXCEPT !.native = "live"]
    <2>1. Sets(n, e) /\ UNCHANGED <<app, budget>> /\ entries[n].native = "reserved"
        BY <1>6 DEF Create
    <2>2. /\ e \in Entry /\ e.kind = entries[n].kind /\ e.surface = entries[n].surface
          /\ e.registered = entries[n].registered /\ e.native = "live"
          /\ e.done = entries[n].done
        BY <1>1 DEF Entry, Natives
    <2> HIDE DEF e
    <2> QED  BY <1>1, <1>2, <2>1, <2>2 DEF Holding
  <1>7. CASE EndsUnopened(n) \/ (Reserve(n) /\ UNCHANGED budget)
    <2> DEFINE e == [entries[n] EXCEPT !.done = TRUE]
    <2>1. Sets(n, e) /\ UNCHANGED <<app, budget>> /\ Unopened(n)
      <3>1. ASSUME Reserve(n), UNCHANGED budget, AdmittedKind(entries[n].kind)
            PROVE  FALSE
        <4>1. /\ budget' = [budget EXCEPT ![entries[n].kind].live = @ + 1]
              /\ entries[n].kind \in Kinds
            BY <1>1, <3>1 DEF Reserve, Entry
        <4>2. budget[entries[n].kind].live \in Nat
            BY <4>1 DEF BridgeInv, ShapeInv
        <4>3. budget'[entries[n].kind].live = budget[entries[n].kind].live + 1
            BY <4>1, <4>2 DEF BridgeInv, ShapeInv
        <4> QED  BY <3>1, <4>2, <4>3
      <3> QED  BY <1>7, <3>1 DEF EndsUnopened, Reserve
    <2>2. /\ e \in Entry /\ e.kind = entries[n].kind /\ e.surface = entries[n].surface
          /\ e.registered = entries[n].registered /\ e.native = entries[n].native
          /\ e.done
        BY <1>1 DEF Entry
    <2> HIDE DEF e
    <2> QED  BY <1>1, <1>2, <2>1, <2>2 DEF Holding, Unopened
  <1> QED  BY <1>3, <1>4, <1>5, <1>6, <1>7

(* What Reserve does when the gate admits, and Shutdown.                   *)
LEMMA BridgeInvStep == BridgeInv /\ [BridgeNext]_bridgeVars => BridgeInv'
  <1> SUFFICES ASSUME BridgeInv, [BridgeNext]_bridgeVars PROVE BridgeInv'
      OBVIOUS
  <1>1. CASE UNCHANGED bridgeVars
    <2>1. ShapeInv'
        BY <1>1 DEF bridgeVars, BridgeInv, ShapeInv, RegistryInv, OwnerInv
    <2>2. \A k : HeldBy(k)' = HeldBy(k) /\ QuarantinedBy(k)' = QuarantinedBy(k)
        BY <1>1 DEF bridgeVars, HeldBy, QuarantinedBy, Holding
    <2> QED  BY <1>1, <2>1, <2>2 DEF bridgeVars, BridgeInv, CountInv
  <1>2. CASE Initialize
    <2>1. app' \in [directory : Directories \cup {"none"}, id : BOOLEAN]
        BY <1>2 DEF Initialize
    <2>2. ShapeInv'
        BY <1>2, <2>1 DEF Initialize, BridgeInv, ShapeInv, RegistryInv, OwnerInv
    <2>3. \A k : HeldBy(k)' = HeldBy(k) /\ QuarantinedBy(k)' = QuarantinedBy(k)
        BY <1>2 DEF Initialize, HeldBy, QuarantinedBy, Holding
    <2> QED  BY <1>2, <2>2, <2>3 DEF Initialize, BridgeInv, CountInv
  <1>3. CASE EngineConnect
      BY <1>3, RegisterStep DEF EngineConnect, AdmitsSurface, Kinds
  <1>4. CASE EngineHostStart
      BY <1>4, RegisterStep DEF EngineHostStart, Kinds
  <1>5. ASSUME NEW n \in DOMAIN entries, Reserve(n) PROVE BridgeInv'
    <2>1. CASE AdmittedKind(entries[n].kind)
        BY <1>5, <2>1, AdmittedReserve DEF Reserve
    <2>2. CASE ~AdmittedKind(entries[n].kind)
        BY <1>5, <2>2, QuietActions DEF Reserve
    <2> QED  BY <2>1, <2>2
  <1>6. ASSUME NEW n \in DOMAIN entries, Shutdown(n) PROVE BridgeInv'
      BY <1>6, ShutdownStep DEF Shutdown
  <1> QED  BY <1>1, <1>2, <1>3, <1>4, <1>5, <1>6, QuietActions DEF BridgeNext

LEMMA BridgeInvInit == BridgeInit => BridgeInv
  <1> SUFFICES ASSUME BridgeInit PROVE BridgeInv
      OBVIOUS
  <1>1. DOMAIN entries = {} /\ entries \in Seq(Entry) /\ Len(entries) = 0
      BY DEF BridgeInit
  <1>2. \A kind : HeldBy(kind) = {} /\ QuarantinedBy(kind) = {}
      BY <1>1 DEF HeldBy, QuarantinedBy
  <1>3. CountInv
    <2> SUFFICES ASSUME NEW kind \in Kinds
                 PROVE  /\ budget[kind].live = Cardinality(HeldBy(kind))
                        /\ budget[kind].live <= (IF kind = "viewer" THEN MaxOwners
                                                ELSE MaxPublishers)
                        /\ budget[kind].quarantined = Cardinality(QuarantinedBy(kind))
        BY DEF CountInv
    <2>1. budget[kind].live = 0 /\ budget[kind].quarantined = 0
        BY DEF BridgeInit
    <2>2. Cardinality(HeldBy(kind)) = 0 /\ Cardinality(QuarantinedBy(kind)) = 0
        BY <1>2, FS_EmptySet
    <2> QED  BY <2>1, <2>2, BridgeConstants
  <1> QED  BY <1>1, <1>3, BridgeConstants
           DEF BridgeInit, BridgeInv, ShapeInv, RegistryInv, OwnerInv

(* For every number of surfaces, sessions and permits: two owners never    *)
(* hold one surface or one host slot, a holder keeps its registry entry,   *)
(* and both gates count exactly what lives (ohos_har/src/lib.rs,           *)
(* host_bridge.rs, ohos_decoder.rs, ohos_publisher.rs).                    *)
THEOREM OwnersTheorem == BridgeSpec => []OwnersAreExact
  <1>1. BridgeSpec => []BridgeInv
      BY BridgeInvInit, BridgeInvStep, PTL DEF BridgeSpec
  <1> QED  BY <1>1, BridgeInvImplies, PTL

-----------------------------------------------------------------------------
(* The refinement: every step of the registries takes, gives back or loses *)
(* a surface, or leaves the ownership as it was.                           *)

(* A surface that a decoder holds has that decoder and no other.           *)
LEMMA OneDecoder ==
    ASSUME BridgeInv, NEW n \in DOMAIN entries, entries[n].kind = "viewer",
           entries[n].registered, NEW m \in DecodersOn(entries[n].surface)
    PROVE  m = n
  <1>1. m \in DOMAIN entries /\ entries[m].kind = "viewer"
        /\ entries[m].surface = entries[n].surface /\ Holding(m)
      BY DEF DecodersOn
  <1>2. entries[m].registered \in BOOLEAN
    <2>1. entries[m] \in Entry
        BY <1>1 DEF BridgeInv, ShapeInv
    <2> QED  BY <2>1 DEF Entry
  <1>3. entries[m].registered
      BY <1>1, <1>2 DEF BridgeInv, ShapeInv, OwnerInv, Holding
  <1> QED  BY <1>1, <1>3 DEF BridgeInv, ShapeInv, RegistryInv

(* An open gate means no lost surface, and fewer surfaces held than        *)
(* owners allowed.                                                         *)
LEMMA OpenGate ==
    ASSUME BridgeInv, CanReserve
    PROVE  /\ Lost = {}
           /\ Cardinality({s \in Surfaces : DecodersOn(s) # {}}) < MaxOwners
  <1> DEFINE T == {s \in Surfaces : DecodersOn(s) # {}}
             H == HeldBy("viewer")
             f == [n \in H |-> entries[n].surface]
  <1>1. /\ IsFiniteSet(H) /\ Cardinality(H) \in Nat
        /\ IsFiniteSet(QuarantinedBy("viewer"))
      BY HeldIsFinite, FS_CardinalityType DEF BridgeInv
  <1>2. Cardinality(QuarantinedBy("viewer")) = 0 /\ Cardinality(H) < MaxOwners
      BY DEF BridgeInv, CountInv, CanReserve, Kinds
  <1>3. Lost = {}
    <2>1. QuarantinedBy("viewer") = {}
        BY <1>1, <1>2, FS_EmptySet
    <2> QED  BY <2>1 DEF Lost, DecodersOn, QuarantinedBy, HeldBy
  <1>4. f \in Surjection(H, T)
    <2>1. \A n \in H : n \in DecodersOn(entries[n].surface) /\ entries[n].surface \in Surfaces
      <3>1. \A n \in DOMAIN entries : entries[n].surface \in Surfaces
        <4>1. \A n \in DOMAIN entries : entries[n] \in Entry
            BY DEF BridgeInv, ShapeInv
        <4> QED  BY <4>1 DEF Entry
      <3> QED  BY <3>1 DEF HeldBy, DecodersOn
    <2>2. f \in [H -> T]
        BY <2>1
    <2>3. ASSUME NEW t \in T PROVE \E n \in H : f[n] = t
        BY DEF DecodersOn, HeldBy
    <2> QED  BY <2>2, <2>3, Fun_IsSurj
  <1>5. IsFiniteSet(T) /\ Cardinality(T) <= Cardinality(H)
      BY <1>1, <1>4, FS_Surjection
  <1>6. Cardinality(T) \in Nat
      BY <1>5, FS_CardinalityType
  <1> QED  BY <1>1, <1>2, <1>3, <1>5, <1>6, BridgeConstants

(* When every entry keeps its kind, surface and hold, so does the mapping. *)
LEMMA MappingStutters ==
    ASSUME DOMAIN entries \subseteq DOMAIN entries',
           \A m \in DOMAIN entries :
               /\ entries'[m].kind = entries[m].kind
               /\ entries'[m].surface = entries[m].surface
               /\ Holding(m)' = Holding(m)
               /\ (entries'[m].native = "quarantined") = (entries[m].native = "quarantined"),
           \A m \in DOMAIN entries' \ DOMAIN entries : ~Holding(m)'
    PROVE  UNCHANGED <<[s \in Surfaces |-> DecodersOn(s)], Lost>>
  <1>1. ASSUME NEW s PROVE DecodersOn(s)' = DecodersOn(s)
    <2>1. \A m : m \in DecodersOn(s)' <=> m \in DecodersOn(s)
        BY DEF DecodersOn
    <2> QED  BY <2>1 DEF DecodersOn
  <1>2. ASSUME NEW s
        PROVE  (\E n \in DecodersOn(s) : entries[n].native = "quarantined")' <=>
               (\E n \in DecodersOn(s) : entries[n].native = "quarantined")
    <2>1. \A m \in DecodersOn(s) : m \in DOMAIN entries
        BY DEF DecodersOn
    <2> QED  BY <1>1, <2>1
  <1> QED  BY <1>1, <1>2 DEF Lost

(* The instance counts sets the way this module does.                      *)
LEMMA SameCardinality == \A S : Ownership!Cardinality(S) = Cardinality(S)
  <1>1. \A S : Ownership!IsFiniteSet(S) = IsFiniteSet(S)
      BY DEF Ownership!IsFiniteSet, IsFiniteSet
  <1> QED  BY <1>1 DEF Ownership!Cardinality, Cardinality

(* Taking a permit for a decoder takes the surface.                        *)
LEMMA ReserveTakes ==
    ASSUME BridgeInv, NEW n \in DOMAIN entries, Reserve(n), entries[n].kind = "viewer",
           CanReserve
    PROVE  Ownership!Take(entries[n].surface) /\ entries[n].surface \in Surfaces
  <1> DEFINE e == [entries[n] EXCEPT !.native = "reserved"]
  <1>1. /\ Sets(n, e) /\ Unopened(n)
      BY DEF Reserve, AdmittedKind
  <1>2. /\ entries \in Seq(Entry) /\ entries[n] \in Entry
        /\ entries[n].registered \in BOOLEAN /\ entries[n].done \in BOOLEAN
        /\ entries[n].surface \in Surfaces
    <2>1. entries \in Seq(Entry) /\ entries[n] \in Entry
        BY DEF BridgeInv, ShapeInv
    <2> QED  BY <2>1 DEF Entry
  <1>3. entries[n].registered /\ ~Holding(n)
      BY <1>1, <1>2 DEF Unopened, BridgeInv, ShapeInv, OwnerInv, Holding
  <1>4. /\ e \in Entry /\ e.native = "reserved" /\ e.kind = "viewer"
        /\ e.surface = entries[n].surface
      BY <1>2 DEF Entry, Natives
  <1> HIDE DEF e
  <1>5. /\ DOMAIN entries' = DOMAIN entries /\ entries'[n] = e
        /\ \A m \in DOMAIN entries : m # n => entries'[m] = entries[m]
      BY <1>1, <1>2, <1>4, SetsFields
  <1>6. PICK sn \in Surfaces : sn = entries[n].surface
      BY <1>2
  <1>7. DecodersOn(sn) = {}
      BY <1>3, <1>6, OneDecoder DEF DecodersOn
  <1>8. DecodersOn(sn)' = {n}
      BY <1>4, <1>5, <1>6, <1>7 DEF DecodersOn, Holding
  <1>9. ASSUME NEW s \in Surfaces, s # sn PROVE DecodersOn(s)' = DecodersOn(s)
    <2>1. \A m : m \in DecodersOn(s)' <=> m \in DecodersOn(s)
        BY <1>4, <1>5, <1>6, <1>9 DEF DecodersOn, Holding
    <2> QED  BY <2>1 DEF DecodersOn
  <1>10. Lost = {} /\ Cardinality({s \in Surfaces : DecodersOn(s) # {}}) < MaxOwners
      BY OpenGate
  <1>11. Lost' = {}
    <2> SUFFICES ASSUME NEW s \in Surfaces, NEW m \in DecodersOn(s)'
                 PROVE  entries'[m].native # "quarantined"
        BY DEF Lost
    <2>1. m \in DOMAIN entries
        BY <1>5 DEF DecodersOn
    <2>2. CASE m = n
        BY <1>4, <1>5, <2>2
    <2>3. CASE m # n
      <3>1. m \in DecodersOn(s) /\ entries'[m] = entries[m]
          BY <1>5, <2>1, <2>3 DEF DecodersOn, Holding
      <3> QED  BY <1>10, <3>1 DEF Lost
    <2> QED  BY <2>2, <2>3
  <1>12. n \in 1..MaxEntries
    <2>1. n \in 1..Len(entries) /\ Len(entries) \in Nat
        BY <1>2
    <2>2. Len(entries) <= MaxEntries
        BY DEF BridgeInv, ShapeInv
    <2> QED  BY <2>1, <2>2, BridgeConstants
  <1>13. [s \in Surfaces |-> DecodersOn(s)]'
           = [[s \in Surfaces |-> DecodersOn(s)] EXCEPT ![sn] = {n}]
      BY <1>8, <1>9
  <1>14. {s \in Surfaces : [t \in Surfaces |-> DecodersOn(t)][s] # {}}
           = {s \in Surfaces : DecodersOn(s) # {}}
      OBVIOUS
  <1>15. Ownership!Take(sn)
      BY <1>6, <1>7, <1>10, <1>11, <1>12, <1>13, <1>14,
         SameCardinality DEF Ownership!Take, Ownership!Taken
  <1> QED  BY <1>6, <1>15

(* Ending a decoder gives its surface back, or loses it.                   *)
LEMMA ShutdownEnds ==
    ASSUME BridgeInv, NEW n \in DOMAIN entries, entries[n].native \in {"reserved", "live"},
           entries[n].kind = "viewer",
           NEW end \in {"gone", "quarantined"}, NEW last \in BOOLEAN,
           Sets(n, [entries[n] EXCEPT !.native = end, !.done = last])
    PROVE  /\ entries[n].surface \in Surfaces
           /\ \/ Ownership!GiveBack(entries[n].surface)
              \/ Ownership!Lose(entries[n].surface)
  <1> DEFINE e0 == [entries[n] EXCEPT !.native = end]
             e == [e0 EXCEPT !.done = last]
  <1>1. /\ entries \in Seq(Entry) /\ entries[n] \in Entry
        /\ entries[n].registered \in BOOLEAN
        /\ entries[n].surface \in Surfaces
    <2>1. entries \in Seq(Entry) /\ entries[n] \in Entry
        BY DEF BridgeInv, ShapeInv
    <2> QED  BY <2>1 DEF Entry
  <1>2. entries[n].registered /\ Holding(n)
      BY <1>1 DEF BridgeInv, ShapeInv, OwnerInv, Holding
  <1>3. e0 \in Entry /\ e0.native = end /\ e0.kind = "viewer"
        /\ e0.surface = entries[n].surface
      BY <1>1 DEF Entry, Natives
  <1>4. Sets(n, e)
      OBVIOUS
  <1> HIDE DEF e0
  <1>5. e \in Entry /\ e.native = end /\ e.kind = "viewer" /\ e.surface = entries[n].surface
      BY <1>3 DEF Entry
  <1> HIDE DEF e
  <1>6. /\ DOMAIN entries' = DOMAIN entries /\ entries'[n] = e
        /\ \A m \in DOMAIN entries : m # n => entries'[m] = entries[m]
      BY <1>1, <1>4, <1>5, SetsFields
  <1>7. PICK sn \in Surfaces : sn = entries[n].surface
      BY <1>1
  <1>8. DecodersOn(sn) = {n}
    <2>1. n \in DecodersOn(sn)
        BY <1>2, <1>7 DEF DecodersOn
    <2>2. \A m \in DecodersOn(sn) : m = n
        BY <1>2, <1>7, OneDecoder
    <2> QED  BY <2>1, <2>2
  <1>9. sn \notin Lost
      BY <1>8 DEF Lost
  <1>10. ASSUME NEW s \in Surfaces, s # sn PROVE DecodersOn(s)' = DecodersOn(s)
    <2>1. \A m : m \in DecodersOn(s)' <=> m \in DecodersOn(s)
        BY <1>5, <1>6, <1>7, <1>10 DEF DecodersOn, Holding
    <2> QED  BY <2>1 DEF DecodersOn
  <1>11. ASSUME NEW s \in Surfaces, s # sn PROVE s \in Lost' <=> s \in Lost
    <2>1. \A m \in DecodersOn(s) : m \in DOMAIN entries /\ m # n
        BY <1>7, <1>11 DEF DecodersOn
    <2>2. \A m \in DecodersOn(s) : entries'[m] = entries[m]
        BY <1>6, <2>1
    <2> QED  BY <1>10, <1>11, <2>2 DEF Lost
  <1>12. CASE end = "gone"
    <2>1. DecodersOn(sn)' = {}
      <3>1. \A m : m \notin DecodersOn(sn)'
          BY <1>5, <1>6, <1>8, <1>12 DEF DecodersOn, Holding
      <3> QED  BY <3>1
    <2>2. sn \notin Lost'
        BY <2>1 DEF Lost
    <2>3. Lost' = Lost
      <3>1. \A s \in Surfaces : s \in Lost' <=> s \in Lost
          BY <1>9, <1>11, <2>2
      <3> QED  BY <3>1 DEF Lost
    <2>4. [s \in Surfaces |-> DecodersOn(s)]'
            = [[s \in Surfaces |-> DecodersOn(s)] EXCEPT ![sn] = {}]
        BY <1>10, <2>1
    <2>5. Ownership!GiveBack(sn)
        BY <1>7, <1>8, <1>9, <2>3, <2>4 DEF Ownership!GiveBack
    <2> QED  BY <1>7, <2>5
  <1>13. CASE end = "quarantined"
    <2>1. DecodersOn(sn)' = DecodersOn(sn)
      <3>1. \A m : m \in DecodersOn(sn)' <=> m \in DecodersOn(sn)
          BY <1>5, <1>6, <1>7, <1>8, <1>13 DEF DecodersOn, Holding
      <3> QED  BY <3>1 DEF DecodersOn
    <2>2. sn \in Lost'
        BY <1>5, <1>6, <1>8, <1>13, <2>1 DEF Lost
    <2>3. Lost' = Lost \cup {sn}
      <3>1. \A s \in Surfaces : s \in Lost' <=> s \in Lost \cup {sn}
          BY <1>11, <2>2
      <3>2. Lost \subseteq Surfaces /\ Lost' \subseteq Surfaces
          BY DEF Lost
      <3> QED  BY <3>1, <3>2
    <2>4. UNCHANGED [s \in Surfaces |-> DecodersOn(s)]
        BY <1>10, <2>1
    <2>5. Ownership!Lose(sn)
        BY <1>7, <1>8, <1>9, <2>3, <2>4 DEF Ownership!Lose
    <2> QED  BY <1>7, <2>5
  <1> QED  BY <1>12, <1>13

(* Hosts are not decoders: nothing that happens to one moves a surface.    *)
LEMMA HostsStutter ==
    ASSUME BridgeInv, NEW n \in DOMAIN entries, NEW e, Sets(n, e),
           entries[n].kind # "viewer", e.kind # "viewer"
    PROVE  UNCHANGED <<[s \in Surfaces |-> DecodersOn(s)], Lost>>
  <1>1. /\ DOMAIN entries' = DOMAIN entries /\ entries'[n] = e
        /\ \A m \in DOMAIN entries : m # n => entries'[m] = entries[m]
      BY DEF Sets, BridgeInv, ShapeInv
  <1>2. ASSUME NEW s PROVE DecodersOn(s)' = DecodersOn(s)
    <2>1. \A m : m \in DecodersOn(s)' <=> m \in DecodersOn(s)
        BY <1>1 DEF DecodersOn, Holding
    <2> QED  BY <2>1 DEF DecodersOn
  <1>3. ASSUME NEW s, NEW m \in DecodersOn(s) PROVE entries'[m] = entries[m]
      BY <1>1, <1>3 DEF DecodersOn
  <1> QED  BY <1>2, <1>3 DEF Lost

LEMMA OwnershipStep ==
    BridgeInv /\ [BridgeNext]_bridgeVars => [Ownership!OwnershipNext]_(Ownership!ownershipVars)
  <1> SUFFICES ASSUME BridgeInv, [BridgeNext]_bridgeVars
               PROVE  Ownership!OwnershipNext \/ UNCHANGED Ownership!ownershipVars
      OBVIOUS
  <1> USE DEF Ownership!ownershipVars
  <1>1. CASE UNCHANGED entries
      BY <1>1 DEF DecodersOn, Holding, Lost
  <1>2. ASSUME NEW kind \in Kinds, NEW s \in Surfaces, Register(kind, s),
               UNCHANGED <<app, budget>>, Len(entries) < MaxEntries,
               \A m \in Registered(kind) : kind = "viewer" /\ entries[m].surface # s
        PROVE  UNCHANGED Ownership!ownershipVars
    <2>1. /\ \A m \in DOMAIN entries : entries'[m] = entries[m]
          /\ DOMAIN entries \subseteq DOMAIN entries'
          /\ \A m \in DOMAIN entries' \ DOMAIN entries : entries'[m].native = "none"
        BY <1>2, RegisterStep
    <2>2. /\ \A m \in DOMAIN entries : Holding(m)' = Holding(m)
          /\ \A m \in DOMAIN entries' \ DOMAIN entries : ~Holding(m)'
        BY <2>1 DEF Holding
    <2> QED  BY <2>1, <2>2, MappingStutters
  <1>3. CASE EngineConnect
      BY <1>2, <1>3 DEF EngineConnect, AdmitsSurface, Kinds
  <1>4. CASE EngineHostStart
      BY <1>2, <1>4 DEF EngineHostStart, Kinds
  <1>5. ASSUME NEW n \in DOMAIN entries,
               \/ EngineRequestClose(n) \/ EngineHostRequestClose(n)
               \/ EngineClose(n) \/ EngineHostClose(n) \/ CloseReturns(n)
               \/ Create(n) \/ EndsUnopened(n)
               \/ Reserve(n) /\ UNCHANGED budget
        PROVE  UNCHANGED Ownership!ownershipVars
    <2>1. /\ DOMAIN entries' = DOMAIN entries
          /\ \A m \in DOMAIN entries :
                 /\ entries'[m].kind = entries[m].kind
                 /\ entries'[m].surface = entries[m].surface
                 /\ Holding(m)' = Holding(m)
                 /\ (entries'[m].native = "quarantined") = (entries[m].native = "quarantined")
        BY <1>5, QuietActions
    <2> QED  BY <2>1, MappingStutters
  <1>6. ASSUME NEW n \in DOMAIN entries, Reserve(n)
        PROVE  Ownership!OwnershipNext \/ UNCHANGED Ownership!ownershipVars
    <2>1. CASE ~AdmittedKind(entries[n].kind)
        BY <1>5, <1>6, <2>1 DEF Reserve
    <2>2. CASE entries[n].kind = "viewer" /\ CanReserve
        BY <1>6, <2>2, ReserveTakes DEF Ownership!OwnershipNext
    <2>3. CASE entries[n].kind # "viewer" /\ AdmittedKind(entries[n].kind)
      <3>1. Sets(n, [entries[n] EXCEPT !.native = "reserved"])
          BY <1>6, <2>3 DEF Reserve
      <3>2. entries[n] \in Entry
          BY DEF BridgeInv, ShapeInv
      <3>3. [entries[n] EXCEPT !.native = "reserved"].kind # "viewer"
          BY <2>3, <3>2 DEF Entry
      <3> QED  BY <2>3, <3>1, <3>3, HostsStutter
    <2> QED  BY <2>1, <2>2, <2>3 DEF AdmittedKind
  <1>7. ASSUME NEW n \in DOMAIN entries, Shutdown(n)
        PROVE  Ownership!OwnershipNext \/ UNCHANGED Ownership!ownershipVars
    <2>1. PICK end \in {"gone", "quarantined"}, last \in BOOLEAN :
            Sets(n, [entries[n] EXCEPT !.native = end, !.done = last])
        BY <1>7 DEF Shutdown
    <2>2. CASE entries[n].kind = "viewer"
      <3>1. entries[n].native \in {"reserved", "live"}
          BY <1>7 DEF Shutdown
      <3> QED  BY <2>1, <2>2, <3>1, ShutdownEnds DEF Ownership!OwnershipNext
    <2>3. CASE entries[n].kind # "viewer"
      <3>1. entries[n] \in Entry
          BY DEF BridgeInv, ShapeInv
      <3>2. [entries[n] EXCEPT !.native = end, !.done = last].kind # "viewer"
          BY <2>3, <3>1 DEF Entry
      <3> QED  BY <2>1, <2>3, <3>2, HostsStutter
    <2> QED  BY <2>2, <2>3
  <1>8. CASE Initialize
      BY <1>1, <1>8 DEF Initialize
  <1>9. CASE UNCHANGED bridgeVars
      BY <1>1, <1>9 DEF bridgeVars
  <1> QED  BY <1>3, <1>4, <1>5, <1>6, <1>7, <1>8, <1>9 DEF BridgeNext

(* The registries and gates of the bridge implement the ownership of       *)
(* surfaces, whatever close answers, whichever callers race and however    *)
(* many surfaces there are (ohos_har/src/lib.rs, ohos_decoder.rs).         *)
THEOREM OwnershipTheorem == BridgeSpec => OwnershipIsKept
  <1>1. BridgeInit => Ownership!OwnershipInit
    <2> SUFFICES ASSUME BridgeInit PROVE Ownership!OwnershipInit
        OBVIOUS
    <2>1. \A s : DecodersOn(s) = {}
        BY DEF BridgeInit, DecodersOn
    <2> QED  BY <2>1 DEF Ownership!OwnershipInit, Lost
  <1>2. BridgeSpec => []BridgeInv
      BY BridgeInvInit, BridgeInvStep, PTL DEF BridgeSpec
  <1> QED  BY <1>1, <1>2, OwnershipStep, PTL
           DEF BridgeSpec, OwnershipIsKept, Ownership!OwnershipSpec
-----------------------------------------------------------------------------
(* The registry of sessions.                                               *)

Routes == {"vnc", "rdp", "direct", "rendezvous"}
Prompts == {"none", "password", "insecure", "second_factor"}
SessionRecords ==
    [gen : Nat \ {0}, route : Routes, viewer : Nat, lastPhase : Phases \cup {"none"},
     due : BOOLEAN, info : BOOLEAN, closeEmitted : BOOLEAN, prompt : Prompts]
StartRecords ==
    [id : Ids, gen : Nat \ {0}, route : Routes, step : {"dial", "install"}, viewer : Nat]

(* There were g sessions and n backends so far.                            *)
SessionIsTyped(s, g, n) == s.gen \in 1..g /\ s.viewer \in 0..n
StartIsTyped(c, g, n) ==
    /\ c.gen \in 1..g /\ c.viewer \in 0..n
    /\ c.step = "dial" => c.viewer = 0

ViewersAreTyped == viewers \in Seq(Viewer) /\ \A l \in DOMAIN leases : leases[l] \in LeaseStates

OhosTypes ==
    /\ ViewersAreTyped
    /\ gens \in 0..MaxGens /\ DOMAIN leases = 1..MaxGens
    /\ sessions \in [Ids -> SessionRecords \cup {NoSession}]
    /\ \A id \in Live : SessionIsTyped(sessions[id], gens, Len(viewers))
    /\ starts \in [Starters -> StartRecords \cup {NoCall}]
    /\ \A t \in Starters : starts[t] # NoCall => StartIsTyped(starts[t], gens, Len(viewers))

(* The login question last asked, and not answered since, is still there.  *)
QuestionStays(s) ==
    (s.lastPhase = "awaiting_password" /\ ~s.due) => s.prompt = "password"

OhosInv ==
    /\ OhosTypes /\ NoStrayBackend
    /\ \A id \in Live : QuestionStays(sessions[id])

EntryRecords ==
    [exists : {TRUE}, viewer : Nat, stream : Nat, direct : BOOLEAN,
     lastPhase : Phases \cup {"none"}, info : BOOLEAN, closeSent : BOOLEAN,
     asked : Phases \cup {"none"}]
PumpPlaces == {"none", "look", "pump", "check", "done"}
Startings == [step : {"none", "start", "spawn"}, stream : Nat]

FlutterInv ==
    /\ ViewersAreTyped /\ flutterAdds \in 0..MaxAdds
    /\ entry \in EntryRecords \cup {NoEntry}
    /\ entry.viewer \in 0..Len(viewers) /\ entry.stream \in 0..Len(heard)
    /\ heard \in Seq(BOOLEAN) /\ Len(heard) <= MaxStreams
    /\ pumps \in [1..MaxStreams -> PumpPlaces]
    /\ starting \in [Callers -> Startings]

FrontInv == (part = "ohos" => OhosInv) /\ (part = "flutter" => FlutterInv)

(* A viewer goes on: it stays a viewer, and what was asked of it or ended  *)
(* stays so.                                                               *)
Continues(v, w) ==
    w \in Viewer /\ (v.cancel => w.cancel) /\ (v.closed => w.closed)

LEMMA ViewerIsViewer ==
    ASSUME viewers \in Seq(Viewer), NEW i \in DOMAIN viewers
    PROVE  viewers[i] \in Viewer /\ i \in 1..Len(viewers)
OBVIOUS

LEMMA RequestCloseContinues ==
    ASSUME NEW v \in Viewer
    PROVE  Continues(v, RequestClose(v)) /\ RequestClose(v).cancel
           /\ RequestClose(v).result = v.result /\ RequestClose(v).feeder = v.feeder
<1> DEFINE p == IF v.closed THEN v.phase ELSE "closing"
<1>1. p \in Phases
  BY DEF Viewer, Phases
<1>2. RequestClose(v) = [v EXCEPT !.cancel = TRUE, !.phase = p]
  BY DEF RequestClose
<1> HIDE DEF p
<1> QED
  BY <1>1, <1>2 DEF Continues, Viewer

LEMMA EndsContinues ==
    ASSUME NEW v \in Viewer, NEW r \in {"running", "ok", "error"}
    PROVE  Continues(v, Ends(v, r))
<1>1. <<>> \in Seq(Commands)
  OBVIOUS
<1> QED
  BY <1>1 DEF Ends, Continues, Viewer

LEMMA SubmitContinues ==
    ASSUME NEW v \in Viewer, NEW c \in Commands
    PROVE  Continues(v, Submit(v, c))
<1> DEFINE w == Append(v.commands, c)
<1>1. w \in Seq(Commands)
  BY DEF Viewer
<1>2. Submit(v, c) = [v EXCEPT !.commands = w]
  BY DEF Submit
<1> HIDE DEF w
<1> QED
  BY <1>1, <1>2 DEF Continues, Viewer

LEMMA ContinuesOn ==
    ASSUME NEW v, NEW w, NEW x, Continues(v, w), Continues(w, x)
    PROVE  Continues(v, x)
BY DEF Continues

(* What a step of one viewer, or of one registry call on it, keeps.        *)
LEMMA ReplacedKeeps ==
    ASSUME viewers \in Seq(Viewer), NEW i \in DOMAIN viewers, NEW w, Continues(viewers[i], w),
           viewers' = [viewers EXCEPT ![i] = w]
    PROVE  /\ viewers' \in Seq(Viewer) /\ Len(viewers') = Len(viewers)
           /\ viewers'[i] = w
           /\ \A j \in DOMAIN viewers : Continues(viewers[j], viewers'[j])
<1> DEFINE n == Len(viewers)
<1>1. n \in Nat /\ DOMAIN viewers = 1..n /\ n = Len(viewers) /\ viewers \in [1..n -> Viewer]
  OBVIOUS
<1>2. w \in Viewer
  BY DEF Continues
<1>3. viewers' \in [1..n -> Viewer] /\ viewers'[i] = w /\ \A j \in 1..n : j # i => viewers'[j] = viewers[j]
  BY <1>1, <1>2
<1>4. viewers' \in Seq(Viewer) /\ Len(viewers') = n
  BY <1>1, <1>3
<1>5. ASSUME NEW j \in 1..n PROVE Continues(viewers[j], viewers'[j])
  <2>1. viewers[j] \in Viewer
    BY <1>1
  <2> QED
    BY <1>3, <2>1 DEF Continues
<1> QED
  BY <1>1, <1>3, <1>4, <1>5

(* A phase, a place of the feeder or a result is written.                  *)
LEMMA PhaseContinues ==
    ASSUME NEW v \in Viewer, NEW p \in Phases
    PROVE  Continues(v, [v EXCEPT !.phase = p])
BY DEF Continues, Viewer

LEMMA LoginStepKeeps ==
    ASSUME viewers \in Seq(Viewer), LoginNext
    PROVE  /\ viewers' \in Seq(Viewer) /\ Len(viewers') = Len(viewers) /\ leases' = leases
           /\ \A j \in DOMAIN viewers : Continues(viewers[j], viewers'[j])
<1>1. PICK i \in DOMAIN viewers :
          \/ Probes(i) \/ Connect(i) \/ Confirm(i) \/ Challenge(i) \/ PeerAnswers(i)
          \/ Command(i) \/ FirstRecord(i) \/ Opens(i) \/ Renders(i) \/ Disconnects(i)
          \/ Stops(i) \/ Finishes(i)
  BY DEF LoginNext
<1> DEFINE v == viewers[i]
<1>2. v \in Viewer
  BY ViewerIsViewer
<1>3. SUFFICES \E w : Continues(v, w) /\ Steps(i, w)
  BY ReplacedKeeps DEF Steps
<1>4. CASE Probes(i)
  <2>1. CASE Steps(i, Ends(v, "error"))
    BY <1>2, <2>1, EndsContinues
  <2>2. CASE Steps(i, [v EXCEPT !.phase = IF v.direct THEN "connecting" ELSE "rendezvous"])
    <3>1. (IF v.direct THEN "connecting" ELSE "rendezvous") \in Phases
      BY DEF Phases
    <3> QED
      BY <1>2, <2>2, <3>1, PhaseContinues
  <2> QED
    BY <1>4, <2>1, <2>2 DEF Probes
<1>5. CASE Connect(i)
  <2>1. CASE Steps(i, Ends(v, "error"))
    BY <1>2, <2>1, EndsContinues
  <2>2. CASE Steps(i, [v EXCEPT !.phase = IF v.direct THEN "awaiting_insecure_confirmation"
                                                      ELSE "authenticating"])
    <3>1. (IF v.direct THEN "awaiting_insecure_confirmation" ELSE "authenticating") \in Phases
      BY DEF Phases
    <3> QED
      BY <1>2, <2>2, <3>1, PhaseContinues
  <2> QED
    BY <1>5, <2>1, <2>2 DEF Connect
<1> DEFINE rest == Tail(v.commands)
           taken == [v EXCEPT !.commands = rest]
<1>6. ASSUME v.commands # <<>> PROVE Continues(v, taken)
  <2>1. rest \in Seq(Commands)
    BY <1>2, <1>6 DEF Viewer
  <2> HIDE DEF rest
  <2> QED
    BY <1>2, <2>1 DEF Continues, Viewer
<1>7. CASE Confirm(i)
  <2>1. v.commands # <<>> /\ (\/ Steps(i, [taken EXCEPT !.phase = "authenticating"])
                             \/ Steps(i, Ends(taken, "error"))
                             \/ Steps(i, taken))
    BY <1>7 DEF Confirm
  <2>2. Continues(v, taken) /\ taken \in Viewer
    BY <1>6, <2>1 DEF Continues
  <2> HIDE DEF taken
  <2>3. Continues(taken, [taken EXCEPT !.phase = "authenticating"]) /\ Continues(taken, Ends(taken, "error"))
    BY <2>2, PhaseContinues, EndsContinues DEF Phases
  <2> QED
    BY <2>1, <2>2, <2>3, ContinuesOn
<1>8. CASE Challenge(i)
  <2> DEFINE l == IF v.secret THEN "password" ELSE "empty"
  <2>1. Steps(i, [v EXCEPT !.login = l])
    BY <1>8 DEF Challenge
  <2>2. Continues(v, [v EXCEPT !.login = l])
    BY <1>2 DEF Continues, Viewer
  <2> QED
    BY <2>1, <2>2
<1>9. CASE PeerAnswers(i)
  <2>1. CASE Steps(i, Ends(v, "error"))
    BY <1>2, <2>1, EndsContinues
  <2>2. CASE Steps(i, Accepted(v))
    <3>1. Continues(v, Ends(v, "running"))
      BY <1>2, EndsContinues
    <3>2. Continues(Ends(v, "running"), Accepted(v))
      <4> DEFINE e == Ends(v, "running")
      <4>1. e \in Viewer /\ Accepted(v) = [e EXCEPT !.phase = "authenticated", !.feeder = "idle"]
        BY <3>1 DEF Continues, Accepted
      <4> HIDE DEF e
      <4>2. Continues(e, [e EXCEPT !.phase = "authenticated", !.feeder = "idle"])
        BY <4>1 DEF Continues, Viewer, Phases
      <4> QED
        BY <4>1, <4>2 DEF e
    <3> QED
      BY <2>2, <3>1, <3>2, ContinuesOn
  <2>3. ASSUME v.answers < MaxAnswers, NEW p \in Waits \cup {"awaiting_approval"},
               Steps(i, [v EXCEPT !.phase = p, !.answers = v.answers + 1])
        PROVE  \E w : Continues(v, w) /\ Steps(i, w)
    <3>1. p \in Phases /\ v.answers + 1 \in 0..MaxAnswers
      BY <1>2, <2>3, LoginConstants DEF Viewer, Phases
    <3>2. Continues(v, [v EXCEPT !.phase = p, !.answers = v.answers + 1])
      BY <1>2, <3>1 DEF Continues, Viewer
    <3> QED
      BY <2>3, <3>2
  <2> QED
    BY <1>9, <2>1, <2>2, <2>3 DEF PeerAnswers
<1>10. CASE Command(i)
  <2> DEFINE sent == [taken EXCEPT !.phase = "authenticating"]
  <2>1. v.commands # <<>> /\ (\/ Steps(i, [sent EXCEPT !.login = "password"])
                             \/ Steps(i, sent)
                             \/ Steps(i, taken))
    BY <1>10 DEF Command
  <2>2. Continues(v, taken) /\ taken \in Viewer
    BY <1>6, <2>1 DEF Continues
  <2> HIDE DEF taken
  <2>3. Continues(taken, sent) /\ sent \in Viewer
    BY <2>2, PhaseContinues DEF Phases, Continues
  <2> HIDE DEF sent
  <2>4. Continues(sent, [sent EXCEPT !.login = "password"])
    BY <2>3 DEF Continues, Viewer
  <2> QED
    BY <2>1, <2>2, <2>3, <2>4, ContinuesOn
<1>11. CASE FirstRecord(i)
  <2>1. Steps(i, [v EXCEPT !.phase = "opening_decoder", !.feeder = "waiting"])
    BY <1>11 DEF FirstRecord
  <2>2. Continues(v, [v EXCEPT !.phase = "opening_decoder", !.feeder = "waiting"])
    BY <1>2 DEF Continues, Viewer, Phases
  <2> QED
    BY <2>1, <2>2
<1> DEFINE r == RequestClose(v)
<1>12. Continues(v, r) /\ r \in Viewer
  BY <1>2, RequestCloseContinues DEF Continues
<1>13. CASE Opens(i)
  <2>1. CASE Steps(i, [r EXCEPT !.feeder = "done", !.result = "error"])
    <3> HIDE DEF r
    <3>1. Continues(r, [r EXCEPT !.feeder = "done", !.result = "error"])
      BY <1>12 DEF Continues, Viewer
    <3> QED
      BY <1>12, <2>1, <3>1, ContinuesOn
  <2>2. CASE Steps(i, [v EXCEPT !.feeder = "open", !.phase = "decoding"])
    <3>1. Continues(v, [v EXCEPT !.feeder = "open", !.phase = "decoding"])
      BY <1>2 DEF Continues, Viewer, Phases
    <3> QED
      BY <2>2, <3>1
  <2> QED
    BY <1>13, <2>1, <2>2 DEF Opens
<1>14. CASE Renders(i)
  <2>1. Steps(i, [v EXCEPT !.phase = "streaming"]) /\ "streaming" \in Phases
    BY <1>14 DEF Renders, Phases
  <2> QED
    BY <1>2, <2>1, PhaseContinues
<1>15. CASE Disconnects(i)
  <2>1. PICK q \in {"ok", "error"} : Steps(i, [r EXCEPT !.result = q])
    BY <1>15 DEF Disconnects
  <2> HIDE DEF r
  <2>2. Continues(r, [r EXCEPT !.result = q])
    BY <1>12 DEF Continues, Viewer
  <2> QED
    BY <1>12, <2>1, <2>2, ContinuesOn
<1>16. CASE Stops(i)
  <2> DEFINE q == IF v.result = "running" THEN "ok" ELSE v.result
  <2>1. CASE Steps(i, Ends(v, "ok"))
    BY <1>2, <2>1, EndsContinues
  <2>2. CASE Steps(i, [v EXCEPT !.feeder = "done", !.result = q])
    <3>1. q \in {"running", "ok", "error"}
      BY <1>2 DEF Viewer
    <3> HIDE DEF q
    <3>2. Continues(v, [v EXCEPT !.feeder = "done", !.result = q])
      BY <1>2, <3>1 DEF Continues, Viewer
    <3> QED
      BY <2>2, <3>2
  <2> QED
    BY <1>16, <2>1, <2>2 DEF Stops
<1>17. CASE Finishes(i)
  <2> DEFINE p == IF v.result = "ok" THEN "closed" ELSE "failed"
  <2>1. Steps(i, [v EXCEPT !.closed = TRUE, !.phase = p]) /\ p \in Phases
    BY <1>17 DEF Finishes, Phases
  <2> HIDE DEF p
  <2>2. Continues(v, [v EXCEPT !.closed = TRUE, !.phase = p])
    BY <1>2, <2>1 DEF Continues, Viewer
  <2> QED
    BY <2>1, <2>2
<1> QED
  BY <1>1, <1>4, <1>5, <1>7, <1>8, <1>9, <1>10, <1>11, <1>13, <1>14, <1>15, <1>16, <1>17

LEMMA RecordsAreTold ==
    /\ \A s \in SessionRecords : s # NoSession
    /\ \A c \in StartRecords : c # NoCall
<1>1. \A s \in SessionRecords : s # NoSession
  BY DEF SessionRecords, NoSession
<1>2. \A c \in StartRecords : c # NoCall
  <2> SUFFICES ASSUME NEW c \in StartRecords, c = NoCall PROVE FALSE
    OBVIOUS
  <2>1. "gen" \in DOMAIN c
    BY DEF StartRecords
  <2>2. "gen" \notin DOMAIN NoCall
    BY DEF NoCall
  <2> QED
    BY <2>1, <2>2
<1> QED
  BY <1>1, <1>2

LEMMA LiveIs ==
    ASSUME OhosTypes, NEW id \in Live
    PROVE  id \in Ids /\ sessions[id] \in SessionRecords /\ SessionIsTyped(sessions[id], gens, Len(viewers))
BY DEF Live, OhosTypes

(* Who answers for a backend.                                              *)
LEMMA OwnedIs ==
    \A i : i \in Owned <=> \/ \E id \in Live : sessions[id].viewer = i
                          \/ \E t \in Starters : starts[t] # NoCall /\ starts[t].viewer = i
BY DEF Owned

(* A step of a viewer, or a call that only replaces the record of a live   *)
(* session and keeps its backend.                                          *)
LEMMA ViewersGoOn ==
    ASSUME OhosTypes, viewers' \in Seq(Viewer), Len(viewers') = Len(viewers), gens' = gens,
           starts' = starts, DOMAIN leases' = DOMAIN leases,
           \A l \in DOMAIN leases : leases'[l] \in LeaseStates,
           \A j \in DOMAIN viewers : Continues(viewers[j], viewers'[j]),
           sessions' \in [Ids -> SessionRecords \cup {NoSession}],
           \A id \in Ids : /\ sessions[id] = NoSession <=> sessions'[id] = NoSession
                           /\ sessions[id] # NoSession =>
                                sessions'[id].gen = sessions[id].gen
                                /\ sessions'[id].viewer = sessions[id].viewer
    PROVE  OhosTypes' /\ (NoStrayBackend => NoStrayBackend') /\ Live' = Live
<1>1. Live' = Live
  BY DEF Live
<1>2. \A id \in Live : SessionIsTyped(sessions'[id], gens, Len(viewers))
  <2> SUFFICES ASSUME NEW id \in Live PROVE SessionIsTyped(sessions'[id], gens, Len(viewers))
    BY <1>1
  <2>1. id \in Ids /\ sessions[id] # NoSession /\ SessionIsTyped(sessions[id], gens, Len(viewers))
    BY DEF OhosTypes, Live
  <2> QED
    BY <2>1 DEF SessionIsTyped
<1>3. \A t \in Starters : starts'[t] # NoCall => StartIsTyped(starts'[t], gens, Len(viewers))
  BY DEF OhosTypes, StartIsTyped
<1>4. OhosTypes'
  BY <1>1, <1>2, <1>3 DEF OhosTypes, ViewersAreTyped
<1>5. ASSUME NoStrayBackend PROVE NoStrayBackend'
  <2>1. DOMAIN viewers' = DOMAIN viewers
    BY DEF OhosTypes, ViewersAreTyped
  <2>2. Owned' = Owned
    BY <1>1 DEF Owned, Live
  <2> QED
    BY <1>5, <2>1, <2>2 DEF NoStrayBackend, Continues
<1> QED
  BY <1>1, <1>4, <1>5

(* One live session gets another record with the same backend.             *)
LEMMA RecordReplaced ==
    ASSUME OhosTypes, NEW id \in Live, NEW s \in SessionRecords,
           s.gen = sessions[id].gen, s.viewer = sessions[id].viewer,
           sessions' = [sessions EXCEPT ![id] = s]
    PROVE  /\ sessions' \in [Ids -> SessionRecords \cup {NoSession}]
           /\ sessions'[id] = s /\ \A x \in Ids : x # id => sessions'[x] = sessions[x]
           /\ \A x \in Ids : /\ sessions[x] = NoSession <=> sessions'[x] = NoSession
                             /\ sessions[x] # NoSession =>
                                  sessions'[x].gen = sessions[x].gen
                                  /\ sessions'[x].viewer = sessions[x].viewer
<1>1. id \in Ids /\ sessions[id] # NoSession /\ s # NoSession
  BY RecordsAreTold, LiveIs DEF Live
<1>2. sessions \in [Ids -> SessionRecords \cup {NoSession}]
  BY DEF OhosTypes
<1> QED
  BY <1>1, <1>2

LEMMA RecordKeeps ==
    ASSUME OhosInv, NEW id \in Live, NEW s \in SessionRecords, QuestionStays(s),
           s.gen = sessions[id].gen, s.viewer = sessions[id].viewer,
           sessions' = [sessions EXCEPT ![id] = s], gens' = gens, starts' = starts,
           viewers' \in Seq(Viewer), Len(viewers') = Len(viewers), leases' = leases,
           \A j \in DOMAIN viewers : Continues(viewers[j], viewers'[j])
    PROVE  OhosInv'
<1>1. OhosTypes /\ NoStrayBackend /\ \A x \in Live : QuestionStays(sessions[x])
  BY DEF OhosInv
<1>2. /\ sessions' \in [Ids -> SessionRecords \cup {NoSession}]
      /\ sessions'[id] = s /\ \A x \in Ids : x # id => sessions'[x] = sessions[x]
      /\ \A x \in Ids : /\ sessions[x] = NoSession <=> sessions'[x] = NoSession
                        /\ sessions[x] # NoSession =>
                             sessions'[x].gen = sessions[x].gen
                             /\ sessions'[x].viewer = sessions[x].viewer
  BY <1>1, RecordReplaced
<1>3. \A l \in DOMAIN leases : leases'[l] \in LeaseStates
  BY <1>1 DEF OhosTypes, ViewersAreTyped
<1>4. OhosTypes' /\ NoStrayBackend' /\ Live' = Live
  BY <1>1, <1>2, <1>3, ViewersGoOn
<1>5. \A x \in Live : QuestionStays(sessions'[x])
  BY <1>1, <1>2 DEF Live
<1> QED
  BY <1>4, <1>5 DEF OhosInv, QuestionStays

LEMMA SameContinues ==
    ASSUME viewers \in Seq(Viewer), viewers' = viewers
    PROVE  /\ viewers' \in Seq(Viewer) /\ Len(viewers') = Len(viewers)
           /\ \A j \in DOMAIN viewers : Continues(viewers[j], viewers'[j])
BY ViewerIsViewer DEF Continues

(* The tasks of the viewers.                                               *)
LEMMA TasksKeep ==
    ASSUME OhosInv, UNCHANGED <<sessions, starts, gens>>, leases' = leases,
           viewers' \in Seq(Viewer), Len(viewers') = Len(viewers),
           \A j \in DOMAIN viewers : Continues(viewers[j], viewers'[j])
    PROVE  OhosInv'
<1>1. OhosTypes /\ NoStrayBackend /\ \A x \in Live : QuestionStays(sessions[x])
  BY DEF OhosInv
<1>2. \A l \in DOMAIN leases : leases'[l] \in LeaseStates
  BY <1>1 DEF OhosTypes, ViewersAreTyped
<1>3. sessions \in [Ids -> SessionRecords \cup {NoSession}]
  BY <1>1 DEF OhosTypes
<1>4. OhosTypes' /\ NoStrayBackend' /\ Live' = Live
  BY <1>1, <1>2, <1>3, ViewersGoOn
<1> QED
  BY <1>1, <1>4 DEF OhosInv, QuestionStays

LEMMA VncStepContinues ==
    ASSUME viewers \in Seq(Viewer), NEW i \in DOMAIN viewers, VncSteps(i)
    PROVE  /\ viewers' \in Seq(Viewer) /\ Len(viewers') = Len(viewers) /\ leases' = leases
           /\ \A j \in DOMAIN viewers : Continues(viewers[j], viewers'[j])
<1> DEFINE v == viewers[i]
<1>1. v \in Viewer
  BY ViewerIsViewer
<1>2. SUFFICES \E w : Continues(v, w) /\ Steps(i, w)
  BY ReplacedKeeps DEF Steps
<1>3. CASE Steps(i, [v EXCEPT !.phase = "streaming"])
  BY <1>1, <1>3, PhaseContinues DEF Phases
<1>4. ASSUME NEW r \in {"ok", "error"},
             Steps(i, [v EXCEPT !.feeder = "done", !.phase = "closed", !.result = r, !.closed = TRUE])
      PROVE  \E w : Continues(v, w) /\ Steps(i, w)
  <2>1. Continues(v, [v EXCEPT !.feeder = "done", !.phase = "closed", !.result = r, !.closed = TRUE])
    BY <1>1 DEF Continues, Viewer, Phases
  <2> QED
    BY <1>4, <2>1
<1> QED
  BY <1>3, <1>4 DEF VncSteps

(* The frontend answers a question.                                        *)
LEMMA AskedKeeps ==
    ASSUME OhosInv, NEW id \in Live, NEW c \in Commands, NEW s \in SessionRecords, QuestionStays(s),
           s.gen = sessions[id].gen, s.viewer = sessions[id].viewer, Asks(id, c, s)
    PROVE  OhosInv'
<1> DEFINE i == sessions[id].viewer
<1>1. /\ i # 0 /\ viewers' = [viewers EXCEPT ![i] = Submit(viewers[i], c)]
      /\ sessions' = [sessions EXCEPT ![id] = s] /\ UNCHANGED <<leases, starts, gens>>
  BY DEF Asks
<1>2. OhosTypes /\ viewers \in Seq(Viewer) /\ SessionIsTyped(sessions[id], gens, Len(viewers))
  BY LiveIs DEF OhosInv, OhosTypes, ViewersAreTyped
<1>3. i \in DOMAIN viewers
  BY <1>1, <1>2 DEF SessionIsTyped
<1> DEFINE w == Submit(viewers[i], c)
<1>4. Continues(viewers[i], w)
  BY <1>2, <1>3, ViewerIsViewer, SubmitContinues
<1> HIDE DEF w
<1>5. /\ viewers' \in Seq(Viewer) /\ Len(viewers') = Len(viewers)
      /\ \A j \in DOMAIN viewers : Continues(viewers[j], viewers'[j])
  BY <1>1, <1>2, <1>3, <1>4, ReplacedKeeps DEF w
<1> QED
  BY <1>1, <1>5, RecordKeeps

LEMMA AnsweredIs ==
    ASSUME NEW s \in SessionRecords
    PROVE  /\ Answered(s) \in SessionRecords /\ Answered(s).gen = s.gen
           /\ Answered(s).viewer = s.viewer
           /\ s.prompt # "password" /\ QuestionStays(s) => QuestionStays(Answered(s))
BY DEF Answered, SessionRecords, QuestionStays, Prompts

LEMMA AnswersKeep ==
    ASSUME OhosInv, NEW id \in Ids,
           \/ SessionLogin(id) \/ SessionSend2fa(id) \/ ContinueInsecure(id) \/ RefuseInsecure(id)
    PROVE  OhosInv'
<1> DEFINE s == sessions[id]
           a == Answered(s)
<1>1. id \in Live
  BY DEF SessionLogin, SessionSend2fa, ContinueInsecure, RefuseInsecure
<1>2. /\ OhosTypes /\ viewers \in Seq(Viewer) /\ s \in SessionRecords /\ QuestionStays(s)
      /\ SessionIsTyped(s, gens, Len(viewers))
  BY <1>1, LiveIs DEF OhosInv, OhosTypes, ViewersAreTyped
<1>3. /\ a \in SessionRecords /\ a.gen = s.gen /\ a.viewer = s.viewer
      /\ s.prompt # "password" => QuestionStays(a)
  BY <1>2, AnsweredIs
<1>4. {"password", "second_factor", "continue", "refuse"} \subseteq Commands
  BY DEF Commands
<1>5. CASE SessionLogin(id)
  <2> DEFINE b == [a EXCEPT !.due = TRUE]
  <2>1. Asks(id, "password", b)
    BY <1>5 DEF SessionLogin
  <2> HIDE DEF a
  <2>2. b \in SessionRecords /\ b.gen = s.gen /\ b.viewer = s.viewer /\ QuestionStays(b)
    BY <1>3 DEF SessionRecords, QuestionStays
  <2> QED
    BY <1>1, <1>4, <2>1, <2>2, AskedKeeps
<1>6. CASE SessionSend2fa(id)
  <2>1. Asks(id, "second_factor", a) /\ s.prompt # "password"
    BY <1>6 DEF SessionSend2fa
  <2> QED
    BY <1>1, <1>3, <1>4, <2>1, AskedKeeps
<1>7. CASE ContinueInsecure(id)
  <2>1. Asks(id, "continue", a) /\ s.prompt # "password"
    BY <1>7 DEF ContinueInsecure
  <2> QED
    BY <1>1, <1>3, <1>4, <2>1, AskedKeeps
<1>8. CASE RefuseInsecure(id)
  <2> DEFINE i == s.viewer
             v == viewers[i]
             u == IF CanSubmit(v) THEN Submit(v, "refuse") ELSE v
             w == RequestClose(u)
  <2>1. /\ i # 0 /\ s.prompt # "password" /\ viewers' = [viewers EXCEPT ![i] = w]
        /\ sessions' = [sessions EXCEPT ![id] = a] /\ UNCHANGED <<leases, starts, gens>>
    BY <1>8 DEF RefuseInsecure
  <2>2. i \in DOMAIN viewers
    BY <1>2, <2>1 DEF SessionIsTyped
  <2>3. v \in Viewer
    BY <1>2, <2>2, ViewerIsViewer
  <2>4. Continues(v, u) /\ u \in Viewer
    <3>1. Continues(v, v) /\ Continues(v, Submit(v, "refuse"))
      BY <1>4, <2>3, SubmitContinues DEF Continues
    <3> QED
      BY <3>1 DEF Continues
  <2> HIDE DEF u
  <2>5. Continues(v, w)
    BY <2>4, RequestCloseContinues, ContinuesOn
  <2> HIDE DEF w, a
  <2>6. /\ viewers' \in Seq(Viewer) /\ Len(viewers') = Len(viewers)
        /\ \A j \in DOMAIN viewers : Continues(viewers[j], viewers'[j])
    BY <1>2, <2>1, <2>2, <2>5, ReplacedKeeps
  <2> QED
    BY <1>1, <1>3, <2>1, <2>6, RecordKeeps
<1> QED
  BY <1>5, <1>6, <1>7, <1>8

(* A poll asks what the phase asks for, and keeps the login question.      *)
LEMMA PolledIs ==
    ASSUME NEW s \in SessionRecords, NEW v \in Viewer, QuestionStays(s)
    PROVE  /\ Polled(s, v) \in SessionRecords /\ Polled(s, v).gen = s.gen
           /\ Polled(s, v).viewer = s.viewer /\ QuestionStays(Polled(s, v))
           /\ v.phase = "awaiting_password" => Polled(s, v).prompt = "password"
<1> DEFINE due == s.due /\ ~PasswordDue(s, v)
           info == s.info \/ AnnouncesNow(s, v)
           emitted == s.closeEmitted \/ v.closed
           last == IF v.phase \in Asking THEN v.phase ELSE "none"
           prompt == PromptFor(s, v)
           r == [s EXCEPT !.due = due, !.info = info, !.closeEmitted = emitted,
                          !.lastPhase = last, !.prompt = prompt]
<1>1. Polled(s, v) = r
  BY DEF Polled
<1>2. due \in BOOLEAN /\ info \in BOOLEAN /\ emitted \in BOOLEAN
  BY DEF SessionRecords, Viewer
<1>3. last \in Phases \cup {"none"}
  BY DEF Viewer
<1>4. prompt \in Prompts
  BY DEF PromptFor, Prompts, SessionRecords
<1>5. v.phase = "awaiting_password" => prompt = "password"
  <2> SUFFICES ASSUME v.phase = "awaiting_password" PROVE prompt = "password"
    OBVIOUS
  <2>1. CASE PasswordDue(s, v)
    BY <2>1 DEF PromptFor
  <2>2. CASE ~PasswordDue(s, v)
    <3>1. s.lastPhase = "awaiting_password" /\ ~s.due
      BY <2>2 DEF PasswordDue
    <3>2. prompt = s.prompt
      BY <2>2 DEF PromptFor
    <3> QED
      BY <3>1, <3>2 DEF QuestionStays
  <2> QED
    BY <2>1, <2>2
<1>6. last = "awaiting_password" => v.phase = "awaiting_password"
  OBVIOUS
<1> HIDE DEF due, info, emitted, last, prompt
<1>7. /\ r \in SessionRecords /\ r.gen = s.gen /\ r.viewer = s.viewer
      /\ r.lastPhase = last /\ r.prompt = prompt
  BY <1>2, <1>3, <1>4 DEF SessionRecords
<1> QED
  BY <1>1, <1>5, <1>6, <1>7 DEF QuestionStays

LEMMA PollKeeps ==
    ASSUME OhosInv, NEW id \in Ids, PollEvents(id)
    PROVE  OhosInv'
<1> DEFINE s == sessions[id]
           v == viewers[s.viewer]
           p == Polled(s, v)
<1>1. /\ id \in Live /\ s.viewer # 0 /\ sessions' = [sessions EXCEPT ![id] = p]
      /\ UNCHANGED <<viewers, leases, starts, gens>>
  BY DEF PollEvents
<1>2. /\ OhosTypes /\ viewers \in Seq(Viewer) /\ s \in SessionRecords /\ QuestionStays(s)
      /\ SessionIsTyped(s, gens, Len(viewers))
  BY <1>1, LiveIs DEF OhosInv, OhosTypes, ViewersAreTyped
<1>3. v \in Viewer
  BY <1>1, <1>2, ViewerIsViewer DEF SessionIsTyped
<1>4. p \in SessionRecords /\ p.gen = s.gen /\ p.viewer = s.viewer /\ QuestionStays(p)
  BY <1>2, <1>3, PolledIs
<1> HIDE DEF p
<1> QED
  BY <1>1, <1>2, <1>4, SameContinues, RecordKeeps

LEMMA AddKeeps ==
    ASSUME OhosInv, NEW id \in Ids, SessionAdd(id)
    PROVE  OhosInv'
<1>1. /\ OhosTypes /\ NoStrayBackend /\ \A x \in Live : QuestionStays(sessions[x])
      /\ gens \in Nat /\ viewers \in Seq(Viewer)
  BY OhosConstants DEF OhosInv, OhosTypes, ViewersAreTyped
<1>2. PICK target \in Targets :
          /\ parse_route(target) # "none"
          /\ sessions' = [sessions EXCEPT ![id] = Session(parse_route(target))]
  BY DEF SessionAdd
<1>3. id \notin Live /\ gens < MaxGens /\ gens' = gens + 1 /\ UNCHANGED <<viewers, leases, starts>>
  BY DEF SessionAdd
<1> DEFINE s == Session(parse_route(target))
<1>4. parse_route(target) \in Routes
  BY <1>2 DEF parse_route, Routes
<1>5. s \in SessionRecords /\ s.gen = gens + 1 /\ s.viewer = 0 /\ QuestionStays(s)
  BY <1>1, <1>4 DEF Session, SessionRecords, QuestionStays, Prompts
<1> HIDE DEF s
<1>6. /\ sessions' \in [Ids -> SessionRecords \cup {NoSession}]
      /\ sessions'[id] = s /\ \A x \in Ids : x # id => sessions'[x] = sessions[x]
  BY <1>1, <1>2, <1>5 DEF OhosTypes, s
<1>7. \A x \in Live : x # id /\ sessions'[x] = sessions[x] /\ x \in Live'
  BY <1>3, <1>6 DEF Live
<1>8. \A x \in Live' : x = id \/ x \in Live
  BY <1>6 DEF Live
<1>9. \A x \in Live' : SessionIsTyped(sessions'[x], gens', Len(viewers'))
  <2> SUFFICES ASSUME NEW x \in Live' PROVE SessionIsTyped(sessions'[x], gens', Len(viewers'))
    OBVIOUS
  <2>1. CASE x = id
    BY <1>1, <1>3, <1>5, <1>6, <2>1 DEF SessionIsTyped
  <2>2. CASE x # id
    <3>1. x \in Live /\ sessions'[x] = sessions[x]
      BY <1>7, <1>8, <2>2
    <3>2. SessionIsTyped(sessions[x], gens, Len(viewers))
      BY <1>1, <3>1, LiveIs
    <3> QED
      BY <1>1, <1>3, <3>1, <3>2 DEF SessionIsTyped
  <2> QED
    BY <2>1, <2>2
<1>10. \A t \in Starters : starts'[t] # NoCall => StartIsTyped(starts'[t], gens', Len(viewers'))
  BY <1>1, <1>3 DEF OhosTypes, StartIsTyped
<1>11. OhosTypes'
  BY <1>1, <1>3, <1>6, <1>9, <1>10, OhosConstants DEF OhosTypes, ViewersAreTyped
<1>12. NoStrayBackend'
  <2> SUFFICES ASSUME NEW i \in DOMAIN viewers, i \in Owned PROVE i \in Owned'
    BY <1>1, <1>3 DEF NoStrayBackend
  <2>1. \/ \E x \in Live : sessions[x].viewer = i
        \/ \E t \in Starters : starts[t] # NoCall /\ starts[t].viewer = i
    BY OwnedIs
  <2> QED
    BY <1>3, <1>7, <2>1 DEF Owned
<1>13. \A x \in Live' : QuestionStays(sessions'[x])
  BY <1>1, <1>5, <1>6, <1>7, <1>8
<1> QED
  BY <1>11, <1>12, <1>13 DEF OhosInv, QuestionStays

LEMMA BindKeeps ==
    ASSUME OhosInv, NEW id \in Ids, BindSurface(id)
    PROVE  OhosInv'
<1>1. /\ OhosTypes /\ NoStrayBackend /\ \A x \in Live : QuestionStays(sessions[x])
      /\ viewers \in Seq(Viewer) /\ sessions \in [Ids -> SessionRecords \cup {NoSession}]
      /\ \A l \in DOMAIN leases : leases[l] \in LeaseStates
  BY DEF OhosInv, OhosTypes, ViewersAreTyped
<1>2. leases' = [leases EXCEPT ![sessions[id].gen] = "bound"] /\ UNCHANGED <<viewers, sessions, starts, gens>>
  BY DEF BindSurface, Bind
<1>3. DOMAIN leases' = DOMAIN leases /\ \A l \in DOMAIN leases : leases'[l] \in LeaseStates
  BY <1>1, <1>2 DEF LeaseStates
<1>4. OhosTypes' /\ NoStrayBackend' /\ Live' = Live
  BY <1>1, <1>2, <1>3, SameContinues, ViewersGoOn
<1> QED
  BY <1>1, <1>2, <1>4 DEF OhosInv, QuestionStays

(* A session that goes drops its backend.                                  *)
LEMMA CloseKeeps ==
    ASSUME OhosInv, NEW id \in Ids, SessionClose(id)
    PROVE  OhosInv'
<1> DEFINE b == sessions[id].viewer
<1>1. /\ OhosTypes /\ NoStrayBackend /\ \A x \in Live : QuestionStays(sessions[x])
      /\ gens \in Nat /\ viewers \in Seq(Viewer)
      /\ \A l \in DOMAIN leases : leases[l] \in LeaseStates
  BY OhosConstants DEF OhosInv, OhosTypes, ViewersAreTyped
<1>2. /\ id \in Live /\ sessions' = [sessions EXCEPT ![id] = NoSession]
      /\ leases' = EndsLease(sessions[id].gen)
      /\ viewers' = IF b = 0 THEN viewers ELSE [viewers EXCEPT ![b] = Drops(viewers[b])]
      /\ UNCHANGED <<starts, gens>>
  BY DEF SessionClose
<1>3. SessionIsTyped(sessions[id], gens, Len(viewers))
  BY <1>1, <1>2, LiveIs
<1>4. /\ viewers' \in Seq(Viewer) /\ Len(viewers') = Len(viewers)
      /\ \A j \in DOMAIN viewers : Continues(viewers[j], viewers'[j])
      /\ b # 0 => viewers'[b].cancel
  <2>1. CASE b = 0
    BY <1>1, <1>2, <2>1, SameContinues
  <2>2. CASE b # 0
    <3>1. b \in DOMAIN viewers
      BY <1>1, <1>3, <2>2 DEF SessionIsTyped
    <3> DEFINE w == Drops(viewers[b])
    <3>2. Continues(viewers[b], w) /\ w.cancel
      BY <1>1, <3>1, ViewerIsViewer, RequestCloseContinues DEF Drops
    <3> HIDE DEF w
    <3>3. viewers' = [viewers EXCEPT ![b] = w]
      BY <1>2, <2>2 DEF w
    <3> HIDE DEF b
    <3> QED
      BY <1>1, <3>1, <3>2, <3>3, ReplacedKeeps
  <2> QED
    BY <2>1, <2>2
<1>5. DOMAIN leases' = DOMAIN leases /\ \A l \in DOMAIN leases : leases'[l] \in LeaseStates
  BY <1>1, <1>2 DEF EndsLease, LeaseStates
<1>6. /\ sessions' \in [Ids -> SessionRecords \cup {NoSession}]
      /\ sessions'[id] = NoSession /\ \A x \in Ids : x # id => sessions'[x] = sessions[x]
  BY <1>1, <1>2 DEF OhosTypes
<1>7. Live' = Live \ {id}
  BY <1>6 DEF Live
<1>8. \A x \in Live' : SessionIsTyped(sessions'[x], gens', Len(viewers'))
  BY <1>1, <1>2, <1>4, <1>6, <1>7, LiveIs
<1>9. \A t \in Starters : starts'[t] # NoCall => StartIsTyped(starts'[t], gens', Len(viewers'))
  BY <1>1, <1>2, <1>4 DEF OhosTypes
<1>10. OhosTypes'
  BY <1>1, <1>2, <1>4, <1>5, <1>6, <1>8, <1>9 DEF OhosTypes, ViewersAreTyped
<1>11. NoStrayBackend'
  <2> SUFFICES ASSUME NEW i \in DOMAIN viewers, i \notin Owned'
               PROVE  viewers'[i].cancel \/ viewers'[i].closed
    BY <1>1, <1>4 DEF NoStrayBackend
  <2>1. Continues(viewers[i], viewers'[i])
    BY <1>4
  <2>2. CASE i \notin Owned
    BY <1>1, <2>1, <2>2 DEF NoStrayBackend, Continues
  <2>3. CASE i \in Owned
    <3>1. \/ \E x \in Live : sessions[x].viewer = i
          \/ \E t \in Starters : starts[t] # NoCall /\ starts[t].viewer = i
      BY <2>3, OwnedIs
    <3>2. i = b
      BY <1>2, <1>6, <1>7, <3>1, LiveIs, <1>1 DEF Owned
    <3>3. i # 0
      BY <1>1
    <3> QED
      BY <1>4, <3>2, <3>3
  <2> QED
    BY <2>2, <2>3
<1>12. \A x \in Live' : QuestionStays(sessions'[x])
  BY <1>1, <1>6, <1>7, LiveIs
<1> QED
  BY <1>10, <1>11, <1>12 DEF OhosInv, QuestionStays

StartBecomes(t, c) == starts' = [starts EXCEPT ![t] = c]

(* A start on its own: the registry stays, and the call answers for what   *)
(* it answered for, or for a new backend.                                  *)
LEMMA StartKeeps ==
    ASSUME OhosInv, NEW t \in Starters, NEW c \in StartRecords \cup {NoCall},
           StartBecomes(t, c), leases' = leases, sessions' = sessions, gens' = gens,
           viewers' \in Seq(Viewer), Len(viewers') >= Len(viewers),
           c # NoCall => StartIsTyped(c, gens, Len(viewers')),
           \A j \in DOMAIN viewers : Continues(viewers[j], viewers'[j]),
           starts[t] # NoCall /\ starts[t].viewer # 0 => c # NoCall /\ c.viewer = starts[t].viewer,
           \A j \in DOMAIN viewers' : j \in DOMAIN viewers \/ (c # NoCall /\ c.viewer = j)
    PROVE  OhosInv'
<1>1. /\ OhosTypes /\ NoStrayBackend /\ \A x \in Live : QuestionStays(sessions[x])
      /\ gens \in Nat /\ viewers \in Seq(Viewer) /\ starts \in [Starters -> StartRecords \cup {NoCall}]
  BY OhosConstants DEF OhosInv, OhosTypes, ViewersAreTyped
<1>2. /\ starts' \in [Starters -> StartRecords \cup {NoCall}]
      /\ starts'[t] = c /\ \A u \in Starters : u # t => starts'[u] = starts[u]
  BY <1>1 DEF StartBecomes
<1>3. Live' = Live
  BY DEF Live
<1> DEFINE n == Len(viewers)
           m == Len(viewers')
<1>4. n \in Nat /\ m \in Nat /\ n <= m /\ n = Len(viewers) /\ m = Len(viewers')
  BY <1>1
<1> HIDE DEF n, m
<1>5. \A x \in Live' : SessionIsTyped(sessions'[x], gens', m)
  <2> SUFFICES ASSUME NEW x \in Live PROVE SessionIsTyped(sessions[x], gens, m)
    BY <1>3
  <2>1. SessionIsTyped(sessions[x], gens, n)
    BY <1>1, <1>4, LiveIs
  <2> QED
    BY <1>4, <2>1 DEF SessionIsTyped
<1>6. \A u \in Starters : starts'[u] # NoCall => StartIsTyped(starts'[u], gens', m)
  <2> SUFFICES ASSUME NEW u \in Starters, starts'[u] # NoCall, u # t
               PROVE  StartIsTyped(starts'[u], gens, m)
    BY <1>2, <1>4
  <2>1. starts'[u] = starts[u] /\ StartIsTyped(starts[u], gens, n)
    BY <1>1, <1>2, <1>4 DEF OhosTypes
  <2> QED
    BY <1>4, <2>1 DEF StartIsTyped
<1>7. OhosTypes'
  BY <1>1, <1>2, <1>4, <1>5, <1>6 DEF OhosTypes, ViewersAreTyped
<1>8. NoStrayBackend'
  <2> SUFFICES ASSUME NEW i \in DOMAIN viewers', i \notin Owned'
               PROVE  viewers'[i].cancel \/ viewers'[i].closed
    BY DEF NoStrayBackend
  <2>1. c = NoCall \/ c.viewer # i
    BY <1>2 DEF Owned
  <2>2. i \in DOMAIN viewers /\ Continues(viewers[i], viewers'[i])
    BY <2>1
  <2>3. i # 0
    BY <1>1, <2>2
  <2>4. i \notin Owned
    <3> SUFFICES ASSUME i \in Owned PROVE FALSE
      OBVIOUS
    <3>1. CASE \E x \in Live : sessions[x].viewer = i
      BY <1>3, <3>1 DEF Owned
    <3>2. ASSUME NEW u \in Starters, starts[u] # NoCall, starts[u].viewer = i PROVE FALSE
      <4>1. CASE u = t
        BY <2>1, <2>3, <3>2, <4>1
      <4>2. CASE u # t
        BY <1>2, <3>2, <4>2 DEF Owned
      <4> QED
        BY <4>1, <4>2
    <3> QED
      BY <3>1, <3>2, OwnedIs
  <2> QED
    BY <1>1, <2>2, <2>4 DEF NoStrayBackend, Continues
<1> QED
  BY <1>1, <1>3, <1>7, <1>8 DEF OhosInv, QuestionStays

LEMMA BeginsKeeps ==
    ASSUME OhosInv, NEW t \in Starters, NEW id \in Ids, StartBegins(t, id)
    PROVE  OhosInv'
<1> DEFINE c == [id |-> id, gen |-> sessions[id].gen, route |-> sessions[id].route,
                 step |-> "dial", viewer |-> 0]
<1>1. /\ starts[t] = NoCall /\ id \in Live /\ starts' = [starts EXCEPT ![t] = c]
      /\ UNCHANGED <<viewers, leases, sessions, gens>>
  BY DEF StartBegins
<1>2. /\ OhosTypes /\ viewers \in Seq(Viewer) /\ sessions[id] \in SessionRecords
      /\ SessionIsTyped(sessions[id], gens, Len(viewers)) /\ Len(viewers) \in Nat
  BY <1>1, LiveIs DEF OhosInv, OhosTypes, ViewersAreTyped
<1>3. c \in StartRecords /\ c.viewer = 0 /\ c.gen \in 1..gens
  BY <1>2 DEF StartRecords, SessionRecords, SessionIsTyped
<1> HIDE DEF c
<1>4. StartIsTyped(c, gens, Len(viewers))
  BY <1>2, <1>3 DEF StartIsTyped
<1>5. /\ viewers' \in Seq(Viewer) /\ Len(viewers') = Len(viewers) /\ Len(viewers') >= Len(viewers)
      /\ \A j \in DOMAIN viewers : Continues(viewers[j], viewers'[j])
      /\ \A j \in DOMAIN viewers' : j \in DOMAIN viewers
  BY <1>1, <1>2, SameContinues
<1>6. StartIsTyped(c, gens, Len(viewers'))
  BY <1>4, <1>5
<1>7. StartBecomes(t, c) /\ leases' = leases /\ sessions' = sessions /\ gens' = gens
  BY <1>1 DEF StartBecomes
<1> QED
  BY <1>1, <1>3, <1>5, <1>6, <1>7, StartKeeps

LEMMA StartedIsViewer ==
    ASSUME NEW d \in BOOLEAN, NEW l \in Nat
    PROVE  /\ Started(d, FALSE, l) \in Viewer
           /\ [Started(TRUE, FALSE, l) EXCEPT !.phase = "connected", !.feeder = "vnc"] \in Viewer
<1>1. 0 \in 0..MaxAnswers /\ <<>> \in Seq(Commands)
  BY LoginConstants
<1>2. Started(d, FALSE, l) \in Viewer /\ Started(TRUE, FALSE, l) \in Viewer
  BY <1>1 DEF Started, Viewer, Phases
<1> QED
  BY <1>2 DEF Viewer, Phases

LEMMA AppendedContinues ==
    ASSUME viewers \in Seq(Viewer), NEW w \in Viewer, viewers' = Append(viewers, w)
    PROVE  /\ viewers' \in Seq(Viewer) /\ Len(viewers') = Len(viewers) + 1
           /\ Len(viewers) \in Nat
           /\ \A j \in DOMAIN viewers : Continues(viewers[j], viewers'[j])
           /\ \A j \in DOMAIN viewers' : j \in DOMAIN viewers \/ j = Len(viewers) + 1
<1>1. \A j \in DOMAIN viewers : viewers[j] \in Viewer /\ viewers'[j] = viewers[j]
  OBVIOUS
<1> QED
  BY <1>1 DEF Continues

LEMMA DialsKeeps ==
    ASSUME OhosInv, NEW t \in Starters, StartDials(t)
    PROVE  OhosInv'
<1> DEFINE c == starts[t]
           n == Len(viewers)
           w == IF c.route = "vnc"
                THEN [Started(TRUE, FALSE, c.gen) EXCEPT !.phase = "connected", !.feeder = "vnc"]
                ELSE Started(c.route = "direct", FALSE, c.gen)
<1>1. /\ c # NoCall /\ c.step = "dial" /\ UNCHANGED <<leases, sessions, gens>>
      /\ \/ starts' = [starts EXCEPT ![t] = NoCall] /\ UNCHANGED viewers
         \/ starts' = [starts EXCEPT ![t] = [c EXCEPT !.step = "install"]] /\ UNCHANGED viewers
         \/ /\ viewers' = Append(viewers, w)
            /\ starts' = [starts EXCEPT ![t] = [c EXCEPT !.step = "install", !.viewer = n + 1]]
  <2>1. starts \in [Starters -> StartRecords \cup {NoCall}]
    BY DEF OhosInv, OhosTypes
  <2> QED
    BY <2>1 DEF StartDials
<1>2. /\ OhosTypes /\ viewers \in Seq(Viewer) /\ n \in Nat /\ n = Len(viewers)
      /\ c \in StartRecords /\ c.gen \in 1..gens /\ c.viewer = 0
  BY <1>1 DEF OhosInv, OhosTypes, ViewersAreTyped, StartIsTyped
<1>3. w \in Viewer
  <2>1. c.gen \in Nat /\ (c.route = "direct") \in BOOLEAN
    BY <1>2 DEF StartRecords
  <2> QED
    BY <2>1, StartedIsViewer
<1> HIDE DEF c, n, w
<1>4. leases' = leases /\ sessions' = sessions /\ gens' = gens
      /\ starts[t] # NoCall /\ starts[t].viewer = 0
  BY <1>1, <1>2 DEF c
<1>5. ASSUME UNCHANGED viewers
      PROVE  /\ viewers' \in Seq(Viewer) /\ Len(viewers') = n /\ Len(viewers') >= Len(viewers)
             /\ \A j \in DOMAIN viewers : Continues(viewers[j], viewers'[j])
             /\ \A j \in DOMAIN viewers' : j \in DOMAIN viewers
  BY <1>2, <1>5, SameContinues
<1>6. CASE starts' = [starts EXCEPT ![t] = NoCall] /\ UNCHANGED viewers
  <2>1. StartBecomes(t, NoCall) /\ NoCall \in StartRecords \cup {NoCall}
    BY <1>6 DEF StartBecomes
  <2> QED
    BY <1>4, <1>5, <1>6, <2>1, StartKeeps
<1>7. CASE starts' = [starts EXCEPT ![t] = [c EXCEPT !.step = "install"]] /\ UNCHANGED viewers
  <2> DEFINE d == [c EXCEPT !.step = "install"]
  <2>1. d \in StartRecords /\ d.gen = c.gen /\ d.viewer = c.viewer /\ d.step = "install"
    BY <1>2 DEF StartRecords
  <2>2. StartBecomes(t, d)
    BY <1>7 DEF StartBecomes
  <2> HIDE DEF d
  <2>3. StartIsTyped(d, gens, n)
    BY <1>2, <2>1 DEF StartIsTyped
  <2>4. StartIsTyped(d, gens, Len(viewers'))
    BY <1>5, <1>7, <2>3
  <2> QED
    BY <1>4, <1>5, <1>7, <2>1, <2>2, <2>4, StartKeeps
<1>8. CASE /\ viewers' = Append(viewers, w)
           /\ starts' = [starts EXCEPT ![t] = [c EXCEPT !.step = "install", !.viewer = n + 1]]
  <2> DEFINE m == n + 1
             d == [c EXCEPT !.step = "install", !.viewer = m]
  <2>1. m \in Nat /\ m \in 0..m
    BY <1>2
  <2>2. StartBecomes(t, d)
    BY <1>8 DEF StartBecomes
  <2>3. /\ viewers' \in Seq(Viewer) /\ Len(viewers') = m
        /\ \A j \in DOMAIN viewers : Continues(viewers[j], viewers'[j])
        /\ \A j \in DOMAIN viewers' : j \in DOMAIN viewers \/ j = m
    BY <1>2, <1>3, <1>8, AppendedContinues
  <2>4. Len(viewers') >= Len(viewers)
    BY <1>2, <2>3
  <2> HIDE DEF m
  <2>5. d \in StartRecords /\ d.gen = c.gen /\ d.viewer = m /\ d.step = "install"
    BY <1>2, <2>1 DEF StartRecords
  <2> HIDE DEF d
  <2>6. StartIsTyped(d, gens, Len(viewers'))
    BY <1>2, <2>1, <2>3, <2>5 DEF StartIsTyped
  <2>7. d # NoCall
    BY <2>5, RecordsAreTold
  <2> QED
    BY <1>4, <2>2, <2>3, <2>4, <2>5, <2>6, <2>7, StartKeeps
<1> QED
  BY <1>1, <1>6, <1>7, <1>8 DEF c, n, w

(* A start that installs its backend drops the one it replaces, or its own *)
(* when the session is gone.                                               *)
LEMMA InstallsKeeps ==
    ASSUME OhosInv, NEW t \in Starters, StartInstalls(t)
    PROVE  OhosInv'
<1> DEFINE c == starts[t]
           x == c.id
           b == c.viewer
           old == IF x \in Live THEN sessions[x].viewer ELSE b
           s == [sessions[x] EXCEPT !.viewer = b]
<1>1. /\ OhosTypes /\ NoStrayBackend /\ \A y \in Live : QuestionStays(sessions[y])
      /\ viewers \in Seq(Viewer) /\ sessions \in [Ids -> SessionRecords \cup {NoSession}]
      /\ starts \in [Starters -> StartRecords \cup {NoCall}]
      /\ \A l \in DOMAIN leases : leases[l] \in LeaseStates
  BY DEF OhosInv, OhosTypes, ViewersAreTyped
<1>2. /\ c # NoCall /\ StartBecomes(t, NoCall) /\ UNCHANGED <<leases, gens>>
      /\ sessions' = IF x \in Live /\ b # 0 THEN [sessions EXCEPT ![x] = s] ELSE sessions
      /\ viewers' = IF b # 0 /\ old # 0 THEN [viewers EXCEPT ![old] = Drops(viewers[old])] ELSE viewers
  BY <1>1 DEF StartInstalls, StartBecomes
<1>3. /\ c \in StartRecords /\ StartIsTyped(c, gens, Len(viewers)) /\ b \in 0..Len(viewers)
      /\ Len(viewers) \in Nat /\ DOMAIN viewers = 1..Len(viewers) /\ x \in Ids /\ b \in Nat
  BY <1>1, <1>2 DEF OhosTypes, StartIsTyped, StartRecords
<1>4. old \in 0..Len(viewers)
  BY <1>1, <1>3, LiveIs DEF SessionIsTyped
<1>5. /\ starts' \in [Starters -> StartRecords \cup {NoCall}]
      /\ starts'[t] = NoCall /\ \A u \in Starters : u # t => starts'[u] = starts[u]
  BY <1>1, <1>2 DEF StartBecomes
<1>6. CASE b = 0
  <2>1. /\ viewers' = viewers /\ sessions' = sessions /\ leases' = leases /\ gens' = gens
        /\ starts[t].viewer = 0
    BY <1>2, <1>6
  <2>2. /\ viewers' \in Seq(Viewer) /\ Len(viewers') >= Len(viewers)
        /\ \A j \in DOMAIN viewers : Continues(viewers[j], viewers'[j])
        /\ \A j \in DOMAIN viewers' : j \in DOMAIN viewers
    BY <1>1, <1>3, <2>1, SameContinues
  <2>3. NoCall \in StartRecords \cup {NoCall}
    OBVIOUS
  <2> QED
    BY <1>2, <2>1, <2>2, <2>3, StartKeeps
<1>7. CASE b # 0
  <2>1. /\ viewers' \in Seq(Viewer) /\ Len(viewers') = Len(viewers)
        /\ \A j \in DOMAIN viewers : Continues(viewers[j], viewers'[j])
        /\ old # 0 => viewers'[old].cancel
    <3>1. CASE old = 0
      BY <1>1, <1>2, <3>1, SameContinues
    <3>2. CASE old # 0
      <4>1. old \in DOMAIN viewers
        BY <1>3, <1>4, <3>2
      <4> DEFINE w == Drops(viewers[old])
      <4>2. Continues(viewers[old], w) /\ w.cancel
        BY <1>1, <4>1, ViewerIsViewer, RequestCloseContinues DEF Drops
      <4> HIDE DEF w
      <4>3. viewers' = [viewers EXCEPT ![old] = w]
        BY <1>2, <1>7, <3>2 DEF w
      <4> HIDE DEF old
      <4> QED
        BY <1>1, <4>1, <4>2, <4>3, ReplacedKeeps
    <3> QED
      BY <3>1, <3>2
  <2> HIDE DEF s
  <2>2. x \in Live => s \in SessionRecords /\ s # NoSession /\ s.viewer = b /\ s.gen = sessions[x].gen
                      /\ QuestionStays(s)
    <3> SUFFICES ASSUME x \in Live
                 PROVE  s \in SessionRecords /\ s # NoSession /\ s.viewer = b
                        /\ s.gen = sessions[x].gen /\ QuestionStays(s)
      OBVIOUS
    <3> DEFINE r == sessions[x]
    <3>1. r \in SessionRecords /\ QuestionStays(r) /\ s = [r EXCEPT !.viewer = b]
      BY <1>1, LiveIs DEF s
    <3> HIDE DEF r
    <3>2. s \in SessionRecords /\ s.viewer = b /\ s.gen = r.gen /\ QuestionStays(s)
      BY <1>3, <3>1 DEF SessionRecords, QuestionStays
    <3> QED
      BY <3>2, RecordsAreTold DEF r
  <2>3. /\ sessions' \in [Ids -> SessionRecords \cup {NoSession}]
        /\ x \in Live => sessions'[x] = s
        /\ x \notin Live => sessions' = sessions
        /\ \A y \in Ids : y # x => sessions'[y] = sessions[y]
    BY <1>1, <1>2, <1>3, <1>7, <2>2
  <2>4. Live' = Live
    BY <2>2, <2>3 DEF Live
  <2>5. \A y \in Live' : SessionIsTyped(sessions'[y], gens', Len(viewers')) /\ QuestionStays(sessions'[y])
    <3> SUFFICES ASSUME NEW y \in Live
                 PROVE  SessionIsTyped(sessions'[y], gens, Len(viewers)) /\ QuestionStays(sessions'[y])
      BY <1>2, <2>1, <2>4
    <3>1. SessionIsTyped(sessions[y], gens, Len(viewers)) /\ QuestionStays(sessions[y]) /\ y \in Ids
      BY <1>1, LiveIs
    <3>2. CASE y = x
      <4>1. sessions'[y] = s /\ QuestionStays(s) /\ s.gen = sessions[y].gen /\ s.viewer = b
        BY <2>2, <2>3, <3>2
      <4> QED
        BY <1>3, <3>1, <4>1 DEF SessionIsTyped
    <3>3. CASE y # x
      BY <2>3, <3>1, <3>3
    <3> QED
      BY <3>2, <3>3
  <2>6. \A u \in Starters : starts'[u] # NoCall => StartIsTyped(starts'[u], gens', Len(viewers'))
    BY <1>1, <1>2, <1>5, <2>1 DEF OhosTypes
  <2>7. OhosTypes'
    BY <1>1, <1>2, <1>5, <2>1, <2>3, <2>5, <2>6 DEF OhosTypes, ViewersAreTyped
  <2>8. NoStrayBackend'
    <3> SUFFICES ASSUME NEW i \in DOMAIN viewers, i \notin Owned'
                 PROVE  viewers'[i].cancel \/ viewers'[i].closed
      BY <1>1, <2>1 DEF NoStrayBackend
    <3>1. Continues(viewers[i], viewers'[i]) /\ i # 0
      BY <1>3, <2>1
    <3>2. CASE i = old
      BY <2>1, <3>1, <3>2
    <3>3. CASE i # old
      <4>1. i \notin Owned
        <5> SUFFICES ASSUME i \in Owned PROVE FALSE
          OBVIOUS
        <5>1. ASSUME NEW y \in Live, sessions[y].viewer = i PROVE FALSE
          <6>1. y # x
            BY <3>3, <5>1
          <6>2. sessions'[y].viewer = i
            BY <2>3, <5>1, <6>1 DEF Live
          <6> QED
            BY <2>4, <5>1, <6>2 DEF Owned
        <5>2. ASSUME NEW u \in Starters, starts[u] # NoCall, starts[u].viewer = i PROVE FALSE
          <6>1. CASE u # t
            BY <1>5, <5>2, <6>1 DEF Owned
          <6>2. CASE u = t
            <7>1. b = i /\ x \in Live
              BY <3>3, <5>2, <6>2
            <7>2. sessions'[x].viewer = i
              BY <2>2, <2>3, <7>1
            <7> QED
              BY <2>4, <7>1, <7>2 DEF Owned
          <6> QED
            BY <6>1, <6>2
        <5> QED
          BY <5>1, <5>2, OwnedIs
      <4> QED
        BY <1>1, <3>1, <4>1 DEF NoStrayBackend, Continues
    <3> QED
      BY <3>2, <3>3
  <2> QED
    BY <2>5, <2>7, <2>8 DEF OhosInv, QuestionStays
<1> QED
  BY <1>3, <1>6, <1>7

LEMMA OhosStepKeeps ==
    ASSUME OhosInv, OhosNext
    PROVE  OhosInv'
<1>1. viewers \in Seq(Viewer)
  BY DEF OhosInv, OhosTypes, ViewersAreTyped
<1>2. CASE LoginNext /\ UNCHANGED <<sessions, starts, gens>>
  BY <1>1, <1>2, LoginStepKeeps, TasksKeep
<1>3. ASSUME NEW i \in DOMAIN viewers, VncSteps(i), UNCHANGED <<sessions, starts, gens>>
      PROVE  OhosInv'
  BY <1>1, <1>3, VncStepContinues, TasksKeep
<1>4. ASSUME NEW id \in Ids,
             \/ SessionAdd(id) \/ BindSurface(id)
             \/ SessionLogin(id) \/ SessionSend2fa(id)
             \/ ContinueInsecure(id) \/ RefuseInsecure(id)
             \/ SessionClose(id) \/ PollEvents(id)
      PROVE  OhosInv'
  BY <1>4, AddKeeps, BindKeeps, AnswersKeep, CloseKeeps, PollKeeps
<1>5. ASSUME NEW t \in Starters,
             \/ \E id \in Ids : StartBegins(t, id)
             \/ StartDials(t) \/ StartInstalls(t)
      PROVE  OhosInv'
  BY <1>5, BeginsKeeps, DialsKeeps, InstallsKeeps
<1> QED
  BY <1>2, <1>3, <1>4, <1>5 DEF OhosNext

-----------------------------------------------------------------------------
(* The Flutter registry.                                                   *)

EntryIsTyped(e, n, k) ==
    e \in EntryRecords \cup {NoEntry} /\ e.viewer \in 0..n /\ e.stream \in 0..k

LEMMA FlutterFacts ==
    ASSUME FlutterInv
    PROVE  /\ viewers \in Seq(Viewer) /\ Len(viewers) \in Nat /\ Len(heard) \in Nat
           /\ MaxStreams \in Nat
           /\ EntryIsTyped(entry, Len(viewers), Len(heard))
           /\ entry.exists \/ entry.viewer # 0 => entry \in EntryRecords
           /\ NoEntry.viewer = 0 /\ NoEntry.stream = 0 /\ Idle \in Startings
BY FlutterConstants DEF FlutterInv, ViewersAreTyped, EntryIsTyped, NoEntry, Idle, Startings

LEMMA FlutterParts ==
    ASSUME FlutterInv, leases' = leases, viewers' \in Seq(Viewer),
           EntryIsTyped(entry', Len(viewers'), Len(heard')), heard' \in Seq(BOOLEAN),
           Len(heard') <= MaxStreams, pumps' \in [1..MaxStreams -> PumpPlaces],
           starting' \in [Callers -> Startings], flutterAdds' \in 0..MaxAdds
    PROVE  FlutterInv'
BY DEF FlutterInv, ViewersAreTyped, EntryIsTyped

(* A step of the viewers, or of a call that only answers or closes one.    *)
LEMMA FlutterViewersKeep ==
    ASSUME FlutterInv, leases' = leases, viewers' \in Seq(Viewer), Len(viewers') = Len(viewers),
           EntryIsTyped(entry', Len(viewers), Len(heard)),
           UNCHANGED <<heard, pumps, starting, flutterAdds>>
    PROVE  FlutterInv'
BY FlutterParts DEF FlutterInv

LEMMA AddSyncKeeps ==
    ASSUME FlutterInv, SessionAddSync
    PROVE  FlutterInv'
<1>1. PICK direct \in BOOLEAN : entry' = NewEntry(direct)
  BY DEF SessionAddSync
<1>2. /\ flutterAdds < MaxAdds /\ flutterAdds' = flutterAdds + 1
      /\ UNCHANGED <<viewers, leases, heard, pumps, starting>>
  BY DEF SessionAddSync
<1>3. NewEntry(direct) \in EntryRecords /\ NewEntry(direct).viewer = 0 /\ NewEntry(direct).stream = 0
  BY DEF NewEntry, EntryRecords
<1>4. Len(viewers) \in Nat /\ Len(heard) \in Nat
  BY FlutterFacts
<1>5. EntryIsTyped(entry', Len(viewers'), Len(heard'))
  BY <1>1, <1>2, <1>3, <1>4 DEF EntryIsTyped
<1>6. flutterAdds' \in 0..MaxAdds
  BY <1>2, FlutterConstants DEF FlutterInv
<1> QED
  BY <1>2, <1>5, <1>6, FlutterParts DEF FlutterInv, ViewersAreTyped

LEMMA RemoveKeeps ==
    ASSUME FlutterInv, SessionRemove
    PROVE  FlutterInv'
<1> DEFINE i == entry.viewer
           w == RequestClose(viewers[i])
<1>1. /\ entry' = NoEntry /\ UNCHANGED <<leases, heard, pumps, starting, flutterAdds>>
      /\ viewers' = IF i = 0 THEN viewers ELSE [viewers EXCEPT ![i] = w]
  BY DEF SessionRemove
<1>2. viewers \in Seq(Viewer) /\ Len(viewers) \in Nat /\ Len(heard) \in Nat /\ i \in 0..Len(viewers)
  BY FlutterFacts DEF EntryIsTyped
<1>3. EntryIsTyped(entry', Len(viewers), Len(heard))
  BY <1>1, <1>2, FlutterFacts DEF EntryIsTyped
<1>4. CASE i = 0
  BY <1>1, <1>2, <1>3, <1>4, FlutterViewersKeep
<1>5. CASE i # 0
  <2>1. i \in DOMAIN viewers
    BY <1>2, <1>5
  <2>2. Continues(viewers[i], w)
    BY <1>2, <2>1, ViewerIsViewer, RequestCloseContinues
  <2> HIDE DEF w
  <2>3. viewers' = [viewers EXCEPT ![i] = w]
    BY <1>1, <1>5
  <2> HIDE DEF i
  <2>4. viewers' \in Seq(Viewer) /\ Len(viewers') = Len(viewers)
    BY <1>2, <2>1, <2>2, <2>3, ReplacedKeeps
  <2> QED
    BY <1>1, <1>3, <2>4, FlutterViewersKeep
<1> QED
  BY <1>4, <1>5

LEMMA UserAnswersKeeps ==
    ASSUME FlutterInv, UserAnswers
    PROVE  FlutterInv'
<1> DEFINE i == entry.viewer
           v == viewers[i]
           sent(a) == IF CanSubmit(v) THEN Submit(v, a) ELSE v
           made(a) == IF a = "refuse" THEN RequestClose(sent(a)) ELSE sent(a)
<1>1. PICK a \in AnswerFor(entry.asked) : viewers' = [viewers EXCEPT ![i] = made(a)]
  BY DEF UserAnswers
<1>2. /\ i # 0 /\ entry' = [entry EXCEPT !.asked = "none"]
      /\ UNCHANGED <<leases, heard, pumps, starting, flutterAdds>>
  BY DEF UserAnswers
<1>3. /\ viewers \in Seq(Viewer) /\ Len(viewers) \in Nat /\ EntryIsTyped(entry, Len(viewers), Len(heard))
      /\ entry \in EntryRecords
  BY <1>2, FlutterFacts
<1>4. i \in DOMAIN viewers
  BY <1>2, <1>3 DEF EntryIsTyped
<1>5. v \in Viewer
  BY <1>3, <1>4, ViewerIsViewer
<1>6. a \in Commands
  BY DEF AnswerFor, Commands
<1> DEFINE u == sent(a)
           w == made(a)
<1>7. Continues(v, u) /\ u \in Viewer
  <2>1. Continues(v, v) /\ Continues(v, Submit(v, a))
    BY <1>5, <1>6, SubmitContinues DEF Continues
  <2> QED
    BY <2>1 DEF Continues
<1>8. Continues(v, w)
  <2> DEFINE r == RequestClose(u)
  <2>1. w = r \/ w = u
    OBVIOUS
  <2>2. Continues(u, r)
    BY <1>7, RequestCloseContinues
  <2> HIDE DEF u, w, r, v
  <2> QED
    BY <1>7, <2>1, <2>2, ContinuesOn
<1>9. viewers' = [viewers EXCEPT ![i] = w]
  BY <1>1
<1> HIDE DEF w
<1>10. viewers' \in Seq(Viewer) /\ Len(viewers') = Len(viewers)
  BY <1>3, <1>4, <1>8, <1>9, ReplacedKeeps
<1>11. EntryIsTyped(entry', Len(viewers), Len(heard))
  BY <1>2, <1>3 DEF EntryIsTyped, EntryRecords
<1> QED
  BY <1>2, <1>10, <1>11, FlutterViewersKeep

LEMMA AttachKeeps ==
    ASSUME FlutterInv, NEW c \in Callers, AttachStream(c)
    PROVE  FlutterInv'
<1> DEFINE k == Len(heard) + 1
           told == [s \in DOMAIN heard |-> heard[s] \/ s = entry.stream]
<1>1. /\ entry.exists /\ k <= MaxStreams
      /\ entry' = [entry EXCEPT !.stream = k, !.closeSent = FALSE]
      /\ heard' = Append(told, FALSE)
      /\ starting' = [starting EXCEPT ![c] = [step |-> "start", stream |-> k]]
      /\ UNCHANGED <<viewers, leases, pumps, flutterAdds>>
  BY DEF AttachStream, Attached
<1>2. /\ viewers \in Seq(Viewer) /\ Len(viewers) \in Nat /\ Len(heard) \in Nat /\ MaxStreams \in Nat
      /\ EntryIsTyped(entry, Len(viewers), Len(heard)) /\ entry \in EntryRecords
  BY <1>1, FlutterFacts
<1>3. heard \in Seq(BOOLEAN) /\ starting \in [Callers -> Startings]
  BY DEF FlutterInv
<1>4. told \in Seq(BOOLEAN) /\ Len(told) = Len(heard)
  <2> DEFINE n == Len(heard)
  <2>1. DOMAIN heard = 1..n /\ n \in Nat
    BY <1>2, <1>3
  <2>2. told \in [1..n -> BOOLEAN]
    BY <2>1
  <2> HIDE DEF n, told
  <2>3. told \in Seq(BOOLEAN) /\ Len(told) = n
    BY <2>1, <2>2
  <2> QED
    BY <2>3 DEF n
<1> HIDE DEF told
<1>5. heard' \in Seq(BOOLEAN) /\ Len(heard') = k /\ k \in Nat
  BY <1>1, <1>2, <1>4
<1> HIDE DEF k
<1>6. EntryIsTyped(entry', Len(viewers'), Len(heard'))
  <2>1. entry' \in EntryRecords /\ entry'.viewer = entry.viewer /\ entry'.stream = k
    BY <1>1, <1>2, <1>5 DEF EntryRecords
  <2> QED
    BY <1>1, <1>2, <1>5, <2>1 DEF EntryIsTyped
<1>7. starting' \in [Callers -> Startings]
  <2>1. [step |-> "start", stream |-> k] \in Startings
    BY <1>5 DEF Startings
  <2> QED
    BY <1>1, <1>3, <2>1
<1> QED
  BY <1>1, <1>2, <1>5, <1>6, <1>7, FlutterParts DEF FlutterInv

LEMMA StartViewerKeeps ==
    ASSUME FlutterInv, NEW c \in Callers, StartViewer(c)
    PROVE  FlutterInv'
<1> DEFINE n == Len(viewers)
           w == Started(entry.direct, FALSE, 1)
<1>1. UNCHANGED <<leases, heard, pumps, flutterAdds>>
  BY DEF StartViewer
<1>2. /\ viewers \in Seq(Viewer) /\ n \in Nat /\ Len(heard) \in Nat
      /\ EntryIsTyped(entry, n, Len(heard)) /\ n = Len(viewers)
      /\ entry.exists => entry \in EntryRecords
  BY FlutterFacts
<1>3. starting' \in [Callers -> Startings]
  <2>1. starting \in [Callers -> Startings] /\ Idle \in Startings
    BY FlutterFacts DEF FlutterInv
  <2>2. \/ starting' = [starting EXCEPT ![c].step = "spawn"]
        \/ starting' = [starting EXCEPT ![c] = Idle]
    BY DEF StartViewer
  <2>3. [starting[c] EXCEPT !.step = "spawn"] \in Startings
    BY <2>1 DEF Startings
  <2> QED
    BY <2>1, <2>2, <2>3
<1>4. CASE UNCHANGED <<viewers, entry>>
  BY <1>1, <1>2, <1>3, <1>4, FlutterParts DEF FlutterInv
<1>5. CASE /\ entry.exists
           /\ viewers' = Append(viewers, w) /\ entry' = [entry EXCEPT !.viewer = n + 1]
  <2>1. entry \in EntryRecords /\ entry.direct \in BOOLEAN
    BY <1>2, <1>5 DEF EntryRecords
  <2>2. w \in Viewer
    BY <2>1, StartedIsViewer
  <2> HIDE DEF w
  <2>3. viewers' \in Seq(Viewer) /\ Len(viewers') = n + 1
    BY <1>2, <1>5, <2>2, AppendedContinues
  <2>4. entry' \in EntryRecords /\ entry'.viewer = n + 1 /\ entry'.stream = entry.stream
    <3> DEFINE m == n + 1
    <3>1. m \in Nat /\ entry' = [entry EXCEPT !.viewer = m]
      BY <1>2, <1>5
    <3> HIDE DEF m
    <3>2. entry' \in EntryRecords /\ entry'.viewer = m /\ entry'.stream = entry.stream
      BY <2>1, <3>1 DEF EntryRecords
    <3> QED
      BY <3>2 DEF m
  <2>5. EntryIsTyped(entry', Len(viewers'), Len(heard'))
    <3>1. n + 1 \in 0..n + 1 /\ heard' = heard
      BY <1>1, <1>2
    <3>2. entry'.stream \in 0..Len(heard)
      BY <1>2, <2>4 DEF EntryIsTyped
    <3> HIDE DEF n
    <3> QED
      BY <2>3, <2>4, <3>1, <3>2 DEF EntryIsTyped
  <2> QED
    BY <1>1, <1>3, <2>3, <2>5, FlutterParts DEF FlutterInv
<1> QED
  BY <1>4, <1>5 DEF StartViewer

LEMMA SpawnKeeps ==
    ASSUME FlutterInv, NEW c \in Callers, SpawnPump(c)
    PROVE  FlutterInv'
<1>1. /\ pumps' = [pumps EXCEPT ![starting[c].stream] = "look"]
      /\ starting' = [starting EXCEPT ![c] = Idle]
      /\ UNCHANGED <<viewers, leases, entry, heard, flutterAdds>>
  BY DEF SpawnPump
<1>2. /\ viewers \in Seq(Viewer) /\ Len(viewers) \in Nat /\ Len(heard) \in Nat
      /\ EntryIsTyped(entry, Len(viewers), Len(heard)) /\ Idle \in Startings
  BY FlutterFacts
<1>3. pumps \in [1..MaxStreams -> PumpPlaces] /\ starting \in [Callers -> Startings]
  BY DEF FlutterInv
<1>4. pumps' \in [1..MaxStreams -> PumpPlaces] /\ starting' \in [Callers -> Startings]
  BY <1>1, <1>2, <1>3 DEF PumpPlaces
<1> QED
  BY <1>1, <1>2, <1>4, FlutterParts DEF FlutterInv

LEMMA PumpsKeep ==
    ASSUME FlutterInv, NEW k \in 1..MaxStreams, Pump(k)
    PROVE  FlutterInv'
<1>1. /\ viewers \in Seq(Viewer) /\ Len(viewers) \in Nat /\ Len(heard) \in Nat
      /\ EntryIsTyped(entry, Len(viewers), Len(heard))
      /\ entry.viewer # 0 => entry \in EntryRecords
  BY FlutterFacts
<1>2. UNCHANGED <<viewers, leases, starting, flutterAdds>>
  BY DEF Pump, PumpLooks, PumpPublishes, PumpChecks
<1>3. pumps' \in [1..MaxStreams -> PumpPlaces]
  <2>1. pumps \in [1..MaxStreams -> PumpPlaces]
    BY DEF FlutterInv
  <2>2. \E p \in PumpPlaces : pumps' = [pumps EXCEPT ![k] = p]
    BY DEF Pump, PumpLooks, PumpPublishes, PumpChecks, PumpPlaces
  <2> QED
    BY <2>1, <2>2
<1>4. CASE UNCHANGED <<entry, heard>>
  BY <1>1, <1>2, <1>3, <1>4, FlutterParts DEF FlutterInv
<1>5. CASE PumpPublishes(k) /\ entry.stream # 0 /\ entry.viewer # 0
  <2> DEFINE v == viewers[entry.viewer]
             last == IF v.phase \in FlutterAsking THEN v.phase ELSE "none"
             info == entry.info \/ v.phase = "authenticated"
             sent == entry.closeSent \/ v.closed
             asked == IF v.phase \in FlutterAsking /\ v.phase # entry.lastPhase
                      THEN v.phase ELSE entry.asked
             e == [entry EXCEPT !.lastPhase = last, !.info = info, !.closeSent = sent,
                                !.asked = asked]
             told == heard[entry.stream] \/ (Collected(entry, v).closeSent /\ ~entry.closeSent)
  <2>1. entry' = Collected(entry, v) /\ heard' = [heard EXCEPT ![entry.stream] = told]
    BY <1>5 DEF PumpPublishes
  <2>2. Collected(entry, v) = e
    BY DEF Collected
  <2>3. entry \in EntryRecords
    BY <1>1, <1>5
  <2>4. v \in Viewer
    BY <1>1, <1>5, ViewerIsViewer DEF EntryIsTyped
  <2>5. /\ last \in Phases \cup {"none"} /\ info \in BOOLEAN /\ sent \in BOOLEAN
        /\ asked \in Phases \cup {"none"}
    BY <2>3, <2>4 DEF EntryRecords, Viewer
  <2> HIDE DEF last, info, sent, asked, v
  <2>6. e \in EntryRecords /\ e.viewer = entry.viewer /\ e.stream = entry.stream
    BY <2>3, <2>5 DEF EntryRecords
  <2> HIDE DEF e
  <2>7. EntryIsTyped(e, Len(viewers), Len(heard))
    BY <1>1, <2>6 DEF EntryIsTyped
  <2> HIDE DEF told
  <2>8. heard' \in Seq(BOOLEAN) /\ Len(heard') = Len(heard)
    <3>1. heard \in Seq(BOOLEAN) /\ entry.stream \in 1..Len(heard)
      BY <1>1, <1>5 DEF FlutterInv, EntryIsTyped
    <3>2. told \in BOOLEAN
      BY DEF told
    <3> QED
      BY <2>1, <3>1, <3>2
  <2>9. EntryIsTyped(entry', Len(viewers'), Len(heard')) /\ Len(heard') <= MaxStreams
    BY <1>2, <2>1, <2>2, <2>7, <2>8 DEF FlutterInv
  <2> QED
    BY <1>1, <1>2, <1>3, <2>8, <2>9, FlutterParts DEF FlutterInv
<1> QED
  BY <1>4, <1>5 DEF Pump, PumpLooks, PumpPublishes, PumpChecks

LEMMA FlutterStepKeeps ==
    ASSUME FlutterInv, FlutterNext
    PROVE  FlutterInv'
<1>1. CASE LoginNext /\ UNCHANGED flutterOnly
  <2>1. viewers \in Seq(Viewer) /\ EntryIsTyped(entry, Len(viewers), Len(heard))
    BY FlutterFacts
  <2>2. viewers' \in Seq(Viewer) /\ Len(viewers') = Len(viewers) /\ leases' = leases
    BY <1>1, <2>1, LoginStepKeeps
  <2> QED
    BY <1>1, <2>1, <2>2, FlutterViewersKeep DEF flutterOnly
<1> QED
  BY <1>1, AddSyncKeeps, RemoveKeeps, UserAnswersKeeps, AttachKeeps, StartViewerKeeps,
     SpawnKeeps, PumpsKeep DEF FlutterNext

-----------------------------------------------------------------------------
LEMMA FrontInitially == Init => FrontInv
<1> SUFFICES ASSUME Init PROVE FrontInv
  OBVIOUS
<1>1. /\ viewers = <<>> /\ gens = 0 /\ heard = <<>> /\ flutterAdds = 0 /\ entry = NoEntry
      /\ sessions = [id \in Ids |-> NoSession] /\ starts = [t \in Starters |-> NoCall]
      /\ pumps = [k \in 1..MaxStreams |-> "none"] /\ starting = [c \in Callers |-> Idle]
      /\ part \in {"ohos", "flutter"}
  BY DEF Init
<1>2. <<>> \in Seq(Viewer) /\ Len(<<>>) = 0 /\ <<>> \in Seq(BOOLEAN) /\ DOMAIN viewers = {}
  BY <1>1
<1>3. part = "ohos" => DOMAIN leases = 1..MaxGens /\ \A l \in DOMAIN leases : leases[l] = "unbound"
  BY DEF Init
<1>4. part = "flutter" => \A l \in DOMAIN leases : leases[l] = "none"
  BY DEF Init
<1>5. ASSUME part = "ohos" PROVE OhosInv
  <2>1. Live = {} /\ \A t \in Starters : starts[t] = NoCall
    BY <1>1 DEF Live
  <2>2. OhosTypes
    BY <1>1, <1>2, <1>3, <1>5, <2>1, OhosConstants DEF OhosTypes, ViewersAreTyped, LeaseStates
  <2>3. NoStrayBackend
    BY <1>2 DEF NoStrayBackend
  <2> QED
    BY <2>1, <2>2, <2>3 DEF OhosInv
<1>6. ASSUME part = "flutter" PROVE FlutterInv
  <2>1. Idle \in Startings /\ NoEntry.viewer = 0 /\ NoEntry.stream = 0
    BY DEF Idle, Startings, NoEntry
  <2>2. ViewersAreTyped /\ 0 \in 0..MaxAdds
    BY <1>1, <1>2, <1>4, <1>6, FlutterConstants DEF ViewersAreTyped, LeaseStates
  <2>3. 0 <= MaxStreams
    BY FlutterConstants
  <2> QED
    BY <1>1, <1>2, <2>1, <2>2, <2>3 DEF FlutterInv, PumpPlaces
<1> QED
  BY <1>5, <1>6 DEF FrontInv

LEMMA FrontUnchanged ==
    ASSUME FrontInv, UNCHANGED <<part, ohosVars, flutterOnly>>
    PROVE  FrontInv'
<1>1. UNCHANGED <<part, viewers, leases, sessions, starts, gens, entry, heard, pumps, starting, flutterAdds>>
  BY DEF ohosVars, flutterOnly
<1>2. Live' = Live /\ Owned' = Owned
  BY <1>1 DEF Live, Owned
<1> QED
  BY <1>1, <1>2 DEF FrontInv, OhosInv, OhosTypes, ViewersAreTyped, NoStrayBackend, QuestionStays,
                    FlutterInv

LEMMA FrontStepKeeps ==
    ASSUME FrontInv, [Next]_<<part, ohosVars, flutterOnly>>
    PROVE  FrontInv'
<1>1. CASE part = "ohos" /\ OhosNext /\ UNCHANGED <<part, flutterOnly>>
  BY <1>1, OhosStepKeeps DEF FrontInv
<1>2. CASE part = "flutter" /\ FlutterNext /\ UNCHANGED <<part, ohosOnly>>
  BY <1>2, FlutterStepKeeps DEF FrontInv
<1>3. CASE UNCHANGED <<part, ohosVars, flutterOnly>>
  BY <1>3, FrontUnchanged
<1> QED
  BY <1>1, <1>2, <1>3 DEF Next

(* What the invariant says of the next poll.                               *)
LEMMA FrontIsEnough == FrontInv => SessionsAreKept
<1>1. ASSUME OhosInv PROVE OhosTypeOK /\ NoStrayBackend /\ PollAsksPassword
  <2>1. OhosTypes /\ NoStrayBackend /\ viewers \in Seq(Viewer)
    BY <1>1 DEF OhosInv, OhosTypes, ViewersAreTyped
  <2>2. \A id \in Live : sessions[id].viewer \in 0..Len(viewers) /\ sessions[id].gen \in 1..gens
    BY <2>1, LiveIs DEF SessionIsTyped
  <2>3. \A t \in Starters : starts[t] = NoCall \/ starts[t].viewer \in 0..Len(viewers)
    BY <2>1 DEF OhosTypes, StartIsTyped
  <2>4. OhosTypeOK
    BY <2>1, <2>2, <2>3 DEF OhosTypeOK, LoginTypeOK, OhosTypes, ViewersAreTyped
  <2>5. PollAsksPassword
    <3> SUFFICES ASSUME NEW id \in Polling,
                        viewers[sessions[id].viewer].phase = "awaiting_password"
                 PROVE  Shown(id).prompt = "password"
      BY DEF PollAsksPassword
    <3>1. id \in Live /\ sessions[id].viewer \in DOMAIN viewers
      BY <2>1, <2>2 DEF Polling
    <3>2. viewers[sessions[id].viewer] \in Viewer /\ sessions[id] \in SessionRecords
          /\ QuestionStays(sessions[id])
      BY <1>1, <2>1, <3>1, ViewerIsViewer, LiveIs DEF OhosInv
    <3> QED
      BY <3>2, PolledIs DEF Shown
  <2> QED
    BY <2>1, <2>4, <2>5
<1>2. ASSUME FlutterInv PROVE FlutterTypeOK
  <2>1. \A c \in Callers : starting[c].step \in {"none", "start", "spawn"}
    BY <1>2 DEF FlutterInv, Startings
  <2> QED
    BY <1>2, <2>1 DEF FlutterInv, FlutterTypeOK, LoginTypeOK, ViewersAreTyped, PumpPlaces
<1> QED
  BY <1>1, <1>2 DEF FrontInv, SessionsAreKept

(* However session_start, session_close, session_add and the polls of the  *)
(* OpenHarmony library interleave with one another and with the viewers, a *)
(* backend that no session and no running start answers for was told to    *)
(* close, and a poll of a login that waits for a password leaves its       *)
(* question on the screen (session_compat.rs, session_start, poll); the    *)
(* sessions, streams and pumps of the Flutter bridge stay well formed      *)
(* (flutter_session.rs, attach_stream, start, pump).                       *)
THEOREM SessionsTheorem == Spec => []SessionsAreKept
<1>1. Init => FrontInv
  BY FrontInitially
<1>2. FrontInv /\ [Next]_<<part, ohosVars, flutterOnly>> => FrontInv'
  BY FrontStepKeeps
<1>3. FrontInv => SessionsAreKept
  BY FrontIsEnough
<1> QED
  BY <1>1, <1>2, <1>3, PTL DEF Spec
=============================================================================
