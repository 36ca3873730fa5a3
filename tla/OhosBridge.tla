------------------------------ MODULE OhosBridge ------------------------------
(***************************************************************************)
(* The registries of the OpenHarmony bridge: native/ohos_har/src/lib.rs    *)
(* (initialization and the modern viewer sessions with their surfaces),    *)
(* host_bridge.rs (the one host slot) and the owner gates of               *)
(* crates/rd-engine/src/platform/ohos_decoder.rs and ohos_publisher.rs     *)
(* that every decoder and every publisher of the process passes.           *)
(*                                                                         *)
(* An entry leaves its registry only after its owner proved that the       *)
(* native objects are gone.  A destroy that fails puts the native object   *)
(* into quarantine: it keeps its permit, and a decoder its surface, for    *)
(* ever, and latches its gate shut.                                        *)
(***************************************************************************)
EXTENDS Naturals, Sequences, FiniteSets

CONSTANTS Surfaces, Directories,
          MaxModern,    \* MAX_SESSIONS (4 in the code)
          MaxOwners,    \* MAX_OWNERS of the decoder gate (4 in the code)
          MaxPublishers,  \* owners the publisher gate admits (2 in the code)
          MaxEntries    \* bound: sessions and hosts started

ASSUME BridgeConstants == /\ MaxModern \in Nat \ {0} /\ MaxOwners \in Nat \ {0}
                          /\ MaxPublishers \in Nat \ {0} /\ MaxEntries \in Nat \ {0}

VARIABLES app,          \* INITIALIZATION
          entries,      \* every owner started: modern sessions and hosts
          budget        \* the gates: OwnerBudget of decoders, Gate of publishers

bridgeVars == <<app, entries, budget>>

Kinds == {"viewer", "host"}
Natives == {"none", "reserved", "live", "gone", "quarantined"}

Entry == [kind : Kinds, surface : Surfaces, registered : BOOLEAN,
          closing : BOOLEAN, joining : BOOLEAN, native : Natives, done : BOOLEAN]

(* The type of the registries.                                             *)
BridgeTypeOK == /\ app \in [directory : Directories \cup {"none"}, id : BOOLEAN]
                /\ entries \in Seq(Entry) /\ Len(entries) <= MaxEntries
                /\ budget \in [Kinds -> [live : 0..MaxEntries, quarantined : 0..MaxEntries]]

BridgeInit == /\ app = [directory |-> "none", id |-> FALSE]
              /\ entries = <<>> /\ budget = [k \in Kinds |-> [live |-> 0, quarantined |-> 0]]

Registered(kind) == {n \in DOMAIN entries :
                       entries[n].kind = kind /\ entries[n].registered}

(* engine_initialize: the directory is reserved even when it fails.        *)
Initialize ==
    /\ app.directory = "none"
    /\ \E d \in Directories, ok \in BOOLEAN : app' = [directory |-> d, id |-> ok]
    /\ UNCHANGED <<entries, budget>>

Register(kind, s) ==
    entries' = Append(entries, [kind |-> kind, surface |-> s, registered |-> TRUE,
                                closing |-> FALSE, joining |-> FALSE,
                                native |-> "none", done |-> FALSE])

(* register_viewer: under the registry lock, a slot and a free surface.    *)
\* mutant
AdmitsBusySurface(s) == Cardinality(Registered("viewer")) < MaxModern

AdmitsSurface(s) ==
    /\ Cardinality(Registered("viewer")) < MaxModern
    /\ \A n \in Registered("viewer") : entries[n].surface # s

EngineConnect ==
    /\ app.id /\ Len(entries) < MaxEntries
    /\ \E s \in Surfaces : AdmitsSurface(s) /\ Register("viewer", s)
    /\ UNCHANGED <<app, budget>>

(* engine_host_start: the slot is taken while a host is active, closing    *)
(* or quarantined.                                                         *)
EngineHostStart ==
    /\ app.id /\ Len(entries) < MaxEntries /\ Registered("host") = {}
    /\ \E s \in Surfaces : Register("host", s)
    /\ UNCHANGED <<app, budget>>

Sets(n, e) == entries' = [entries EXCEPT ![n] = e]

(* An entry of a kind that is still in its registry.                       *)
Found(n, kind) == entries[n].kind = kind /\ entries[n].registered

Closing(n) ==
    /\ ~entries[n].closing
    /\ Sets(n, [entries[n] EXCEPT !.closing = TRUE])
    /\ UNCHANGED <<app, budget>>

EngineRequestClose(n) == Found(n, "viewer") /\ Closing(n)

EngineHostRequestClose(n) == Found(n, "host") /\ Closing(n)

(* A close call up to its await: only the first caller waits.              *)
Joining(n) ==
    /\ ~entries[n].joining
    /\ Sets(n, [entries[n] EXCEPT !.closing = TRUE, !.joining = TRUE])
    /\ UNCHANGED <<app, budget>>

EngineClose(n) == Found(n, "viewer") /\ Joining(n)

EngineHostClose(n) == Found(n, "host") /\ Joining(n)

(* The owner's close() answers once it is done: an error when its native   *)
(* objects were not reclaimed, and then the entry stays.                   *)
\* mutant
ReleasedWhenDone(e) == FALSE

ReleasedWhenProven(e) == e.native = "quarantined"

CloseReturns(n) ==
    /\ entries[n].joining /\ entries[n].done /\ entries[n].registered
    /\ Sets(n, [entries[n] EXCEPT !.registered = ReleasedWhenProven(entries[n])])
    /\ entries'[n] # entries[n]
    /\ UNCHANGED <<app, budget>>

-----------------------------------------------------------------------------
(* The native life of an entry: permit, creation, destruction.             *)

(* Before its first decoder, or between two when the stream changed.       *)
Unopened(n) == entries[n].native \in {"none", "gone"} /\ ~entries[n].done

(* OwnerBudget::reserve and Permit::acquire, before any native allocation. *)
CanReserve == budget["viewer"].quarantined = 0 /\ budget["viewer"].live < MaxOwners
CanPublish == budget["host"].quarantined = 0 /\ budget["host"].live < MaxPublishers
AdmittedKind(kind) == IF kind = "viewer" THEN CanReserve ELSE CanPublish

Reserve(n) ==
    LET kind == entries[n].kind IN
    /\ Unopened(n) /\ ~entries[n].closing
    /\ IF AdmittedKind(kind)
       THEN /\ Sets(n, [entries[n] EXCEPT !.native = "reserved"])
            /\ budget' = [budget EXCEPT ![kind].live = @ + 1]
       ELSE Sets(n, [entries[n] EXCEPT !.done = TRUE]) /\ UNCHANGED budget
    /\ UNCHANGED app

(* Creation succeeds, or fails and what was created is destroyed again.    *)
Create(n) ==
    /\ entries[n].native = "reserved"
    /\ Sets(n, [entries[n] EXCEPT !.native = "live"])
    /\ UNCHANGED <<app, budget>>

(* Dropping the permit with the allocation.                                *)
\* mutant
GivesBackAlways(b) == [b EXCEPT !.live = @ - 1, !.quarantined = @ + 1]

Quarantines(b) == [b EXCEPT !.quarantined = @ + 1]

(* Drop for Permit, once the native object is gone.                        *)
GivesBack(b) == [b EXCEPT !.live = @ - 1]

(* Owner::shutdown, or an unwinding worker: destroyed and the permit given *)
(* back, or quarantined with it.                                           *)
Shutdown(n) ==
    /\ entries[n].native \in {"reserved", "live"}
    /\ \E end \in {"gone", "quarantined"}, last \in BOOLEAN :
          /\ end = "quarantined" => last
          /\ Sets(n, [entries[n] EXCEPT !.native = end, !.done = last])
          /\ budget' = [budget EXCEPT ![entries[n].kind] =
                            IF end = "gone" THEN GivesBack(@) ELSE Quarantines(@)]
    /\ UNCHANGED app

(* A session ends without a decoder, a host without a publisher.           *)
EndsUnopened(n) ==
    /\ Unopened(n)
    /\ Sets(n, [entries[n] EXCEPT !.done = TRUE])
    /\ UNCHANGED <<app, budget>>

BridgeNext ==
    \/ Initialize \/ EngineConnect \/ EngineHostStart
    \/ \E n \in DOMAIN entries :
          \/ EngineRequestClose(n) \/ EngineHostRequestClose(n)
          \/ EngineClose(n) \/ EngineHostClose(n) \/ CloseReturns(n)
          \/ Reserve(n) \/ Create(n) \/ Shutdown(n) \/ EndsUnopened(n)

BridgeSpec == BridgeInit /\ [][BridgeNext]_bridgeVars

-----------------------------------------------------------------------------
(* Properties                                                              *)

Holding(n) == entries[n].native \in {"reserved", "live", "quarantined"}

(* Two decoders never hold one surface, and two hosts never hold the       *)
(* listener: an owner whose native objects live or are in quarantine still *)
(* has its registry entry, whatever order closes, failures and new         *)
(* connections come in.                                                    *)
NativesAreExclusive ==
    /\ \A m, n \in DOMAIN entries :
          (m # n /\ Holding(m) /\ Holding(n) /\ entries[m].kind = entries[n].kind)
          => entries[m].kind = "viewer" /\ entries[m].surface # entries[n].surface
    /\ \A n \in DOMAIN entries : Holding(n) => entries[n].registered

(* A gate counts exactly the native objects that exist, within its limit,  *)
(* so the quarantine list it allocated beforehand has room for every one.  *)
OwnersAreCounted ==
    \A kind \in Kinds :
       LET held == {n \in DOMAIN entries : entries[n].kind = kind /\ Holding(n)} IN
       /\ budget[kind].live = Cardinality(held)
       /\ budget[kind].live <= IF kind = "viewer" THEN MaxOwners ELSE MaxPublishers
       /\ budget[kind].quarantined =
             Cardinality({n \in held : entries[n].native = "quarantined"})

(* The decoders as SurfaceOwnership sees them.                             *)
DecodersOn(s) == {n \in DOMAIN entries : entries[n].kind = "viewer"
                                         /\ entries[n].surface = s /\ Holding(n)}

Lost == {s \in Surfaces : \E n \in DecodersOn(s) : entries[n].native = "quarantined"}

Ownership == INSTANCE SurfaceOwnership
             WITH Decoders <- 1..MaxEntries, lost <- Lost,
                  held <- [s \in Surfaces |-> DecodersOn(s)]

(* The registries and the gate implement the ownership of surfaces: a      *)
(* decoder is made only on a surface nobody holds, within the limit, and   *)
(* never again once one could not be destroyed; whatever close answers and *)
(* whichever callers race, a lost surface stays lost.                      *)
OwnershipIsKept == Ownership!OwnershipSpec

(* Two decoders never hold one surface, and the gate of each kind counts   *)
(* exactly the owners whose native objects live or are in quarantine       *)
(* (ohos_har/src/lib.rs, ohos_decoder.rs).                                 *)
OwnersAreExact == BridgeTypeOK /\ NativesAreExclusive /\ OwnersAreCounted
=============================================================================
