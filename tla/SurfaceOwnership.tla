--------------------------- MODULE SurfaceOwnership ---------------------------
(***************************************************************************)
(* What the OpenHarmony bridge promises the system about the surfaces it   *)
(* decodes to, without its registries, calls and permits: at most          *)
(* MaxOwners decoders exist, a surface has one at a time, and a decoder    *)
(* that could not be destroyed keeps its surface for ever and ends the     *)
(* making of decoders in this process.  OhosBridge implements it.          *)
(***************************************************************************)
EXTENDS Naturals, FiniteSets

CONSTANTS Surfaces, Decoders, MaxOwners

VARIABLES held,     \* for every surface: the decoders that hold it
          lost      \* surfaces of decoders that could not be destroyed

ownershipVars == <<held, lost>>

OwnershipInit == held = [s \in Surfaces |-> {}] /\ lost = {}

Taken == {s \in Surfaces : held[s] # {}}

Take(s) ==
    /\ lost = {} /\ held[s] = {} /\ Cardinality(Taken) < MaxOwners
    /\ \E n \in Decoders : held' = [held EXCEPT ![s] = {n}]
    /\ UNCHANGED lost

GiveBack(s) ==
    /\ s \notin lost /\ held[s] # {}
    /\ held' = [held EXCEPT ![s] = {}]
    /\ UNCHANGED lost

Lose(s) ==
    /\ s \notin lost /\ held[s] # {}
    /\ lost' = lost \cup {s}
    /\ UNCHANGED held

OwnershipNext == \E s \in Surfaces : Take(s) \/ GiveBack(s) \/ Lose(s)

OwnershipSpec == OwnershipInit /\ [][OwnershipNext]_ownershipVars
=============================================================================
