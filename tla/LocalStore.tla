----------------------------- MODULE LocalStore -----------------------------
(***************************************************************************)
(* What a client keeps in files of its own beside the identity:            *)
(*   - one file per peer, with its options and its password                *)
(*     (PeerConfig of config.rs, flutter_state.rs, flutter_session.rs);    *)
(*   - the options of the client under the layers of a custom client       *)
(*     (Config::set_option, LocalConfig::set_option, get_or);              *)
(*   - the signing identity of the Windows host program                    *)
(*     (bin/rd-engine-windows-host.rs).                                    *)
(*                                                                         *)
(* Bridge calls run on the threads of a pool.  A file is read or written   *)
(* whole; between reading and writing, another call may run.  The Windows  *)
(* host may lose its power at any moment.  The three share no state, so a  *)
(* behaviour is about one of them (realm).                                 *)
(***************************************************************************)
EXTENDS Naturals, FiniteSets

CONSTANTS Calls,      \* bridge calls that may be under way at once
          Options,    \* option names
          Values,     \* option values; 0 is the empty string
          MaxLocalCalls,   \* bound: calls made
          MaxBoots    \* bound: starts of the Windows host

ASSUME LocalConstants ==
    /\ MaxLocalCalls \in Nat /\ MaxBoots \in Nat
    /\ Values \subseteq Nat /\ 0 \in Values

VARIABLES realm,      \* the files this behaviour is about
          peer,       \* the peer's file
          call,       \* each call: what it does and the copy it loaded
          callsMade,      \* calls so far
          wrote,      \* last value of each option whose call returned
          forgot,     \* the last call about the password that returned forgot it
          overlap,    \* two calls were under way at once
          layers,     \* OVERWRITE_SETTINGS and DEFAULT_SETTINGS, fixed
          userOptions,    \* Config2::options
          askedOptions,      \* last value asked of each option of the client; 0 is none
          identity,   \* the identity file of the Windows host
          announcedKeys,  \* keys it printed
          boots

localVars == <<realm, peer, call, callsMade, wrote, forgot, overlap, layers, userOptions,
               askedOptions,
               identity, announcedKeys, boots>>

NoOptions == [o \in Options |-> 0]
NoBridgeCall == [does |-> "nothing", option |-> CHOOSE o \in Options : TRUE, value |-> 0,
         loaded |-> FALSE, copy |-> [password |-> "none", options |-> NoOptions]]

-----------------------------------------------------------------------------
(* The file of a peer.  Its password is sealed; an old file has it clear.  *)

(* decrypt_vec_or_original: the clear text, and whether to write it back.  *)
decrypt_vec_or_original(p) == IF p = "sealed" THEN "clear" ELSE p
StoreOnLoad(p) == p = "clear"
(* encrypt_vec_or_original.                                                *)
encrypt_vec_or_original(p) == IF p = "clear" THEN "sealed" ELSE p

Opened(file) == [file EXCEPT !.password = decrypt_vec_or_original(@)]
Closed(copy) == [copy EXCEPT !.password = encrypt_vec_or_original(@)]

Begin(c, does, o, v) ==
    /\ call[c].does = "nothing" /\ callsMade < MaxLocalCalls
    /\ callsMade' = callsMade + 1
    /\ call' = [call EXCEPT ![c] =
                   [NoBridgeCall EXCEPT !.does = does, !.option = o, !.value = v]]
    /\ overlap' = (overlap \/ \E other \in Calls : call[other].does # "nothing")
    /\ UNCHANGED <<peer, wrote, forgot>>

(* set_peer_option, main_set_peer_option, set_peer_alias: refused at once  *)
(* when a name is empty or the value too long, so only good ones start.    *)
SetPeerOption(c, o, v) == Begin(c, "set", o, v)
(* peer_option and the other readers.                                      *)
GetPeerOption(c, o) == Begin(c, "get", o, 0)
forget_password(c) == Begin(c, "forget", NoBridgeCall.option, 0)
remove_peer(c) == Begin(c, "remove", NoBridgeCall.option, 0)

(* PeerConfig::load: the file as it is now; an old one is written back     *)
(* sealed, from the copy, in the same call.                                *)
Load(c) ==
    /\ call[c].does \in {"set", "get", "forget"} /\ ~call[c].loaded
    /\ call' = [call EXCEPT ![c].loaded = TRUE, ![c].copy = Opened(peer),
                            ![c].does = IF @ = "get" /\ ~StoreOnLoad(peer.password)
                                        THEN "nothing" ELSE @]
    /\ UNCHANGED <<peer, callsMade, wrote, forgot, overlap>>

(* The modification, on the copy.                                          *)
ModifiedAnew(x) ==  \* mutant
    CASE x.does = "set" -> [NoBridgeCall.copy EXCEPT !.options[x.option] = x.value]
      [] x.does = "forget" -> [NoBridgeCall.copy EXCEPT !.password = "none"]
      [] x.does = "get" -> x.copy

Modified(x) ==
    CASE x.does = "set" -> [x.copy EXCEPT !.options[x.option] = x.value]
      [] x.does = "forget" -> [x.copy EXCEPT !.password = "none"]
      [] x.does = "get" -> x.copy

(* PeerConfig::store of the copy.                                          *)
Store(c) ==
    /\ call[c].loaded /\ call[c].does # "nothing"
    /\ peer' = Closed(Modified(call[c]))
    /\ wrote' = IF call[c].does = "set" THEN [wrote EXCEPT ![call[c].option] = call[c].value]
                ELSE wrote
    /\ forgot' = (forgot \/ call[c].does = "forget")
    /\ call' = [call EXCEPT ![c] = NoBridgeCall]
    /\ UNCHANGED <<callsMade, overlap>>

(* PeerConfig::remove.                                                     *)
Remove(c) ==
    /\ call[c].does = "remove"
    /\ peer' = [password |-> "none", options |-> NoOptions]
    /\ wrote' = NoOptions /\ forgot' = TRUE
    /\ call' = [call EXCEPT ![c] = NoBridgeCall]
    /\ UNCHANGED <<callsMade, overlap>>

PeerStep ==
    /\ realm = "peer"
    /\ \E c \in Calls :
          \/ \E o \in Options, v \in Values : SetPeerOption(c, o, v)
          \/ \E o \in Options : GetPeerOption(c, o)
          \/ forget_password(c) \/ remove_peer(c)
          \/ Load(c) \/ Store(c) \/ Remove(c)
    /\ UNCHANGED <<realm, layers, userOptions, askedOptions, identity, announcedKeys, boots>>

-----------------------------------------------------------------------------
(* The options of the client.                                              *)

(* get_or, and get_option: the empty string when no layer has it.          *)
get_or(o) ==
    IF o \in DOMAIN layers.overwrite THEN layers.overwrite[o]
    ELSE IF o \in DOMAIN userOptions THEN userOptions[o]
    ELSE IF o \in DOMAIN layers.default THEN layers.default[o] ELSE 0

is_option_can_save(o, v) ==
    /\ o \notin DOMAIN layers.overwrite
    /\ o \in DOMAIN layers.default => layers.default[o] # v

(* set_option: what cannot be saved, and the empty string, removes.        *)
With(o, v) ==
    [x \in DOMAIN userOptions \cup {o} |-> IF x = o THEN v ELSE userOptions[x]]

OptionSetKeeping(o, v) ==  \* mutant
    IF is_option_can_save(o, v) /\ v # 0 THEN With(o, v) ELSE userOptions

OptionSet(o, v) ==
    IF is_option_can_save(o, v) /\ v # 0 THEN With(o, v)
    ELSE [x \in DOMAIN userOptions \ {o} |-> userOptions[x]]

SetOption(o, v) ==
    /\ realm = "options" /\ callsMade < MaxLocalCalls /\ callsMade' = callsMade + 1
    /\ userOptions' = OptionSet(o, v)
    /\ askedOptions' = [askedOptions EXCEPT ![o] = v]
    /\ UNCHANGED <<realm, peer, call, wrote, forgot, overlap, layers, identity,
                   announcedKeys, boots>>

(* set_options, of a whole map: purify_options drops what cannot be saved. *)
(* An empty string of the map stays and hides the default.                 *)
purify_options(m) ==
    [o \in {x \in DOMAIN m : is_option_can_save(x, m[x])} |-> m[o]]
SetOptions(m) ==
    /\ realm = "options" /\ callsMade < MaxLocalCalls /\ callsMade' = callsMade + 1
    /\ userOptions' = purify_options(m)
    /\ askedOptions' = [o \in Options |-> IF o \in DOMAIN m THEN m[o] ELSE 0]
    /\ UNCHANGED <<realm, peer, call, wrote, forgot, overlap, layers, identity,
                   announcedKeys, boots>>

-----------------------------------------------------------------------------
(* The identity of the Windows host: load_or_create_identity.              *)

(* Key and length are checked, so a file cut short is refused for good.    *)
LoadIdentity ==
    /\ identity.file = "whole" /\ ~identity.up /\ boots < MaxBoots
    /\ identity' = [identity EXCEPT !.up = TRUE, !.key = identity.stored]
    /\ announcedKeys' = announcedKeys \cup {identity.stored}
    /\ boots' = boots + 1
(* create_new: the file exists, and is empty, before it is written.        *)
CreateIdentityAnnounced ==  \* mutant
    /\ identity.file = "none" /\ ~identity.up /\ boots < MaxBoots
    /\ identity' = [identity EXCEPT !.up = TRUE, !.file = "cut", !.key = boots + 1]
    /\ boots' = boots + 1
    /\ announcedKeys' = announcedKeys \cup {boots + 1}

CreateIdentity ==
    /\ identity.file = "none" /\ ~identity.up /\ boots < MaxBoots
    /\ identity' = [identity EXCEPT !.up = TRUE, !.file = "cut", !.key = boots + 1]
    /\ boots' = boots + 1
    /\ UNCHANGED announcedKeys
(* write_all and sync_all; only then is the key printed and used.          *)
WriteIdentity ==
    /\ identity.up /\ identity.file = "cut"
    /\ identity' = [identity EXCEPT !.file = "whole", !.stored = identity.key]
    /\ announcedKeys' = announcedKeys \cup {identity.key}
    /\ UNCHANGED boots
(* The program ends or the power fails; a file that was not synced may be  *)
(* there in part or not at all.                                            *)
PowerFails ==
    /\ identity.up
    /\ \E left \in IF identity.file = "cut" THEN {"cut", "none"} ELSE {"whole"} :
          identity' = [identity EXCEPT !.up = FALSE, !.file = left, !.key = 0]
    /\ UNCHANGED <<announcedKeys, boots>>

IdentityStep ==
    /\ realm = "identity"
    /\ LoadIdentity \/ CreateIdentity \/ WriteIdentity \/ PowerFails
    /\ UNCHANGED <<realm, peer, call, callsMade, wrote, forgot, overlap, layers,
                   userOptions, askedOptions>>

-----------------------------------------------------------------------------
LocalInit ==
    /\ realm \in {"peer", "options", "identity"}
    /\ \E password \in {"none", "clear", "sealed"} :
          peer = [password |-> password, options |-> NoOptions]
    /\ call = [c \in Calls |-> NoBridgeCall] /\ callsMade = 0
    /\ wrote = NoOptions /\ forgot = FALSE /\ overlap = FALSE
    /\ \E pinned, preset \in {{}} \cup {{o} : o \in Options}, v \in Values \ {0} :
          /\ layers = [overwrite |-> [o \in pinned |-> v], default |-> [o \in preset |-> v]]
          /\ realm # "options" => pinned = {} /\ preset = {}
    /\ userOptions = [o \in {} |-> 0] /\ askedOptions = NoOptions
    /\ identity = [up |-> FALSE, file |-> "none", stored |-> 0, key |-> 0]
    /\ announcedKeys = {} /\ boots = 0

LocalNext ==
    \/ PeerStep
    \/ \E o \in Options, v \in Values : SetOption(o, v)
    \/ \E S \in SUBSET Options : \E m \in [S -> Values] : SetOptions(m)
    \/ IdentityStep

LocalSpec == LocalInit /\ [][LocalNext]_localVars

-----------------------------------------------------------------------------
LocalTypeOK ==
    /\ peer.password \in {"none", "clear", "sealed"}
    /\ peer.options \in [Options -> Values]
    /\ DOMAIN userOptions \subseteq Options
    /\ \A o \in DOMAIN userOptions : userOptions[o] \in Values
    /\ callsMade \in 0..MaxLocalCalls /\ boots \in 0..MaxBoots
    /\ identity.file \in {"none", "cut", "whole"}

Quiet == \A c \in Calls : call[c].does = "nothing"
PeerIsAsWritten ==
    /\ peer.options = wrote
    /\ forgot => peer.password = "none"

(* With one call at a time, the file of a peer holds the last value of     *)
(* every option, and a password that was forgotten stays so; and the       *)
(* options of the client answer the value the user asked last, unless the  *)
(* custom client pins them.                                                *)
SettingsAreKept ==
    /\ Quiet /\ ~overlap => PeerIsAsWritten
    /\ \A o \in Options :
          askedOptions[o] # 0 =>
              get_or(o) = IF o \in DOMAIN layers.overwrite THEN layers.overwrite[o]
                          ELSE askedOptions[o]

(* The Windows host never announces a second key: a viewer that pinned the *)
(* first one meets it again or meets no host.                              *)
OneIdentity == Cardinality(announcedKeys) <= 1

=============================================================================
