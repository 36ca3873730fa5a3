---------------------------- MODULE TlsFallback ----------------------------
(***************************************************************************)
(* How a secure WebSocket or an HTTPS proxy connection of hbb_common finds *)
(* a TLS stack the server takes: websocket.rs (connect, try_connect),      *)
(* proxy.rs (connect and the https_connect functions), tls.rs (the cache   *)
(* that all connections of the process share) and verifier.rs.             *)
(*                                                                         *)
(* One server name is modelled.  The cache is two maps behind two locks,   *)
(* so the stack and the certificate policy of one success are stored and   *)
(* read in steps of their own, and the user may change the option and the  *)
(* server its set-up in between.                                           *)
(***************************************************************************)
EXTENDS Naturals, FiniteSets

CONSTANTS Callers,        \* connections of the process to this server
          HasNativeTls,   \* FALSE on OpenHarmony
          MaxConnects,    \* bound: connects per caller
          MaxSwaps        \* bound: changes of the option and of the server

ASSUME TlsConstants == HasNativeTls \in BOOLEAN /\ MaxConnects \in Nat /\ MaxSwaps \in Nat

VARIABLES permitted,   \* the option allow-insecure-tls-fallback
          site,        \* the stacks the server takes, its certificate
          remembered,  \* URL_TLS_TYPE, URL_TLS_DANGER_ACCEPT_INVALID_CERTS
          caller,      \* the connect of each caller
          swaps        \* changes so far

tlsVars == <<permitted, site, remembered, caller, swaps>>

Stacks == {"rustls", "native"}
Policies == {"unknown", "verify", "accept"}     \* Option<bool> of the code
Kinds == {"websocket", "proxy"}
Fresh(kind, n) == [kind |-> kind, pc |-> "idle", stack |-> "rustls", cached |-> FALSE,
                   policy |-> "unknown", first |-> "unknown", allowed |-> FALSE,
                   verified |-> TRUE, connects |-> n]

(* The type of the connections and of the cache.                           *)
TlsTypeOK ==
    /\ permitted \in BOOLEAN /\ swaps \in 0..MaxSwaps
    /\ site \in [stacks : SUBSET Stacks, valid : BOOLEAN]
    /\ remembered \in [stack : Stacks \cup {"unknown"}, policy : Policies]
    /\ \A c \in Callers :
          /\ caller[c].pc \in {"idle", "policy", "attempt", "store", "store_policy", "connected"}
          /\ caller[c].stack \in Stacks /\ caller[c].policy \in Policies

TlsInit ==
    /\ permitted \in BOOLEAN /\ swaps = 0
    /\ site \in [stacks : (SUBSET Stacks) \ {{}}, valid : BOOLEAN]
    /\ remembered = [stack |-> "unknown", policy |-> "unknown"]
    /\ caller \in [Callers -> {Fresh(k, 0) : k \in Kinds}]

Steps(c, record) == caller' = [caller EXCEPT ![c] = record]
Kept == UNCHANGED <<permitted, site, swaps>>

-----------------------------------------------------------------------------
(* get_cached_tls_type: nothing remembered means rustls.                   *)
get_cached_tls_type(c) ==
    [caller[c] EXCEPT !.pc = "policy", !.connects = @ + 1,
        !.stack = IF remembered.stack = "unknown" THEN "rustls" ELSE remembered.stack,
        !.cached = remembered.stack # "unknown"]

(* connect, of either kind.                                                *)
Connect(c) ==
    /\ caller[c].pc = "idle" /\ caller[c].connects < MaxConnects
    /\ Steps(c, get_cached_tls_type(c))
    /\ Kept /\ UNCHANGED remembered

(* get_cached_tls_accept_invalid_cert: without the option a certificate is *)
(* always verified, whatever is remembered.                                *)
\* mutant
cached_policy_only == remembered.policy

get_cached_tls_accept_invalid_cert == IF permitted THEN remembered.policy ELSE "verify"

ReadPolicy(c) ==
    /\ caller[c].pc = "policy"
    /\ Steps(c, [caller[c] EXCEPT !.pc = "attempt", !.policy = get_cached_tls_accept_invalid_cert,
                                  !.first = get_cached_tls_accept_invalid_cert,
                                  !.allowed = permitted])
    /\ Kept /\ UNCHANGED remembered

(* client_config: only an explicit yes replaces the verifier.              *)
client_config(policy) == IF policy = "accept" THEN "NoVerifier" ELSE "WebPkiServerVerifier"

(* get_connector, for either stack.                                        *)
Verifies(policy) == client_config(policy) # "NoVerifier"

(* The server takes this stack, and its certificate stands or is not       *)
(* looked at.                                                              *)
Accepted(c) == /\ caller[c].stack \in site.stacks
               /\ site.valid \/ ~Verifies(caller[c].policy)

AttemptSucceeds(c) ==
    /\ caller[c].pc = "attempt" /\ Accepted(c)
    /\ Steps(c, [caller[c] EXCEPT !.pc = "store", !.verified = Verifies(caller[c].policy)])
    /\ Kept /\ UNCHANGED remembered

(* What try_connect does after an error: the same stack without            *)
(* verification when the policy is open, then the other stack with the     *)
(* policy the connect began with.                                          *)
WsFallback(r) ==
    CASE r.policy = "unknown" -> {[r EXCEPT !.policy = "accept"]}
      [] r.policy # "unknown" /\ r.stack = "rustls" /\ ~r.cached /\ HasNativeTls ->
            {[r EXCEPT !.stack = "native", !.policy = r.first]}
      [] OTHER -> {}

(* The HTTPS proxy tries native TLS once, and never without verification.  *)
ProxyFallback(r) ==
    CASE r.stack = "rustls" /\ r.policy = "unknown" -> {[r EXCEPT !.policy = "accept"]}
      [] r.stack = "rustls" /\ r.policy # "unknown" /\ ~r.cached /\ HasNativeTls ->
            {[r EXCEPT !.stack = "native", !.policy = r.first]}
      [] OTHER -> {}

Fallback(r) == IF r.kind = "websocket" THEN WsFallback(r) ELSE ProxyFallback(r)

(* Any error, of the TLS handshake or of what follows it (http_connect,    *)
(* the WebSocket upgrade), falls back or is returned to the caller.        *)
AttemptFails(c) ==
    /\ caller[c].pc = "attempt"
    /\ IF Fallback(caller[c]) = {}
       THEN Steps(c, Fresh(caller[c].kind, caller[c].connects))
       ELSE \E next \in Fallback(caller[c]) : Steps(c, next)
    /\ Kept /\ UNCHANGED remembered

(* A timeout ends the connect at once, without a fallback.                 *)
TimesOut(c) ==
    /\ caller[c].pc = "attempt"
    /\ Steps(c, Fresh(caller[c].kind, caller[c].connects))
    /\ Kept /\ UNCHANGED remembered

(* upsert_tls_cache: two maps, two locks.                                  *)
StoreStack(c) ==
    /\ caller[c].pc = "store"
    /\ remembered' = [remembered EXCEPT !.stack = caller[c].stack]
    /\ Steps(c, [caller[c] EXCEPT !.pc = "store_policy"])
    /\ Kept
StorePolicy(c) ==
    /\ caller[c].pc = "store_policy"
    /\ remembered' = [remembered EXCEPT !.policy = IF caller[c].policy = "accept"
                                                   THEN "accept" ELSE "verify"]
    /\ Steps(c, [caller[c] EXCEPT !.pc = "connected"])
    /\ Kept

(* The connection is dropped and the caller may connect again.             *)
Hangup(c) ==
    /\ caller[c].pc = "connected"
    /\ Steps(c, Fresh(caller[c].kind, caller[c].connects))
    /\ Kept /\ UNCHANGED remembered

(* External: the user sets the option, the server is set up anew.          *)
OptionSwitched == /\ swaps < MaxSwaps /\ swaps' = swaps + 1 /\ permitted' = ~permitted
                  /\ UNCHANGED <<site, remembered, caller>>
ServerSwitched ==
    /\ swaps < MaxSwaps /\ swaps' = swaps + 1
    /\ site' \in [stacks : (SUBSET Stacks) \ {{}}, valid : BOOLEAN]
    /\ UNCHANGED <<permitted, remembered, caller>>

TlsNext ==
    \/ \E c \in Callers :
          \/ Connect(c) \/ ReadPolicy(c) \/ AttemptSucceeds(c) \/ AttemptFails(c)
          \/ TimesOut(c) \/ StoreStack(c) \/ StorePolicy(c) \/ Hangup(c)
    \/ OptionSwitched \/ ServerSwitched

TlsSpec == TlsInit /\ [][TlsNext]_tlsVars

-----------------------------------------------------------------------------
(* A connection whose certificate was not verified was begun while the     *)
(* user allowed it: neither what other connections left in the cache, nor  *)
(* a fallback of its own, gets around the option.                          *)
StrictStaysStrict ==
    \A c \in Callers : caller[c].pc \in {"store", "store_policy", "connected"}
                       => caller[c].verified \/ caller[c].allowed

(* No connection whose certificate nobody verified was begun while the     *)
(* user forbade it, whatever the shared cache holds (tls.rs, websocket.rs, *)
(* proxy.rs).                                                              *)
TlsIsStrict == TlsTypeOK /\ StrictStaysStrict
=============================================================================
