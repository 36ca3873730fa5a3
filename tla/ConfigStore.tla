---------------------------- MODULE ConfigStore ----------------------------
(***************************************************************************)
(* The identity a device keeps across restarts (config.rs of hbb_common,   *)
(* config/permanent_password.rs, password_security.rs and get_uuid of      *)
(* lib.rs): its ID, its signing key pair and its permanent password, in    *)
(* memory and in the configuration file.                                   *)
(*                                                                         *)
(* ID and password are sealed in the file with a key of the device: the    *)
(* machine UID, or the public key of the device itself where there is no   *)
(* UID (OpenHarmony) or the operating system does not give it this time.   *)
(* A key pair is written by a thread of its own after it is generated, and *)
(* the process may die at any moment.                                      *)
(*                                                                         *)
(* A stored string is the text it holds under its seals, outermost first,  *)
(* each with its version prefix and its key.  Nonces, base64 and lengths   *)
(* are left out: every string modelled is within ENCRYPT_MAX_LEN.  A file  *)
(* is written and read whole.                                              *)
(***************************************************************************)
EXTENDS Naturals, Sequences

CONSTANTS Passwords,   \* permanent passwords
          MaxKeys,     \* bound: key pairs generated
          MaxWrites,   \* bound: calls that change the configuration
          MaxStarts    \* bound: starts of the process

ASSUME ConfigConstants ==
    MaxKeys \in Nat \ {0} /\ MaxWrites \in Nat /\ MaxStarts \in Nat

VARIABLES machine,   \* "desktop", with a UID, or "ohos", without; fixed
          onDisk,      \* the configuration file
          mem,       \* CONFIG; its field up is FALSE while no process runs
          uid,       \* CACHED_MACHINE_UID is set in this process
          cache,     \* KEY_PAIR
          saver,     \* key pair the spawned thread has still to write
          made,      \* key pairs and IDs generated, writes and starts so far
          promise,   \* last password the user set
          lostKey    \* a key pair died with its process before it was written

configVars == <<machine, onDisk, mem, uid, cache, saver, made, promise, lostKey>>

Unset == 0   \* no key pair, no salt, no ID, no UID key
UidKey == MaxKeys + 1

-----------------------------------------------------------------------------
(* Stored strings.                                                         *)

Text(kind, pw, salt) == [seals |-> <<>>, kind |-> kind, pw |-> pw, salt |-> salt]
Empty == Text("empty", "", Unset)
IsEmpty(v) == v.kind = "empty"

Sealed(version, key, v) == [v EXCEPT !.seals = <<[version |-> version, key |-> key]>> \o v.seals]
Inner(v) == [v EXCEPT !.seals = Tail(v.seals)]
Starts(v, version) ==
    \/ v.seals # <<>> /\ Head(v.seals).version = version
    \/ v.seals = <<>> /\ v.kind = "hash" /\ version = "00"

(* is_encrypted: the prefix "00" and a payload that base64 decodes.  A     *)
(* hash in its own text form looks the same.                               *)
is_encrypted(v) == Starts(v, "00")

(* symmetric_crypt, to open: with the key of the device, and when that     *)
(* fails and it is not the same, with the public key.                      *)
open_with_uid_only(v, key, pair) ==  \* mutant
    v.seals # <<>> /\ Head(v.seals).key = key

symmetric_open(v, key, pair) ==
    v.seals # <<>> /\ Head(v.seals).key \in {key, pair} \ {Unset}

decrypts(v, version, k) ==
    Starts(v, version) /\ symmetric_open(v, k.key, k.pair)
(* encrypt_str_or_original.                                                *)
encrypt_str_or_original(v, k) ==
    IF IsEmpty(v) \/ is_encrypted(v) THEN v ELSE Sealed("00", k.key, v)

(* keep_encrypted_storage_if_plaintext_unchanged.                          *)
keep_encrypted_storage(plain, stored, k) ==
    IF decrypts(stored, "00", k) /\ Inner(stored) = plain
    THEN stored ELSE encrypt_str_or_original(plain, k)

-----------------------------------------------------------------------------
(* The permanent password.                                                 *)

compute_permanent_password_h1(pw, salt) == Text("hash", pw, salt)
encode_permanent_password(h1, k) == Sealed("01", k.key, h1)

decode_permanent_password_h1(v, k) ==
    decrypts(v, "01", k) /\ Inner(v).seals = <<>> /\ Inner(v).kind = "hash"

(* validate_or_decrypt_permanent_password_storage, its failure and what it *)
(* leaves in the configuration otherwise.                                  *)
PasswordInvalid(c, k) ==
    \/ Starts(c.password, "00") /\ ~decrypts(c.password, "00", k) /\ is_encrypted(c.password)
    \/ /\ decrypts(c.password, "01", k)
       /\ c.salt = Unset \/ ~decode_permanent_password_h1(c.password, k)
validate_or_decrypt(c, k) ==
    IF decrypts(c.password, "00", k)
    THEN [c EXCEPT !.password = Inner(c.password)] ELSE c

(* prepare_config_for_store: a password that cannot be recovered goes.     *)
prepare_config_for_store(c, k) ==
    IF PasswordInvalid(c, k) THEN [c EXCEPT !.password = Empty, !.salt = Unset]
    ELSE validate_or_decrypt(c, k)

(* Config::store, on what the file held.                                   *)
StoredPassword(c, stored, k) ==
    IF IsEmpty(c.password) \/ decode_permanent_password_h1(c.password, k)
    THEN c.password
    ELSE keep_encrypted_storage(c.password, stored.password, k)
StoredId(c, k) ==
    IF decrypts(c.enc_id, "00", k) /\ Inner(c.enc_id).pw = c.id THEN c.enc_id
    ELSE encrypt_str_or_original(Text("id", c.id, Unset), k)
Stored(c, stored, k) ==
    LET p == prepare_config_for_store(c, k) IN
    [password |-> StoredPassword(p, stored, k), salt |-> p.salt,
     enc_id |-> StoredId(p, k), key |-> p.key]

-----------------------------------------------------------------------------
(* Keys.                                                                   *)

(* get_uuid and get_key_pair: the device's key, generating a pair when     *)
(* there is no UID and no pair yet.                                        *)
Generates == cache = Unset /\ onDisk.key = Unset
Pair ==
    IF cache # Unset THEN cache ELSE IF onDisk.key # Unset THEN onDisk.key ELSE made.keys + 1
DeviceKeys(hasUid) ==
    IF hasUid THEN [key |-> UidKey, pair |-> IF cache # Unset THEN cache ELSE onDisk.key]
    ELSE [key |-> Pair, pair |-> Pair]

(* What a sealing or opening does to the cache of the pair, to the thread  *)
(* that writes it and to the number of pairs; get_existing_key_pair only   *)
(* ever fills the cache with what the file has.                            *)
UsesKeys(hasUid) ==
    IF hasUid
    THEN /\ cache' = IF cache # Unset THEN cache ELSE onDisk.key
         /\ UNCHANGED saver
    ELSE /\ made.keys < MaxKeys \/ ~Generates
         /\ cache' = Pair
         /\ saver' = IF Generates THEN Pair ELSE saver
MadeKeys(hasUid) == IF ~hasUid /\ Generates THEN made.keys + 1 ELSE made.keys

(* Writes under CONFIG.write: memory becomes c and the file follows it.    *)
Saves(c) ==
    /\ mem' = [c EXCEPT !.up = TRUE]
    /\ onDisk' = Stored(c, onDisk, DeviceKeys(uid))
    /\ UsesKeys(uid)

-----------------------------------------------------------------------------
(* Files a device may have: none yet, one of today, and one that an older  *)
(* version left, with the password and the ID in the clear or sealed.      *)
ConfigFiles(kind) ==
    LET own == IF kind = "ohos" THEN 1 ELSE UidKey
        pw == CHOOSE p \in Passwords : TRUE
    IN  {[password |-> Empty, salt |-> Unset, enc_id |-> Empty, key |-> Unset]} \cup
        [password : {Empty, Text("plain", pw, Unset), Sealed("00", own, Text("plain", pw, Unset)),
                     Sealed("01", own, Text("hash", pw, 1))},
         salt : {1}, enc_id : {Sealed("00", own, Text("id", "first", Unset))}, key : {1}]

Down == [up |-> FALSE, id |-> "", enc_id |-> Empty, password |-> Empty, salt |-> Unset,
         key |-> Unset]

ConfigInit ==
    /\ machine \in {"desktop", "ohos"}
    /\ onDisk \in ConfigFiles(machine)
    /\ mem = Down
    /\ uid = FALSE /\ cache = Unset /\ saver = Unset
    /\ made = [keys |-> onDisk.key, ids |-> 0, writes |-> 0, starts |-> 0]
    /\ promise = "" /\ lostKey = FALSE

(* gen_id: derived from the network card on a desktop, random elsewhere.   *)
Ids == <<"random1", "random2", "random3", "random4">>
gen_id == IF machine = "desktop" THEN "mac" ELSE Ids[made.ids + 1]

(* Config::load.  An ID that does not open is replaced; a file in which    *)
(* something changed is written back.                                      *)
Loaded(d, k) ==
    LET raw == [up |-> TRUE, id |-> "", enc_id |-> d.enc_id,
                password |-> d.password, salt |-> d.salt, key |-> d.key]
        c == IF PasswordInvalid(raw, k) THEN raw ELSE validate_or_decrypt(raw, k)
    IN  IF decrypts(d.enc_id, "00", k) THEN [c EXCEPT !.id = Inner(d.enc_id).pw]
        ELSE [c EXCEPT !.id = gen_id]
NewId(d, k) == ~decrypts(d.enc_id, "00", k)

(* The first access to CONFIG.                                             *)
StartProcess(hasUid) ==
    /\ ~mem.up /\ made.starts < MaxStarts /\ made.ids < Len(Ids)
    /\ hasUid => machine = "desktop"
    /\ uid' = hasUid
    /\ UsesKeys(hasUid)
    /\ LET k == DeviceKeys(hasUid)
           c == Loaded(onDisk, k)
       IN  /\ mem' = c
           /\ onDisk' = IF NewId(onDisk, k) THEN Stored(c, onDisk, k) ELSE onDisk
           /\ made' = [made EXCEPT !.starts = @ + 1, !.keys = MadeKeys(hasUid),
                                   !.ids = IF NewId(onDisk, k) THEN @ + 1 ELSE @]
    /\ UNCHANGED <<machine, promise, lostKey>>

(* The operating system gives the UID after all.                           *)
UidAppears ==
    /\ mem.up /\ machine = "desktop" /\ ~uid
    /\ uid' = TRUE
    /\ UNCHANGED <<machine, onDisk, mem, cache, saver, made, promise, lostKey>>

(* get_key_pair: a host is started.                                        *)
GetKeyPair ==
    /\ mem.up /\ cache = Unset
    /\ Generates => made.keys < MaxKeys
    /\ cache' = Pair
    /\ saver' = IF Generates THEN Pair ELSE saver
    /\ made' = [made EXCEPT !.keys = IF Generates THEN @ + 1 ELSE @]
    /\ UNCHANGED <<machine, onDisk, mem, uid, promise, lostKey>>

(* The thread get_key_pair spawned.                                        *)
SaveKey ==
    /\ mem.up /\ saver # Unset
    /\ mem' = [mem EXCEPT !.key = saver]
    /\ onDisk' = Stored(mem', onDisk, DeviceKeys(uid))
    /\ saver' = Unset
    /\ UNCHANGED <<machine, uid, cache, made, promise, lostKey>>

Writes ==
    /\ mem.up /\ made.writes < MaxWrites
    /\ made' = [made EXCEPT !.writes = @ + 1, !.keys = MadeKeys(uid)]

(* set_permanent_password, without a preset.  The salt stays.              *)
SetPassword(pw) ==
    /\ pw = "" => ~IsEmpty(mem.password)
    /\ Writes
    /\ LET salt == IF mem.salt = Unset THEN 1 ELSE mem.salt
           stored == IF pw = "" THEN Empty
                     ELSE encode_permanent_password(compute_permanent_password_h1(pw, salt),
                                                    DeviceKeys(uid))
       IN  Saves([mem EXCEPT !.password = stored, !.salt = IF pw = "" THEN mem.salt ELSE salt])
    /\ promise' = pw
    /\ UNCHANGED <<machine, uid, lostKey>>

(* set_permanent_password_storage_for_sync: the service of the same        *)
(* machine sends its storage and its salt as a pair, or an empty storage;  *)
(* a storage without salt or not of today's form is refused.               *)
SyncPassword(pw, salt) ==
    /\ pw # "" => salt # Unset
    /\ pw = "" => ~IsEmpty(mem.password) \/ salt \notin {Unset, mem.salt}
    /\ Writes
    /\ LET storage == IF pw = "" THEN Empty
                      ELSE encode_permanent_password(compute_permanent_password_h1(pw, salt),
                                                     DeviceKeys(uid))
       IN  Saves([mem EXCEPT !.password = storage,
                             !.salt = IF salt = Unset THEN mem.salt ELSE salt])
    /\ promise' = pw
    /\ UNCHANGED <<machine, uid, lostKey>>

(* set_salt, which get_salt calls with a fresh one when there is none.     *)
Hashed(k) ==
    /\ ~IsEmpty(mem.password)
    /\ \/ Starts(mem.password, "01")
       \/ is_encrypted(mem.password) /\ ~decrypts(mem.password, "00", k)
SetSaltUnguarded(salt) ==  \* mutant
    /\ salt # mem.salt
    /\ Writes
    /\ Saves([mem EXCEPT !.salt = salt])
    /\ UNCHANGED <<machine, uid, promise, lostKey>>

SetSalt(salt) ==
    /\ salt # mem.salt /\ (Hashed(DeviceKeys(uid)) => mem.salt = Unset)
    /\ Writes
    /\ Saves([mem EXCEPT !.salt = salt])
    /\ UNCHANGED <<machine, uid, promise, lostKey>>

(* set_id.                                                                 *)
SetId(id) ==
    /\ id # mem.id
    /\ Writes
    /\ Saves([mem EXCEPT !.id = id])
    /\ UNCHANGED <<machine, uid, promise, lostKey>>

(* The process ends, at any moment.                                        *)
Die ==
    /\ mem.up
    /\ mem' = Down /\ uid' = FALSE /\ cache' = Unset /\ saver' = Unset
    /\ lostKey' = (lostKey \/ saver # Unset)
    /\ UNCHANGED <<machine, onDisk, made, promise>>

ConfigNext ==
    \/ \E hasUid \in BOOLEAN : StartProcess(hasUid)
    \/ UidAppears \/ GetKeyPair \/ SaveKey \/ Die
    \/ \E pw \in Passwords \cup {""} : SetPassword(pw)
    \/ \E salt \in {1, 2} : SetSalt(salt)
    \/ \E pw \in Passwords \cup {""}, salt \in {Unset, 1, 2} : SyncPassword(pw, salt)
    \/ SetId("custom")

ConfigSpec == ConfigInit /\ [][ConfigNext]_configVars

-----------------------------------------------------------------------------
(* local_permanent_password_storage_is_usable_for_auth, which              *)
(* has_permanent_password asks when there is a local password.             *)
UsableForAuth(c, k) ==
    /\ ~IsEmpty(c.password)
    /\ IF decode_permanent_password_h1(c.password, k) THEN c.salt # Unset
       ELSE /\ ~decrypts(c.password, "01", k)
            /\ ~is_encrypted(c.password) \/ decrypts(c.password, "00", k)

ConfigTypeOK ==
    /\ machine \in {"desktop", "ohos"}
    /\ uid \in BOOLEAN /\ lostKey \in BOOLEAN
    /\ cache \in 0..MaxKeys /\ saver \in 0..MaxKeys /\ onDisk.key \in 0..MaxKeys
    /\ Len(onDisk.password.seals) <= 2 /\ Len(mem.password.seals) <= 2
    /\ promise \in Passwords \cup {""}

(* A password the configuration would accept: its plain text, or the hash  *)
(* of it under the salt that is stored beside it.                          *)
Accepts(c, k, pw) ==
    \/ IsEmpty(c.password) /\ pw = ""
    \/ c.password.seals = <<>> /\ c.password.kind = "plain" /\ c.password.pw = pw
    \/ /\ decode_permanent_password_h1(c.password, k)
       /\ c.salt # Unset /\ Inner(c.password) = compute_permanent_password_h1(pw, c.salt)

(* A process that died now would come back as the same device: once the    *)
(* thread that writes a key pair is done, the file alone gives back the ID *)
(* in use, the key pair in use and a password that accepts what the one in *)
(* memory accepts, with the same keys of the machine or better ones.       *)
RestartIsTheSame ==
    mem.up /\ saver = Unset =>
        \A hasUid \in {uid, machine = "desktop"} :
            LET now == DeviceKeys(uid)
                then == IF hasUid THEN [key |-> UidKey, pair |-> onDisk.key]
                        ELSE [key |-> onDisk.key, pair |-> onDisk.key]
                back == Loaded(onDisk, then)
            IN  /\ cache # Unset => onDisk.key = cache
                /\ ~NewId(onDisk, then) /\ back.id = mem.id
                /\ \A pw \in Passwords : Accepts(mem, now, pw) => Accepts(back, then, pw)

(* The password the user set last is the one that opens the device, over   *)
(* any number of restarts, also through a start in which the machine did   *)
(* not give its UID, and whatever is written meanwhile (the fallback of    *)
(* symmetric_crypt, "in case encryption used pk due to machine_uid         *)
(* failure").  The exception is a key pair that died unwritten.            *)
PasswordSurvives ==
    mem.up /\ promise # "" /\ (uid \/ machine = "ohos") /\ ~lostKey =>
        /\ UsableForAuth(mem, DeviceKeys(uid))
        /\ Accepts(mem, DeviceKeys(uid), promise)

=============================================================================
