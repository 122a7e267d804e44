------------------------------ MODULE Account ------------------------------
(***************************************************************************)
(* What one account keeps in memory (otrng_client_s) and in its files, and *)
(* otrng_client_ensure_correct_state (src/src/client_orchestration.c),     *)
(* which the application calls at its start and every 67 minutes: it makes *)
(* sure that there are keys, profiles and prekey messages, by loading them *)
(* or by making new ones.                                                  *)
(*                                                                         *)
(* The steps of one call are actions of their own: the application may     *)
(* crash between two of them, and each of them may fail when a callback    *)
(* does not find a file or does not make the thing it is asked for.        *)
(*                                                                         *)
(* A key, a profile or a prekey message is the number it was made with; 0  *)
(* is NULL.  A profile names the keys it was signed for, and a prekey      *)
(* profile has a private part (keys) or has lost it.                       *)
(***************************************************************************)
EXTENDS Integers, FiniteSets, FiniteSetsExt

CONSTANTS
  Life,             \* Life[kind]: the lifetime of a profile of this kind
  ExtraValid,       \* client->profiles_extra_valid_time
  Buffer,           \* client->profiles_buffer_time
  MaxPublished,     \* client->max_published_prekey_msg
  MinStored,        \* client->minimum_stored_prekey_msg
  AccountFaults,    \* what goes wrong, a subset of AccountFaultKinds
  Events,           \* what else happens, a subset of EventKinds
  MaxTime,          \* bound: the clock
  MaxMade,          \* bound: things made
  MaxFaults         \* bound: faults

Kinds == {"client", "prekey"}      \* client profile and prekey profile

\* "load": a callback does not load what the file holds.  "create": a callback
\* does not make what it should.  "crash": the application ends, perhaps within a call.
AccountFaultKinds == {"load", "create", "crash"}
\* "use": a peer uses a prekey message.  "import": the user imports an identity.
EventKinds == {"use", "import"}

ASSUME LifeAssumption == Life \in [Kinds -> Nat]
ASSUME TimesAssumption ==
  /\ ExtraValid \in Nat /\ Buffer \in Nat
  /\ \A k \in Kinds : Buffer < Life[k]
ASSUME PrekeysAssumption ==
  MaxPublished \in Nat /\ MinStored \in Nat /\ MinStored <= MaxPublished
ASSUME EventsAssumption ==
  AccountFaults \subseteq AccountFaultKinds /\ Events \subseteq EventKinds
ASSUME AccountBounds == MaxTime \in Nat /\ MaxMade \in Nat /\ MaxFaults \in Nat

VARIABLES
  client,     \* the account in memory
  disk,       \* the account's part of the files
  stage,      \* the step of otrng_client_ensure_correct_state that is next
  now,        \* the clock
  made,       \* how many things were made
  faults,     \* how often something went wrong
  used,       \* the prekey messages peers have used (history)
  happened    \* the kinds of faults and imports there have been (history)

accountVars == <<client, disk, stage, now, made, faults, used, happened>>

Stages ==
  {"idle", "keypair", "privkey_v3", "forging_key",
   "check_client", "load_client", "create_client", "expired_client",
   "check_prekey", "load_prekey", "create_prekey", "expired_prekey", "prekeys",
   "fingerprints"}

Check(kind) == IF kind = "client" THEN "check_client" ELSE "check_prekey"
Load(kind) == IF kind = "client" THEN "load_client" ELSE "load_prekey"
Create(kind) == IF kind = "client" THEN "create_client" ELSE "create_prekey"
Expired(kind) == IF kind = "client" THEN "expired_client" ELSE "expired_prekey"

KeyNames == {"keypair", "privkey_v3", "forging_key"}

Expiries == 0 .. MaxTime + Max({Life[k] : k \in Kinds})

Profile ==
  [id : 0 .. MaxMade, keypair : 0 .. MaxMade, forging_key : 0 .. MaxMade,
   expires : Expiries, keys : BOOLEAN, should_publish : BOOLEAN,
   is_publishing : BOOLEAN, has_validated : BOOLEAN]

NoProfile ==
  [id |-> 0, keypair |-> 0, forging_key |-> 0, expires |-> 0, keys |-> FALSE,
   should_publish |-> FALSE, is_publishing |-> FALSE, has_validated |-> FALSE]

PrekeyMessage ==
  [id : 1 .. MaxMade, should_publish : BOOLEAN, is_publishing : BOOLEAN]

\* A file keeps of the marks only should_publish.
FileProfile ==
  [id : 0 .. MaxMade, keypair : 0 .. MaxMade, forging_key : 0 .. MaxMade,
   expires : Expiries, keys : BOOLEAN, should_publish : BOOLEAN]

NoFileProfile ==
  [id |-> 0, keypair |-> 0, forging_key |-> 0, expires |-> 0, keys |-> FALSE,
   should_publish |-> FALSE]

Files ==
  [key : [KeyNames -> 0 .. MaxMade], profile : [Kinds -> FileProfile],
   expired : [Kinds -> FileProfile],
   our_prekeys : SUBSET [id : 1 .. MaxMade, should_publish : BOOLEAN],
   fingerprints : BOOLEAN]

NoFiles ==
  [key |-> [n \in KeyNames |-> 0], profile |-> [k \in Kinds |-> NoFileProfile],
   expired |-> [k \in Kinds |-> NoFileProfile], our_prekeys |-> {},
   fingerprints |-> FALSE]

\* otrng_client_new.  The flags of the client itself are in no file; of the
\* fingerprints only whether they are there is modelled.
NewClient ==
  [key |-> [n \in KeyNames |-> 0], profile |-> [k \in Kinds |-> NoProfile],
   expired |-> [k \in Kinds |-> NoProfile], our_prekeys |-> {},
   should_publish |-> FALSE, is_publishing |-> FALSE,
   prekey_msgs_num_to_publish |-> 0, fingerprints |-> FALSE]

AccountInit ==
  /\ client = NewClient
  /\ disk = NoFiles
  /\ stage = "idle"
  /\ now = 0
  /\ made = 0
  /\ faults = 0
  /\ used = {}
  /\ happened = {}

Fault(kind) ==
  /\ kind \in AccountFaults
  /\ faults < MaxFaults
  /\ faults' = faults + 1
  /\ happened' = happened \cup {kind}

NoFault == UNCHANGED <<faults, happened>>

-----------------------------------------------------------------------------
(* Validity of profiles *)

IsExpired(p) == p.expires <= now
IsInvalid(p) == p.expires + ExtraValid <= now
IsCloseToExpiry(p) == p.expires - Buffer <= now

\* The signatures of a client profile are checked with the keys in it, so a profile
\* that was signed at all verifies; the signature of a prekey profile is checked with
\* the account's key.
ClientProfileSigned(p) == p.keypair # 0
PrekeyProfileSigned(p) == p.keypair = client.key["keypair"]

\* The result of the first check is kept in the profile.
ClientProfileFastValid(p) ==
  (p.has_validated \/ ClientProfileSigned(p)) /\ ~IsExpired(p)
PrekeyProfileFastValid(p) ==
  (p.has_validated \/ PrekeyProfileSigned(p)) /\ ~IsExpired(p)

ClientProfileIsExpiredButValid(p) ==
  ClientProfileSigned(p) /\ IsExpired(p) /\ ~IsInvalid(p)
PrekeyProfileIsExpiredButValid(p) ==
  PrekeyProfileSigned(p) /\ IsExpired(p) /\ ~IsInvalid(p)

\* Variant: the keys of the client profile are not compared.
VerifyValidClientProfileUnbound(p) ==
  p.id # 0 /\ ClientProfileFastValid(p)

HasOurKeys(p) ==
  /\ p.keypair = client.key["keypair"]
  /\ p.forging_key = client.key["forging_key"]

VerifyValidClientProfile(p) ==
  p.id # 0 /\ HasOurKeys(p) /\ ClientProfileFastValid(p)
VerifyValidPrekeyProfile(p) ==
  p.id # 0 /\ PrekeyProfileFastValid(p)

VerifyValidExpiredClientProfile(p) ==
  /\ p.id # 0
  /\ HasOurKeys(p)
  /\ ClientProfileFastValid(p) \/ ClientProfileIsExpiredButValid(p)
VerifyValidExpiredPrekeyProfile(p) ==
  /\ p.id # 0
  /\ PrekeyProfileFastValid(p) \/ PrekeyProfileIsExpiredButValid(p)

IsValid(kind, p) ==
  IF kind = "client" THEN VerifyValidClientProfile(p) ELSE VerifyValidPrekeyProfile(p)
IsExpiredButValid(kind, p) ==
  IF kind = "client" THEN ClientProfileIsExpiredButValid(p)
                     ELSE PrekeyProfileIsExpiredButValid(p)
IsValidExpired(kind, p) ==
  IF kind = "client" THEN VerifyValidExpiredClientProfile(p)
                     ELSE VerifyValidExpiredPrekeyProfile(p)

-----------------------------------------------------------------------------
(* The files.  What an operator below stores into d, or loads from d, is the
   account's part of the file that the application gives to the library. *)

\* ..._serialize_with_metadata and ..._deserialize_with_metadata
ClientProfileToFile(p) ==
  [NoFileProfile EXCEPT !.id = p.id, !.keypair = p.keypair,
                        !.forging_key = p.forging_key, !.expires = p.expires,
                        !.should_publish = p.should_publish]
ClientProfileFromFile(f) ==
  [NoProfile EXCEPT !.id = f.id, !.keypair = f.keypair, !.forging_key = f.forging_key,
                    !.expires = f.expires, !.should_publish = f.should_publish]

PrekeyProfileToFile(p) ==
  [NoFileProfile EXCEPT !.id = p.id, !.keypair = p.keypair, !.expires = p.expires,
                        !.keys = p.keys, !.should_publish = p.should_publish]
PrekeyProfileFromFile(f) ==
  [NoProfile EXCEPT !.id = f.id, !.keypair = f.keypair, !.expires = f.expires,
                    !.keys = f.keys, !.should_publish = f.should_publish]

PrekeyMessageToFile(m) == [id |-> m.id, should_publish |-> m.should_publish]
PrekeyMessageFromFile(f) ==
  [id |-> f.id, should_publish |-> f.should_publish, is_publishing |-> FALSE]

StoreKey(d, name, key) == [d EXCEPT !.key[name] = key]
LoadKey(d, name) == d.key[name]

StoreClientProfile(d, p) == [d EXCEPT !.profile["client"] = ClientProfileToFile(p)]
StorePrekeyProfile(d, p) == [d EXCEPT !.profile["prekey"] = PrekeyProfileToFile(p)]
StoreExpiredClientProfile(d, p) == [d EXCEPT !.expired["client"] = ClientProfileToFile(p)]
StoreExpiredPrekeyProfile(d, p) == [d EXCEPT !.expired["prekey"] = PrekeyProfileToFile(p)]

StoreProfile(d, kind, p) ==
  IF kind = "client" THEN StoreClientProfile(d, p) ELSE StorePrekeyProfile(d, p)
StoreExpired(d, kind, p) ==
  IF kind = "client" THEN StoreExpiredClientProfile(d, p)
                     ELSE StoreExpiredPrekeyProfile(d, p)

LoadClientProfile(d) == ClientProfileFromFile(d.profile["client"])
LoadPrekeyProfile(d) == PrekeyProfileFromFile(d.profile["prekey"])

\* An expired profile is written with its metadata and read without them, and the
\* private part of a prekey profile is among them: what is loaded has none.
LoadExpiredClientProfile(d) ==
  [ClientProfileFromFile(d.expired["client"]) EXCEPT !.should_publish = FALSE]
LoadExpiredPrekeyProfile(d) ==
  [PrekeyProfileFromFile(d.expired["prekey"]) EXCEPT !.keys = FALSE,
                                                    !.should_publish = FALSE]

Loaded(d, kind) ==
  IF kind = "client" THEN LoadClientProfile(d) ELSE LoadPrekeyProfile(d)
LoadedExpired(d, kind) ==
  IF kind = "client" THEN LoadExpiredClientProfile(d) ELSE LoadExpiredPrekeyProfile(d)

\* Each of them replaces all there is.
StorePrekeyMessages(d, ms) ==
  [d EXCEPT !.our_prekeys = {PrekeyMessageToFile(m) : m \in ms}]
LoadPrekeyMessages(d) == {PrekeyMessageFromFile(f) : f \in d.our_prekeys}

-----------------------------------------------------------------------------
(* otrng_client_ensure_correct_state *)

Enough(ms) == Cardinality(ms) >= MinStored

\* A call that finds everything in order changes nothing.
AllInOrder ==
  /\ \A name \in KeyNames : client.key[name] # 0
  /\ \A kind \in Kinds :
       /\ IsValid(kind, client.profile[kind])
       /\ ~IsCloseToExpiry(client.profile[kind])
       /\ \/ IsValidExpired(kind, client.expired[kind])
          \/ client.expired[kind] = NoProfile /\ disk.expired[kind] = NoFileProfile
  /\ Enough(client.our_prekeys)
  /\ client.fingerprints

\* The first key that is missing, or the first step after the keys.
FirstMissing(key) ==
  IF key["keypair"] = 0 THEN "keypair"
  ELSE IF key["privkey_v3"] = 0 THEN "privkey_v3"
  ELSE IF key["forging_key"] = 0 THEN "forging_key"
  ELSE "check_client"

\* It makes at most three keys, two profiles and MaxPublished prekey messages.
EnsureCorrectState ==
  /\ stage = "idle"
  /\ ~AllInOrder
  /\ made + 5 + MaxPublished <= MaxMade
  /\ stage' = FirstMissing(client.key)
  /\ UNCHANGED <<client, disk, now, made, faults, used, happened>>

\* ensure_valid_long_term_key, ..._v3 and ensure_valid_forging_key.  A new key
\* makes the profiles in memory useless; those in the files stay.
EnsureKeyLoaded(name) ==
  /\ stage = name
  /\ client.key[name] = 0
  /\ LoadKey(disk, name) # 0
  /\ client' = [client EXCEPT !.key[name] = LoadKey(disk, name)]
  /\ stage' = FirstMissing(client'.key)
  /\ UNCHANGED <<disk, now, made, faults, used, happened>>

EnsureKeyCreated(name) ==
  /\ stage = name
  /\ client.key[name] = 0
  /\ IF LoadKey(disk, name) = 0 THEN NoFault ELSE Fault("load")
  /\ made' = made + 1
  /\ client' = [client EXCEPT
       !.key[name] = made',
       !.profile = [k \in Kinds |->
          IF k = "client" \/ name = "keypair" THEN NoProfile ELSE @[k]]]
  /\ disk' = StoreKey(disk, name, made')
  /\ stage' = FirstMissing(client'.key)
  /\ UNCHANGED <<now, used>>

EnsureKeyFails(name) ==
  /\ stage = name
  /\ client.key[name] = 0
  /\ LoadKey(disk, name) = 0
  /\ Fault("create")
  /\ stage' = "idle"
  /\ UNCHANGED <<client, disk, now, made, used>>

\* Variant: a profile that is about to expire is dropped.
OutdatedLate(kind, p) == IsExpiredButValid(kind, p)

\* A profile that is about to expire or has just expired is kept as the expired
\* one (move_..._profile_to_expired); any other that is not valid is dropped.
Outdated(kind, p) ==
  IsExpiredButValid(kind, p) \/ (IsValid(kind, p) /\ IsCloseToExpiry(p))

\* check_if_expired_..., verify_valid_... and check_if_not_close_to_expired_... for
\* the profile p; next is the step that follows if there is no good profile.
Examine(kind, p, next) ==
  /\ IF IsValid(kind, p) /\ ~IsCloseToExpiry(p)
       THEN /\ client' = [client EXCEPT
                 !.profile[kind] = [p EXCEPT !.has_validated = TRUE]]
            /\ stage' = Expired(kind)
       ELSE /\ client' = [client EXCEPT
                 !.profile[kind] = NoProfile,
                 !.expired[kind] = IF Outdated(kind, p) THEN p ELSE @]
            /\ stage' = next
  /\ disk' = IF Outdated(kind, p) THEN StoreExpired(disk, kind, p) ELSE disk
  /\ UNCHANGED <<now, made, used>>

CheckProfile(kind) ==
  /\ stage = Check(kind)
  /\ Examine(kind, client.profile[kind], Load(kind))
  /\ NoFault

LoadProfile(kind) ==
  /\ stage = Load(kind)
  /\ \/ Examine(kind, Loaded(disk, kind), Create(kind)) /\ NoFault
     \/ disk.profile[kind].id # 0 /\ Examine(kind, NoProfile, Create(kind)) /\ Fault("load")

\* Variant: the lifetime is added twice.
NewClientProfileTwice ==
  [id |-> made + 1, keypair |-> client.key["keypair"],
   forging_key |-> client.key["forging_key"], expires |-> now + 2 * Life["client"],
   keys |-> FALSE, should_publish |-> TRUE, is_publishing |-> FALSE, has_validated |-> TRUE]

\* otrng_client_profile_build; ensure_valid_client_profile has validated it and set
\* should_publish.
NewClientProfile ==
  [id |-> made + 1, keypair |-> client.key["keypair"],
   forging_key |-> client.key["forging_key"], expires |-> now + Life["client"],
   keys |-> FALSE, should_publish |-> TRUE, is_publishing |-> FALSE, has_validated |-> TRUE]

\* otrng_prekey_profile_build
NewPrekeyProfile ==
  [id |-> made + 1, keypair |-> client.key["keypair"], forging_key |-> 0,
   expires |-> now + Life["prekey"], keys |-> TRUE,
   should_publish |-> TRUE, is_publishing |-> FALSE, has_validated |-> TRUE]

NewProfile(kind) == IF kind = "client" THEN NewClientProfile ELSE NewPrekeyProfile

CreateProfile(kind) ==
  /\ stage = Create(kind)
  /\ made' = made + 1
  /\ client' = [client EXCEPT !.profile[kind] = NewProfile(kind),
                              !.should_publish = TRUE]
  /\ disk' = StoreProfile(disk, kind, NewProfile(kind))
  /\ stage' = Expired(kind)
  /\ UNCHANGED <<now, faults, used, happened>>

CreateProfileFails(kind) ==
  /\ stage = Create(kind)
  /\ Fault("create")
  /\ stage' = "idle"
  /\ UNCHANGED <<client, disk, now, made, used>>

\* ensure_valid_expired_..._profile: if it is not good in memory, it is loaded; if
\* it is not good then, it is removed from the file as well.
AfterExpired(kind) == IF kind = "client" THEN "check_prekey" ELSE "prekeys"

EnsureExpired(kind) ==
  /\ stage = Expired(kind)
  /\ stage' = AfterExpired(kind)
  /\ IF IsValidExpired(kind, client.expired[kind])
       THEN UNCHANGED <<client, disk>>
       ELSE IF IsValidExpired(kind, LoadedExpired(disk, kind))
       THEN /\ client' = [client EXCEPT !.expired[kind] =
                 [LoadedExpired(disk, kind) EXCEPT !.has_validated = TRUE]]
            /\ UNCHANGED disk
       ELSE /\ client' = [client EXCEPT !.expired[kind] = NoProfile]
            /\ disk' = StoreExpired(disk, kind, NoProfile)
  /\ UNCHANGED <<now, made, faults, used, happened>>

\* create_new_prekey_messages
NumberToCreate(ms) ==
  Max({MaxPublished - Cardinality(ms), client.prekey_msgs_num_to_publish})

NewPrekeys(n) ==
  {[id |-> made + i, should_publish |-> TRUE, is_publishing |-> FALSE] : i \in 1 .. n}

EnsurePrekeysThere ==
  /\ stage = "prekeys"
  /\ Enough(client.our_prekeys)
  /\ stage' = "fingerprints"
  /\ UNCHANGED <<client, disk, now, made, faults, used, happened>>

\* Loading replaces the list.  Without a file to read it stays as it is; a read that
\* fails has emptied it first, and leaves what came before the failure.
LoadGives(ms) ==
  \/ ms = LoadPrekeyMessages(disk) /\ NoFault
  \/ /\ disk.our_prekeys # {}
     /\ ms = client.our_prekeys \/ ms # LoadPrekeyMessages(disk)
     /\ Fault("load")

Loadable == {client.our_prekeys} \cup SUBSET LoadPrekeyMessages(disk)

EnsurePrekeysLoaded ==
  /\ stage = "prekeys"
  /\ ~Enough(client.our_prekeys)
  /\ \E ms \in Loadable :
       /\ LoadGives(ms)
       /\ Enough(ms)
       /\ client' = [client EXCEPT !.our_prekeys = ms]
  /\ stage' = "fingerprints"
  /\ UNCHANGED <<disk, now, made, used>>

CreatePrekeys(ms) ==
  LET n == NumberToCreate(ms)
      all == ms \cup NewPrekeys(n)
  IN  /\ made' = made + n
      /\ client' = [client EXCEPT !.our_prekeys = all,
                                  !.prekey_msgs_num_to_publish = 0,
                                  !.should_publish = TRUE]
      /\ disk' = StorePrekeyMessages(disk, all)
      /\ stage' = "fingerprints"
      /\ UNCHANGED <<now, used>>

EnsurePrekeysCreated ==
  /\ stage = "prekeys"
  /\ ~Enough(client.our_prekeys)
  /\ \E ms \in Loadable :
       /\ LoadGives(ms)
       /\ ~Enough(ms)
       /\ CreatePrekeys(ms)

\* ensure_loaded_fingerprints and ..._v3: loaded, or created and stored
EnsureFingerprints ==
  /\ stage = "fingerprints"
  /\ client' = [client EXCEPT !.fingerprints = TRUE]
  /\ disk' = IF client.fingerprints THEN disk ELSE [disk EXCEPT !.fingerprints = TRUE]
  /\ stage' = "idle"
  /\ UNCHANGED <<now, made, faults, used, happened>>

Ensure ==
  \/ EnsureCorrectState
  \/ \E name \in KeyNames :
       \/ EnsureKeyLoaded(name)
       \/ EnsureKeyCreated(name)
       \/ EnsureKeyFails(name)
  \/ \E kind \in Kinds :
       \/ CheckProfile(kind)
       \/ LoadProfile(kind)
       \/ CreateProfile(kind)
       \/ CreateProfileFails(kind)
       \/ EnsureExpired(kind)
  \/ EnsurePrekeysThere
  \/ EnsurePrekeysLoaded
  \/ EnsurePrekeysCreated
  \/ EnsureFingerprints

-----------------------------------------------------------------------------
(* What else happens to an account *)

\* otrng_client_delete_my_prekey_message_by_id: a peer's non-interactive
\* authentication message used prekey message id.
UsePrekey(id) ==
  /\ "use" \in Events
  /\ stage = "idle"
  /\ \E m \in client.our_prekeys : m.id = id
  /\ client' = [client EXCEPT !.our_prekeys = {m \in @ : m.id # id}]
  /\ disk' = StorePrekeyMessages(disk, client'.our_prekeys)
  /\ used' = used \cup {id}
  /\ UNCHANGED <<stage, now, made, faults, happened>>

\* otrng_client_import_v4_identity replaces two keys in memory, and nothing else.
ImportIdentity ==
  /\ "import" \in Events
  /\ stage = "idle"
  /\ "import" \notin happened
  /\ \A name \in KeyNames : client.key[name] # 0
  /\ made + 2 <= MaxMade
  /\ made' = made + 2
  /\ client' = [client EXCEPT !.key["keypair"] = made + 1,
                              !.key["forging_key"] = made + 2]
  /\ happened' = happened \cup {"import"}
  /\ UNCHANGED <<disk, stage, now, faults, used>>

Restart ==
  /\ Fault("crash")
  /\ client # NewClient
  /\ client' = NewClient
  /\ stage' = "idle"
  /\ UNCHANGED <<disk, now, made, used>>

Tick ==
  /\ stage = "idle"
  /\ now < MaxTime
  /\ now' = now + 1
  /\ UNCHANGED <<client, disk, stage, made, faults, used, happened>>
=============================================================================
