# libotr-ng, checked with TLA+

libotr-ng (`src/`) is a C library for version 4 of the OTR protocol: two
applications agree on keys with a deniable authenticated key exchange (DAKE),
online or through a prekey server, exchange messages that a double ratchet
encrypts, and compare a shared secret with SMP. The library itself is
sequential: it is called by an application, and returns what the application
has to send. What makes it hard is the other end: two such automata, each with
a dozen pieces of state that must stay related, run over a network that loses,
repeats and reorders, and an application may start, abort, answer, disconnect
or restart at any moment.

This directory holds TLA+ models of the library - key management, the
conversation, SMP, fragments, the account with its files and the client of the
prekey server -, TLC configurations that check them on small instances, and
TLAPS proofs about each of them for every value of the parameters.

    tlc -workers 2 -config MCDoubleRatchet_lossy.cfg MCDoubleRatchet
    tlapm DoubleRatchetProofs.tla

`PROJECT.json` maps every definition to the lines it translates, and lists the
runs, the faulty variants that show that each property can fail, the findings,
the hazards and the theorems.

## 1. Inventory

| Component | Code | State | Operations | Hard part |
|---|---|---|---|---|
| conversation | `otrng.c`, `protocol.h` | `otrng_s`: state, keys, profiles, last_sent | query, identity, Auth-R, Auth-I, non-interactive Auth, data, error, close | crossed and stale DAKE messages; a DAKE inside an old session; the state changes in the middle of handlers |
| key management | `key_management.c` | `key_manager_s`: i, j, k, pn, ECDH and DH pairs, root, brace and chain keys, skipped keys, old MAC keys | rotate, derive, store and take skipped keys, temporary ratchet, reveal MAC keys | gaps across ratchets; rejected messages; every third ratchet mixes DH |
| data messages | `protocol.c`, `data_message.c` | none | send_data_message, validity | answers sent while a message is handled |
| DAKE messages | `dake.c`, `auth.c` | none | generate, serialize, sign, verify | what the signatures bind |
| SMP | `smp.c`, `smp_protocol.c` | `smp_protocol_s`: expected step, secret, scalars, message 1 | initiate, answer, abort, four messages | stale runs, both users start at once, late answers |
| fragmentation | `fragment.c`, `prekey_fragment.c` | list of contexts per conversation | fragment, unfragment, expire | order, duplicates, expiry |
| client | `client.c` | list of conversations, prekey messages, profiles | send, receive, disconnect, expire, build prekey messages | lifetime of conversations |
| orchestration | `client_orchestration.c` | which keys and profiles are loaded or missing | load, create, renew, expire | failure or a crash between two of many steps |
| prekey manager | `prekey_manager.c`, `prekey_client_*.c`, `prekey_proofs.c` | one slot for a request; marks of what is being published | DAKE with the server, publish, retrieve, status | one request at a time, answers late, twice or for another client |
| profiles, prekey messages | `client_profile.c`, `prekey_profile.c`, `prekey_message.c`, `prekey_ensemble.c` | expiry, signatures | create, verify, expire | time |
| global state, persistence | `messaging.c`, `persistence.c`, `client_callbacks.c` | clients, files | load, store, callbacks | restart between two files |
| OTR version 3 | `v3.c` | a libotr context | wrappers | none of its own |
| TLVs, fingerprints, tags, primitives, encoding | `tlv.c`, `padding.c`, `fingerprint.c`, `instance_tag.c`, `dh.c`, `ed448.c`, ... | none or a list | pure functions | erased keys |

Interaction: the application calls `client.c`, which finds the conversation and
calls `otrng.c`. A received data message goes through the key manager (derive,
check the MAC, commit the temporary ratchet), then through its TLVs (SMP,
disconnection), whose answers go back through `protocol.c` and the same key
manager before the first handler has returned. The DAKE initialises the key
manager; the ssid it leaves there is part of the SMP secret. The client owns
the prekey messages that a non-interactive DAKE consumes. The application calls
`otrng_client_ensure_correct_state` at its start and every 67 minutes; it asks
the application, through callbacks, to load, make and store things, and leaves
marks of what should be published. The prekey manager publishes what is marked,
and the answer clears the marks in memory and in the files. Every message comes
in through the reassembly of fragments, and `otrng_poll` expires fragments and
requests.

What makes each modelled component correct:

* key management: both peers derive the same key for every message that can
  arrive, nothing is accepted twice, used keys and erased private keys cannot
  be computed again, MAC keys are published exactly once, and a rejected
  message changes nothing;
* conversation: whoever finishes a DAKE agrees with the other peer on all its
  keys, no session is initialised twice from one secret, the encrypted state is
  entered only with a confirmed key and a told application, and a conversation
  that is asked for, or lost by one side, becomes private;
* SMP: a verdict is about what the two users typed for that run, in that
  session, and nobody waits for a message that will not come;
* fragmentation: a message is handed up when its last piece arrives, whole, to
  its receiver, and never from duplicates alone;
* the account: what is marked as published the server has accepted; the secrets
  of what the server hands out are in the files until they are used or expired;
  a call that ensures the correct state leaves an account that is complete, has
  profiles for its present keys, and is the one a restart would find.

## 2. Modules

| Module | Models | Notes |
|---|---|---|
| `KeyManager` | `key_management.c`, pure operators on the record `Manager` | field names are those of `key_manager_s` |
| `Channel` | what a data session promises to the code above it | abstract: keys that seal and open, messages on their way |
| `DoubleRatchet` | two managers, `send_data_message`, `otrng_receive_data_message_after_dake`, the network | extends `KeyManager`, shown to implement `Channel` |
| `Conversation` | the state machine of `otrng.c` for two peers, prekey messages of `client.c` | the data phase is reduced to the ratchet counter |
| `SMP` | `smp.c`, `smp_protocol.c` for two peers in a session | the transport is what `DoubleRatchet` guarantees |
| `Reassembly` | what the code above `fragment.c` relies on | abstract: pieces that wait, messages handed up |
| `Fragment` | `fragment.c`, `otrng_client_send_fragment`, the poll | shown to implement `Reassembly` |
| `Account` | `client_orchestration.c`, profiles and prekey messages, `persistence.c` and `messaging.c` for one account, `otrng_client_import_v4_identity` | one action per step of `otrng_client_ensure_correct_state` |
| `PrekeyManager` | `prekey_manager.c`, the publication marks of `client.c`, the server's and a peer's part | extends `Account` |
| `KeyManagerProofs`, `QueueProofs` | lemmas about the operators of `KeyManager`, and about queues | used by the modules below |
| `DoubleRatchetProofs`, `RatchetsInStepProofs` | theorems about one peer, and about two | section 5 |
| `ConversationProofs`, `SMPProofs`, `FragmentProofs`, `PrekeyManagerProofs` | theorems about these components | section 5 |
| `MCDoubleRatchet`, `MCConversation`, `MCSMP`, `MCFragment`, `MCPrekeyManager` | instances for TLC | the configurations give the constants |

`DoubleRatchet` and `Conversation` overlap on purpose: the first starts where
the DAKE ended and has the complete key manager; the second has the DAKEs and
all state changes, and keeps of the data phase only the counter `i` (it decides
whether a DAKE generates and mixes DH keys), the ratchet and identifier of a
message and the session it belongs to.

### Keys are symbolic

A public key is a name (its owner and the ratchet in which it was generated, or
the number of a random draw). Key derivation is free of collisions, so a root
key *is* the sequence of shared secrets mixed into it, and a chain key is a root
key and a position. A MAC verifies if and only if both sides derived the same
chain key and the message is intact. A ring signature or a zero-knowledge proof
verifies if and only if both sides name the same keys. Erasure is explicit: an
erased ECDH scalar is zero, and zero times a point is the identity, which passes
the validity check (`EcdhSharedSecret`); an erased DH exponent is a NULL pointer,
whose use is a crash (`UsesNullKey`).

### State and actions of DoubleRatchet

`keys[p]` is `otr->keys`, `net[p]` the messages on their way to `p`. `Send` is
`otrng_send_message`. A received message takes one of six actions, one per path
through `otrng_receive_data_message`: `ReceiveQuiet`; `ReceiveAndReplyTlv` (the
answer is sent inside `receive_tlvs`, before the MAC key is stored);
`ReceiveAndHeartbeat` (after it); `ReceiveAndFailToAnswer` (sending fails while
the peer waits for its first data message: the ratchet has moved, the state has
not, and in the TLV case the MAC key is never stored); `Reject` (wrong MAC);
`Crash` (freed list or NULL exponent). `Faults` selects what the network does.

The list of skipped keys is a set of records. The code searches the list from
its head; `SkippedKeysUnambiguous` shows that there is never more than one
match, so the order does not matter. With late messages there can be two, though
not within the bounds of `hostile`; the model then takes one of them, and the
proofs hold whichever it is. Undefined behaviour is modelled as a crash
(`dangling`: the list was freed and is used again). Corruption spoils the MAC,
not the header fields; text plus TLV in one message (two answers) and the extra
symmetric key are left out. `RevealedMacKeys` is what an ordinary data message
reveals (`protocol.c:267-282`); that DISCONNECTED also reveals the MAC keys of
the skipped keys (`otrng_reveal_mac_keys_on_tlv`) is not modelled.

`Channel` knows nothing of ratchets: a message is the key that seals it, `Seal`
takes one that nobody has used, `Open` one that is on its way, and the peer that
did not start the session seals nothing before it has opened something. The
mapping (`InTransit`) takes the messages on their way to their keys and the
histories `sent` and `got` to themselves. `Send` and the two answering actions are
`Send` and `ReceiveAndAnswer`, the quiet ones are `Receive`, loss is `Lose`.
`Reject` and `Crash` have no counterpart: that they do not happen is part of what
`ImplementsChannel` says.

### State and actions of Conversation

`conn[p]` is `otrng_s` with the parts of the key manager that the DAKE uses;
`established[p]` records each session that was initialised, with the role ("t"
sends the first data message, "u" receives it) and the four keys of its
transcript. `SendQuery`, `SendIdentity`, `SendNonInteractiveAuth`,
`PublishPrekey`, `SendText`, `SendSmp`, `Close` are API calls; `Receive` is
`otrng_receive_message` with one action per message type and outcome. DH public
keys are compared when identity messages cross, so every draw is low or high
(`Draws`), which puts any two keys in either order. Versions, version 3, the
fingerprint policy and the `_first` keys, which are generated and consumed with
the ephemeral ones, are left out. Messages of a ratchet older than the current
one are not delivered here: `DoubleRatchet` has them.

A data message is empty, a text, an SMP message or DISCONNECTED. Its handler may
have to send one: a heartbeat for a text, the next message or an abort for an SMP
message (`ReplyKind`). A peer that waits for its first data message may not send
(`MayReply`), so there the handler fails after it has decrypted the message and
moved the ratchet, and the wait goes on (`ReceiveDataTooEarly`,
`otrng.c:2098-2135`); elsewhere the answer is sent (`ReceiveDataAndReply`). A
message that needs no answer ends the wait (`ReceiveQuietData`).

### State and actions of SMP

`smp[p]` is `smp_protocol_s`. `typed` lists what the users typed; the index in
it names the scalars drawn at that moment, so a pair of indices names a run.
`same` stands for pa_pb and qa_qb. `Initiate`, `InitiateTooEarly` (only an abort
is sent and the own run goes on), `ProvideSecret` and `UserAborts` are the API;
`otrng_process_smp` is one action per message, `ReceiveInvalid` (EVENT_ERROR, the
other peer is not told), `ReceiveUnexpected` (EVENT_ABORT) and `ReceiveAbort`.
`Renew` is a client that lost its conversation and ran a new DAKE: its SMP state
is new, the other peer's survives, because only `otrng_new` initialises it. The
TLVs travel in data messages, so they are authentic and arrive at most once.
An answer that the data layer refuses to send because its sender still waits for
the first data message is a loss here. The progress percentage and the question's
text are left out. The user answers
only questions asked in the current conversation: with `message1` NULL
`generate_smp_message_2` would dereference it.

### State and actions of Fragment

`contexts` is `otr->pending_fragments` in the order of the list, `wire` the
pieces on their way. A text is a sequence of `Chars`, of which only the comma
matters: `%*[^,]` ends a piece there, so a plain text with a comma is cut
(`Parsed`), and an encoded message never is. A piece takes one of four paths
through `otrng_unfragment_message_generic`: `ReceiveIgnored`, `ReceiveMalformed`
(the context is reset, with identifier 0, and stays in the list),
`ReceiveConflicting` and `ReceivePiece`, which hands the message up when it is
complete. `Expire` is one call of `otrng_expire_fragments` with the comparison
the code has: it removes the first context *younger* than the threshold, and the
loop ends there because the removal clears `next`.

`Reassembly` keeps for each message the pieces that wait and the messages handed
up. The refinement mapping takes the pieces of the context that has the real
number of pieces of its message (a damaged piece may have opened one with
another total); a context that is reset or expired is the abstract `Drop`, every
other path is `Wait`, `HandUp` or a stutter.

### State and actions of Account and PrekeyManager

`client` is what `otrng_client_s` holds of the account in memory, `disk` the
account's part of the files. A key, a profile or a prekey message is the number
it was made with; a profile names the keys it was signed for. `stage` is the
next step of `otrng_client_ensure_correct_state`: the three keys, for each kind
of profile check, load, create and the expired one, the prekey messages, the
fingerprints. A step may fail ("load": a callback does not find what the file
holds, "create": it does not make the thing), and `Restart` may come between any
two. What a file keeps is smaller than what memory has (`ClientProfileToFile`
and its relatives): `is_publishing` and the cached validation are lost, and an
expired profile is written with its metadata and read without them. `keys` says
whether a prekey profile has its private part, which is part of the metadata: an
expired prekey profile that was loaded has none, although the file still does
(`persistence.c:854`, `LoadExpiredPrekeyProfile`). Reading prekey messages frees
the list in memory first and may stop half way (`messaging.c:490`), so a load
that fails leaves a part of what the file has (`LoadGives`); a callback that does
not read leaves memory alone. Every `Store` replaces the whole file, as
`..._write_to` does.

`request` is the one slot of the manager. `Publish` and
`RequestStorageInformation` fill it and send DAKE-1; `ReceiveDake2` sends DAKE-3
with the publication or the question; the answers, an error, `ReceiveForOther`
and `CheckAccountRequest` (from the poll, after ten minutes) empty it. A second
DAKE-2 reads the ephemeral key that was freed with DAKE-3 (`CrashOnDake2`). The
application is external and does what `client.h` and `prekey_manager.h` ask for:
it marks what it puts into a publication and calls `otrng_client_published` or
`otrng_client_failed_published`. The server accepts, refuses, reports its
storage and hands a prekey message out once; a peer's use of it is
`PeerUsesPrekey` or, when the profiles were renewed meanwhile, `PeerIsRefused`.
The network keeps, reorders and repeats; a message that waits for ever is lost.

Steps of the server and of peers are taken between calls of the library: within
a call of `otrng_client_ensure_correct_state` they would touch nothing it reads.

## 3. Runs

Numbers are distinct states; the longest runs, `lossy`, `confirm`, `offline` and
`account`, take one to three minutes with two workers. Deadlock is not an error in any of
them: two users may stop talking, and the bounds stop them in the end.

| Run | Checks | Instance |
|---|---|---|
| `lossy` | `TypeOK`, `RatchetsAlternate`, `InStep`, `SkippedKeysUnambiguous`, `ImplementsChannel` | loss and reordering, answers to TLVs, 6 ratchets of 2 messages, max_skip 3 (0.5 million) |
| `hostile` | `NoReplay`, `ForwardSecrecy`, `PrivateKeysErased`, `MacKeysKept` | every fault, every kind of answer, max_skip 1, 3 ratchets (0.2 million) |
| `late` | `InStep`, violated | reordering across ratchets |
| `reject` | `RejectionKeepsRatchet`, violated | reordering and duplicates |
| `confirm` | `TypeOK`, `Agreement`, `EncryptedIsSecure`, `Confirmed` | identity messages that cross, offline DAKEs, texts and SMP messages, loss, reordering, duplicates, a restart (2.6 million) |
| `offline` | `Agreement`, `SessionsFresh`, `NoMutualWait` | offline and interactive DAKEs, texts and SMP messages, disconnection, heartbeats, duplicates, restart, a message for another instance (2.2 million) |
| `heal` | `Heals` | one restart, texts (25 thousand) |
| `redake` | `SecretsMatch`, violated | three identity messages |
| `crossed` | `EventuallySecure`, violated | three queries, a reliable network |
| `runs` | `TypeOK`, `VerdictsRight`, `QuietIsConsistent`, `ComesToRest` | two starts, two answers, one abort, one fault (0.2 million) |
| `pieces` | `TypeOK`, `ContextsConsistent`, `NothingLost`, `ImplementsReassembly` | two messages, whole or in two pieces, with and without a comma, sizes below and above the header's, repeated and damaged pieces, polls (0.5 million) |
| `account` | `TypeOK`, `Truthful`, `PrekeysKept`, `ServedProfilesKept`, `EnsureRepairs` | two requests, one fault of the application, the server or the network, an import, renewal of both profiles (4.5 million) |

Why the bounds are enough. DH is mixed on every third ratchet, and both sides
count, so 6 ratchets pass twice through the cycle; a gap needs two messages in a
ratchet, and with `MaxSkip` 1 in `hostile` a gap of one is stored and a gap of
two exceeds the limit. A stale DAKE message needs a second run, so two starts;
`crossed` and `redake` need the third. SMP needs two starts for crossed and for
consecutive runs, two answers for the late answer to an aborted run. In
`account` the client profile lives for two units of time and the prekey profile
for three, with a buffer and an extra validity of one, so that within `MaxTime` 3
each is renewed and the first one has expired; a stale answer needs a second
request; two prekey messages, with a minimum of one, let the list shrink below
the server's. In `pieces` two messages are enough for contexts that interfere,
two faults for a damaged and a repeated piece, and two pieces for every order of
arrival (with three pieces and one fault the properties hold as well, 0.4 million).

Fairness. `FairSpec` of `Conversation` and `SMP` is weak fairness of handling
received messages: an application that receives a message passes it to the
library, whose handlers return. Nothing is assumed of the users or of the
network beyond that; the two liveness runs of `Conversation` lose no message,
and `ComesToRest` holds with loss. `ComesToRest` says that the library goes
quiet once the users do, and the bounds on starts, answers and aborts are the
users coming to rest. `Fragment` and `PrekeyManager` state safety only: their
polls and callbacks are the application's.

### Findings

* `late`: a message of an older ratchet is decrypted with its skipped key, but
  its old ECDH and DH keys have been put into the temporary ratchet and are
  committed with it. The next message of the current ratchet looks like a new
  ratchet and is rejected. Later gaps are filed under the old key, and then
  `SkippedKeysUnambiguous` fails as well.
* `reject`: a message with a wrong MAC frees the list of skipped keys, which the
  temporary ratchet shares with the manager; a rotation has also destroyed the
  manager's DH private key before the MAC is checked.
* `redake`: a DAKE inside an older session generates and mixes DH keys only if
  the old session's counter is a multiple of three. Peers whose counters differ
  finish with different secrets.
* `crossed`: three queries make one peer send two identity messages that cross
  the other's. Each answers one that the other has already given up, and both
  stay in WAITING_AUTH_I with nothing on its way. With two queries the property
  holds (12 thousand states): the comparison of the DH keys settles it.

Seen while modelling, and not kept as runs:

* DISCONNECTED as the first data message leaves the receiver in
  ENCRYPTED_MESSAGES without keys (`otrng.c:2144` overwrites FINISHED). With
  "close" among the `Uses` of `confirm`, `EncryptedIsSecure` fails; `offline`
  exercises the action.
* The first data message after a DAKE does not always end the wait for it. If its
  handler has to send something, it is decrypted, the call returns an error and
  the wait goes on: with the default policy a text asks for a heartbeat
  (`otrng.c:2112`), and an SMP message of an earlier run for an abort
  (`otrng.c:2098`). Both runs with "smp" exercise the action; no property says
  that the wait ends.
* Two offline DAKEs that cross, or an offline one that crosses an interactive
  one, can leave both peers waiting for the other's first data message
  (`otrng.c:1429`): neither may send. `NoMutualWait` therefore excepts a peer that
  got there by an offline DAKE; a query or a new DAKE ends it.
* A data message for another instance ends the wait for the first data message
  (`otrng.c:2001`, `2144`): `Confirmed` excludes that fault.
* `max_skip` bounds one gap and not the store (`key_management.c:1025`).
* The brace key is wiped after every use (`key_management.c:544`), so on a
  ratchet that is not a third one it derives from zeros; `CalculateBraceKey`
  and `ZeroBrace` have this.
* `otrng_expire_fragments` drops the contexts that are younger than
  `fragments_exp_time` and keeps the old ones (`fragment.c:345`), although
  `client.h:168` says "Expires old fragments"; and it stops at the first one.
  `NothingLost` therefore excepts messages whose context was dropped.
* A publication whose answer is lost leaves `is_publishing` set when the poll
  empties the slot (`prekey_manager.c:640`): `otrng_client_should_publish` is
  false until an error arrives or the application restarts. After a restart
  `client->should_publish` is false although the files still hold things marked
  for publication (`client.h:83`: "This flag will be set when there is anything
  that should be published").
* A duplicated DAKE-2 dereferences the freed ephemeral key
  (`prekey_manager.c:497`); a DAKE-2 that crosses a renewal of the client
  profile is rejected, because it is verified with the new one (`493`).
* A message that a peer made with the old profiles is refused even if the
  fallback signature verifies (`otrng.c:1258-1278`), and
  `otrng_client_get_exp_prekey_profile` returns the current one (`client.c:988`).
* A failed load is taken for a missing file, and the store that follows
  replaces it; `PrekeysKept` and `ServedProfilesKept` exclude that fault.
* An expired prekey profile loses its private part when it is read
  (`persistence.c:854` calls the variant without metadata): after a restart an
  offline message made with it cannot be answered from memory, and writing it
  with metadata would dereference the missing key (`prekey_profile.c:280`).
  `ServedProfilesKept` says that the private part is in the files, not that the
  library reads it.
* A read of prekey messages that stops half way leaves memory with fewer than the
  file, and the next store loses the rest (`messaging.c:490`): `PrekeysKept`
  excludes failed loads, and `EnsureRepairs` lets the file have more than memory
  after one.
* After an import the cached validation keeps the prekey profile of the old keys
  (`prekey_profile.c:418`); `EnsureRepairs` excludes it.
* With several accounts: reading prekey messages frees those of all accounts
  (`messaging.c:490`), and reading expired profiles stops after the first
  (`client.c:941` reports success as an error).
* The loop over retrieved ensembles shortens its bound while it walks
  (`prekey_manager.c:830`).
* `otrng_client_expire_sessions` returns in its first round (`client.c:584`).
* `otrng_smp_initiate` in the middle of a run sends an abort and keeps its own
  state. `QuietIsConsistent` holds all the same: the other peer can still answer
  message 1, or its abort arrives.

## 4. What each property says that a test would hardly reach

`InStep` looks at every deliverable message in every state, so it covers every
order of arrival. `RatchetsAlternate` relates the two managers.
`ImplementsChannel` adds that the keys of a session are new in every step, also
those of answers sent while the handler of another message is half done. `NoReplay` and
`ForwardSecrecy` relate a manager to everything it ever decrypted or sent.
`MacKeysKept` is about the order inside a handler (answer first, or MAC key
first). `Agreement` and `SessionsFresh` range over all sessions two peers have
initialised, with messages of abandoned runs still on their way. `NoMutualWait`
is about two peers that each think the other one has to speak first, after any
crossing, repetition or restart: neither could send. `Heals` is the
sequence data, error, query, identity, Auth-R, Auth-I, data after the loss of a
conversation. `VerdictsRight` compares a verdict with what was typed for that
very run although message 1 of an aborted run stays stored and messages of old
runs arrive in the right step of a new one. `ContextsConsistent` is what the
unchecked copy in `join_fragments` needs, after any sequence of pieces.
`Truthful` relates the marks in memory and in the files with what the server
ever accepted, through two requests whose answers may be exchanged.
`PrekeysKept` and `ServedProfilesKept` relate the server and the wire with the
files, whatever step a crash interrupts; for a prekey profile the file must also
have the private part. `EnsureRepairs` looks at the state
after the last of up to fourteen steps, any of which may have loaded, made or
lost something.

## 5. Proofs

The theorems hold for every value of the constants: any number of messages,
ratchets, runs, requests and prekey messages, under the assumptions that the
modules state about their constants (they are numbers and sets of the right
kind). A theorem that needs more says so in its ASSUME, and the text below gives
the reason. Every proof has the same shape: the effect of each action is
described by a lemma, an inductive invariant is shown to hold initially and to
be kept by each effect, and the property follows from it.

| Module | Theorem | States | Besides the typing of constants |
|---|---|---|---|
| `DoubleRatchetProofs` | `TypeCorrect`, `KeyOrder`, `ReplaySafety`, `ForwardSecrecyHolds`, `MacKeysAreKept`, `PrivateKeysAreErased` | `TypeOK`, `KeysInOrder`, `NoReplay`, `ForwardSecrecy`, `MacKeysKept`, `PrivateKeysErased` | |
| | `SkippedKeysAreUnambiguous` | `SkippedKeysUnambiguous` | no late messages |
| `RatchetsInStepProofs` | `PeersStayInStep`, `RatchetsDoAlternate` | `InStep`, `RatchetsAlternate` | `Benign` |
| | `RatchetsMakeAChannel`, `ChannelDeliversOnce` | `ImplementsChannel`, `ExactlyOnce` of `Channel` | `Benign` |
| | `DirectionsAreApart` | `KeysApart` | |
| `SMPProofs` | `TypeCorrect`, `VerdictsAreRight`, `NobodyWaitsInVain` | `TypeOK`, `VerdictsRight`, `QuietIsConsistent` | |
| `ConversationProofs` | `TypeCorrect`, `DakesAgree`, `SessionsAreFresh` | `TypeOK`, `Agreement`, `SessionsFresh` | |
| | `EncryptedMeansSecure` | `EncryptedIsSecure` | nobody disconnects |
| | `EncryptedMeansConfirmed` | `Confirmed` | the same, and no message for another instance |
| | `NobodyWaitsForEachOther` | `NoMutualWait` | |
| `FragmentProofs` | `TypeCorrect`, `BuffersFit`, `NoMessageIsLost`, `FragmentsReassemble` | `TypeOK`, `ContextsConsistent`, `NothingLost`, `ImplementsReassembly` | |
| `PrekeyManagerProofs` | `TypeCorrect`, `PublishedPrekeysAreKept`, `PublicationsAreTruthful`, `CallsRepairTheAccount` | `TypeOK`, `PrekeysKept`, `Truthful`, `EnsureRepairs` | |
| | `ServedProfilesAreKept` | `ServedProfilesKept` | `2 * Buffer <= Life` |

### The double ratchet

`NoReplay` is not inductive: that a decrypted message is not valid *now* says
nothing about the state after the next rotation. The invariant that is,
`KeysInOrder`, orders the message keys. Each rotation makes the root key longer,
so a key lies *behind* a chain if its root is shorter, or if it is an earlier
position of that chain. `KeysBehind(m, got, sent)` says that every key received
lies behind the receiving chain, every key sent behind the sending chain, every
skipped key behind the receiving chain and not among the received ones, and that
skipped keys are distinct. Each operator of `KeyManager` has a lemma about its
type and, if it moves a chain, one that it keeps the order: `StoreEncKeysBehind`
(the stored keys are the positions the chain passes over),
`RotateKeysReceiveBehind`, `ReceiveRatchetBehind` (the key taken for a message is
new, and lies behind afterwards) and `SendDataBehind`. The proof covers rejected
and late messages too: whatever they spoil, they move no chain backwards.

`MacKeysKept` adds `MacKeysOnce`: what waits to be revealed and what was revealed
are disjoint and both come from received messages; an accepted key is new by
`KeysInOrder`, so it cannot be one that was revealed. `PrivateKeysErased` rests
on `KeysFresh`: a peer's own keys in its root key are numbered up to its ratchet
counter, and a private key that is still held occurs at most in the last secret.
`SkippedKeysUnambiguous` rests on `KeysLabelled`: the keys of one label come from
one chain, and the label of the current chain is the peer's current ECDH key.
A late message breaks exactly that, because it makes its own old key the current
one; with "late" and bounds above those of `hostile` the property is false, so
the theorem assumes `"late" \notin Faults`. `NoReplay`, `ForwardSecrecy` and the rest do not use it.

`InStep` relates two managers and all messages between them. Its invariant
`PeersInStep` says of each side (`Side`) how the two counters, root keys, public
and private keys correspond, depending on which peer is ahead, and for each
message on its way which chain and position it was made with, and that its key
is still ahead of the receiver or is stored. `Benign` is the network in which the
library promises this: messages are lost and reordered, not held back until
their ratchet is over (the runs `late` and `reject` are the counterexamples for
late and for duplicated messages), and no gap is wider than max_skip.

`DirectionsAreApart` needs no such network. `Directed` says that the peers take
turns: root keys of odd length belong to "t", those of even length to "u"
(`OwnTurn`), a peer that is sending holds a root key of its own, one that has to
start a ratchet holds one of the other peer, and every message was sealed on a
root key of its sender. A late message does not break this, because a root key
only changes by one rotation at a time; a rejected one does not, because its
rotation is not kept.

`RatchetsMakeAChannel` puts the pieces together. `SentKeyIsNew`: the key of the
next message lies ahead of everything its sender has sent (`KeysInOrder`) and on
a root key of its own turn (`Directed`), so nobody has used it. `InStep` excludes
a rejection. `StepMovesChannel` says that every step leaves the channel alone or
is one of its moves, `AlwaysDistinct` that the messages on their way have distinct
keys, so that a key can stand for its message, and `ChannelStep` carries the
moves over the mapping. `ChannelDeliversOnce` is a consequence of `Channel` alone
(`ChannelOnce`), which is what the code above the session may rely on.

### SMP

`RunsRight`: a peer that waits for message 2, 3 or 4 belongs to a run of indices
that the two users really typed, holds the secret typed for it, and from step 4
on the comparison it holds is that of the run. The same is said of each message
in flight and of each verdict. It is kept when message 1 of an aborted run is
answered late, because the message names its own index.

`QuietIsConsistent` speaks of silent networks only and is far from inductive. Its
invariant `NobodyIsStuck` says, as long as nothing was lost, reordered or
renewed, that a waiting peer has something on its way to it, or is waited for:
the last message of its queue to the other peer, aborts aside, is the message it
sent last, or (in step 2) the other peer keeps that message 1 for its user
(`AwaitsMessage2`, `3`, `4`). If that message is the next to be handled and the
other peer is in the step for it, it belongs to the same run and verifies, so
that it is answered: only an unverified message is not. If the other peer is in
another step it answers with an abort, which is on its way. Whoever types or
aborts in between puts something into a queue or waits anew.

### Conversation

Each action is first brought into one of nine forms (`Does`): starts or answers a
DAKE, publishes, goes on, is reset, finishes in one of four roles. `Agreement`
then needs one fact about the network (`Told`): the sender of an Auth-I or of an
offline message has established the session whose keys the message names.
`SessionsFresh` needs `PeerKeys`: the peers draw different keys, and neither the
key of a DAKE that is under way nor a prekey that is still stored occurs in a
session its owner has established.
`EncryptedIsSecure` and `Confirmed` need an invariant over the waiting state.
Both are false if a peer disconnects at once, `Confirmed` also with a message
for another instance (section 3, findings): the theorems exclude these.

`NoMutualWait` needs no such assumption. Whoever waits after an interactive DAKE
has sent the identity message and taken an Auth-R, and the peer that answered
drew its key after it had seen the identity message. `WaitInv` (`OrderedFor`) says
of a waiting peer, and of each Auth-R on its way, that the key of the identity
message is older (`Age`) than the one that answers it; and that the answering
peer, if it has become an initiator itself, did so with that or a later key. Two
peers that wait for each other would each have the older key.

### Fragments

`Inv` has a part for each variable. A piece on its way (`PieceOK`) and a context
(`ContextOK`) belong to a sent message; the length a context counts is that of its pieces;
no message has two contexts (`Unique`); the undamaged pieces of a message, on
their way and stored, were cut with one size (`CutFor`); what arrived and was not
handed up is stored (`KeptAt`). That the stored pieces give the text back when they
are joined is a fact about `FlattenSeq`, a recursive function: the lemma
`SetInduction` derives induction from the existence of a minimal element of a
set of naturals, so that no operator has to be instantiated, and `FlattenSteps`, `FlattenLengths` and
`PiecesJoined` use it. `FragmentsReassemble` is the refinement: the mapping of
section 2 takes each action to `Send`, `Arrive`, `Drop` or a stutter (`AbsSend`,
`AbsPiece`, `AbsDrop`, `AbsStutter`).

### The account and the prekey manager

The actions are described by what they do to the account (`AccountDoes`) and
to the request, the wire and the server (`NextDoes`). `PrekeysKept`: once memory
has prekey messages the file has the same (after a failed read the same or more),
and what is on the wire or at the server is in the file or used (`PrekeysInv`). `Truthful`: everything marked
as being published is in the one publication that carries the number of the
request in the slot, and is accepted when its answer is on the wire (`MarksInv`);
so the answer that clears the marks tells the truth (`TruthInv`). `EnsureRepairs`:
a profile in memory is the one in its file (`SyncInv`), and after each stage of
the call the part it is responsible for is good and stays so (`ProgressInv`).
`ServedProfilesKept`: what is served is the current or the expired profile of the
files until its end (`ServedInv`); a prekey profile in memory that is not an
expired one has its private part, and so has every one in a file (`PrivateInv`),
because only the load of the expired one drops it; a profile only takes the place of one that has
ended or was moved (`Replaceable`). This needs that the expired profile ends
before the current one is renewed: with `Life` 3 and `Buffer` 2 TLC finds a
profile that is renewed twice before its end and is lost. The code has two weeks
and 57 minutes (`client.c:94-98`), far from that.

### Model-checked only

Liveness (`Heals`, `EventuallySecure`, `ComesToRest`) and anything with ENABLED
are out of the prover's reach. Every safety property, action property and
refinement of a passing run is a theorem. What the findings' runs show is shown
by their counterexamples.

## 6. Not modelled

The list of conversations of a client, which only finds a conversation by its
recipient (its expiry does nothing, see above). Several accounts in one file,
instance tags and the list of fingerprints. The array of ensembles of a
retrieval: one ensemble is the abstraction. The transitional signature of a
client profile. Version 3 is a wrapper around libotr, which is not in the
repository. Encoding, TLV parsing, padding lengths and the arithmetic of the
primitives and proofs are pure functions without behaviour over time.

## 7. Plan

Done: `KeyManager`, `DoubleRatchet` and `Channel`, `Conversation`, `SMP`,
`Fragment` and `Reassembly`, `Account`, `PrekeyManager`, and the proofs of
section 5: every safety property of a passing run and both refinements. What
could come next:

1. Two accounts that share the files of an application (`messaging.c:490`,
   `client.c:941`, `persistence.c:842`).
2. `SMP` over a `Channel`: its queues are a channel that keeps the order of the
   messages unless a fault is counted, so the two could share their network.
