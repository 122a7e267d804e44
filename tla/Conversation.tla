---------------------------- MODULE Conversation ----------------------------
(***************************************************************************)
(* The state machine of one conversation (src/src/otrng.c) run by two      *)
(* peers: query, interactive and non-interactive DAKE, the first data      *)
(* message, disconnection, error messages and the loss of a conversation.  *)
(*                                                                         *)
(* The data phase is reduced to what the state machine depends on: the     *)
(* ratchet counter i, which decides whether a DAKE generates and mixes DH  *)
(* keys, whether a data message belongs to the receiver's session, and     *)
(* whether the receiver has to send something in the handler.  Module      *)
(* DoubleRatchet has the rest of the ratchet, module SMP what the peers    *)
(* answer to an SMP message.                                               *)
(*                                                                         *)
(* A generation of ephemeral keys draws a random number that names the     *)
(* ECDH key and, when it is generated too, the DH key.  DH public keys are *)
(* compared, so a drawn number is either low or high: with both kinds of   *)
(* draws every two keys of the two peers can be in either order.           *)
(***************************************************************************)
EXTENDS Naturals, Sequences, FiniteSets

CONSTANTS
  Uses,             \* what the applications do, a subset of UseKinds
  Faults,           \* what goes wrong, a subset of FaultKinds
  ErrorStartsDake,  \* the policy has OTRNG_ERROR_START_DAKE
  Heartbeats,       \* the client has the default should_heartbeat
  Draws,            \* 0: a drawn number may be low, 1: it may be high
  MaxStarts,        \* bound: DAKEs and prekey publications the users ask for
  MaxTexts,         \* bound: texts and SMP messages the users send
  MaxFaults,        \* bound: restarts and messages for another instance
  MaxKeys,          \* bound: key generations
  MaxInFlight       \* bound: messages on their way to one peer

\* "smp": the users start and answer SMP, in messages without a text.
UseKinds == {"query", "identity", "offline", "text", "smp", "close"}

\* "other_instance": a data message that the peer sent to another client of the
\* same account.  "restart": a client loses its conversation.
FaultKinds == {"lose", "duplicate", "reorder", "restart", "other_instance"}

ASSUME UsesAssumption == Uses \subseteq UseKinds
ASSUME FaultsAssumption == Faults \subseteq FaultKinds
ASSUME PolicyAssumption == ErrorStartsDake \in BOOLEAN /\ Heartbeats \in BOOLEAN
ASSUME DrawsAssumption == Draws \subseteq {0, 1}
ASSUME BoundsAssumption ==
  /\ MaxStarts \in Nat /\ MaxTexts \in Nat /\ MaxFaults \in Nat
  /\ MaxKeys \in Nat /\ MaxInFlight \in Nat

VARIABLES
  conn,         \* conn[p]: p's otrng_s
  net,          \* net[p]: the messages on their way to p
  secure,       \* secure[p]: the last callback was gone_secure
  prekeys,      \* prekeys[p]: p's stored prekey messages (client->our_prekeys)
  published,    \* published[p]: p's prekey messages on the prekey server
  drawn,        \* the number of key generations so far
  count,        \* how often the users and the faults have acted
  got,          \* got[p]: the data messages p has decrypted (history)
  established   \* established[p]: the sessions p has initialised, a sequence
                \* (history)

vars == <<conn, net, secure, prekeys, published, drawn, count, got, established>>

Peer == {"alice", "bob"}

Other(p) == IF p = "alice" THEN "bob" ELSE "alice"

State == {"START", "WAITING_AUTH_R", "WAITING_AUTH_I",
          "WAITING_DAKE_DATA_MESSAGE", "ENCRYPTED_MESSAGES", "FINISHED",
          "CRASHED"}

\* A destroyed or NULL key.
NoKey == 0

Key == 0 .. (2 * MaxKeys)

Secret == [ecdh : SUBSET Key, dh : SUBSET Key]

NoSecret == [ecdh |-> {}, dh |-> {}]

\* profile: their_client_profile is set.  idle: last_sent is long ago.
Conn ==
  [state : State, i : Nat, j : Nat, our_r : Nat, their_r : Nat,
   ecdh : Key, dh : Key, their_ecdh : Key, their_dh : Key,
   shared_secret : Secret, session : Secret,
   profile : BOOLEAN, idle : BOOLEAN]

Transcript == Key \X Key \X Key \X Key

Session ==
  [role : {"t", "u"}, offline : BOOLEAN, of : Transcript, secret : Secret]

Message ==
  [type : {"query", "error"}]
    \cup [type : {"identity"}, ecdh : Key, dh : Key]
    \cup [type : {"auth_r"}, ecdh : Key, dh : Key, of : Transcript]
    \cup [type : {"auth_i"}, of : Transcript]
    \cup [type : {"non_int_auth"}, ecdh : Key, dh : Key, prekey : Key]
    \cup [type : {"data"}, session : Secret, r : Nat, id : Nat,
          kind : {"empty", "text", "smp", "disconnected"}, ours : BOOLEAN]

TypeOK ==
  /\ conn \in [Peer -> Conn]
  /\ \A p \in Peer : \A n \in DOMAIN net[p] : net[p][n] \in Message
  /\ secure \in [Peer -> BOOLEAN]
  /\ prekeys \in [Peer -> SUBSET Key]
  /\ published \in [Peer -> SUBSET Key]
  /\ drawn \in 0 .. MaxKeys
  /\ count \in [starts : 0 .. MaxStarts, texts : 0 .. MaxTexts,
                faults : 0 .. MaxFaults]
  /\ \A p \in Peer : established[p] \in Seq(Session)

\* otrng_new and otrng_key_manager_init.
NewConn ==
  [state |-> "START", i |-> 0, j |-> 0, our_r |-> 0, their_r |-> 0,
   ecdh |-> NoKey, dh |-> NoKey, their_ecdh |-> NoKey, their_dh |-> NoKey,
   shared_secret |-> NoSecret, session |-> NoSecret,
   profile |-> FALSE, idle |-> TRUE]

Init ==
  /\ conn = [p \in Peer |-> NewConn]
  /\ net = [p \in Peer |-> <<>>]
  /\ secure = [p \in Peer |-> FALSE]
  /\ prekeys = [p \in Peer |-> {}]
  /\ published = [p \in Peer |-> {}]
  /\ drawn = 0
  /\ count = [starts |-> 0, texts |-> 0, faults |-> 0]
  /\ got = [p \in Peer |-> {}]
  /\ established = [p \in Peer |-> <<>>]

-----------------------------------------------------------------------------
(***************************************************************************)
(* Keys.                                                                   *)
(***************************************************************************)

\* The numbers a key generation may draw.
Fresh == IF drawn < MaxKeys THEN {drawn + 1 + d * MaxKeys : d \in Draws} ELSE {}

\* DH keys are generated only when i is a multiple of three, whatever i was
\* left behind by an earlier session.
GenerateEphemeralKeys(c, v) ==
  [c EXCEPT !.ecdh = v, !.dh = IF c.i % 3 = 0 THEN v ELSE @]

\* otrng_key_manager_generate_shared_secret of an interactive DAKE.
GenerateSharedSecret(c) ==
  [c EXCEPT !.shared_secret =
     [ecdh |-> {c.ecdh, c.their_ecdh},
      dh   |-> IF c.i % 3 = 0 THEN {c.dh, c.their_dh} ELSE {}]]

\* otrng_key_manager_ratcheting_init: the counters start again and the root key
\* comes from the shared secret.  v names the DH key derived for "u".
RatchetingInit(c, role, v) ==
  [c EXCEPT !.i = 0, !.j = 0, !.our_r = 0, !.their_r = 0,
            !.session = c.shared_secret, !.shared_secret = NoSecret,
            !.dh = IF role = "u" THEN v ELSE @]

ForgetOurKeys(c) ==
  [NewConn EXCEPT !.state = c.state, !.profile = c.profile, !.idle = c.idle]

\* send_data_message: the first message of a ratchet generates keys.
SendKeys(c, v) ==
  LET r == IF c.j = 0
             THEN [GenerateEphemeralKeys(c, v) EXCEPT !.i = c.i + 1,
                                                      !.our_r = c.i + 1]
             ELSE c
  IN [r EXCEPT !.j = @ + 1, !.idle = FALSE]

\* A faulty variant: the identifier of the message is taken after the fact.
DataMessageOffByOne(c, v, kind) ==
  [type |-> "data", session |-> c.session, r |-> SendKeys(c, v).our_r,
   id |-> c.j - 1, kind |-> kind, ours |-> TRUE]

DataMessage(c, v, kind) ==
  [type |-> "data", session |-> c.session, r |-> SendKeys(c, v).our_r,
   id |-> c.j, kind |-> kind, ours |-> TRUE]

\* Raising to a power with a NULL key, once the keys were forgotten.
HasNoKeys(c) == c.their_dh = NoKey

-----------------------------------------------------------------------------
(***************************************************************************)
(* The network.                                                            *)
(***************************************************************************)

\* Messages of a ratchet older than the current one are left to DoubleRatchet.
IsLate(p, msg) ==
  msg.type = "data" /\ msg.session = conn[p].session /\ msg.r < conn[p].their_r

Deliverable(p) ==
  {n \in DOMAIN net[p] : /\ n = 1 \/ "reorder" \in Faults
                         /\ ~IsLate(p, net[p][n])}

Without(s, n) == SubSeq(s, 1, n - 1) \o SubSeq(s, n + 1, Len(s))

Leftovers(p, n) ==
  {Without(net[p], n)} \cup (IF "duplicate" \in Faults THEN {net[p]} ELSE {})

\* p sends out to the other peer.
Post(p, out) ==
  /\ Len(net[Other(p)]) + Len(out) <= MaxInFlight
  /\ net' = [net EXCEPT ![Other(p)] = @ \o out]

\* p has handled message n and answers with out.
Handle(p, n, out) ==
  /\ Len(net[Other(p)]) + Len(out) <= MaxInFlight
  /\ \E left \in Leftovers(p, n) :
       net' = [net EXCEPT ![p] = left, ![Other(p)] = @ \o out]

\* p takes the state c.  It has drawn a number if v is one.
Become(p, c, v) ==
  /\ conn' = [conn EXCEPT ![p] = c]
  /\ drawn' = IF v = NoKey THEN drawn ELSE drawn + 1

\* The numbers to choose from when a step needs keys only under a condition.
FreshIf(needed) == IF needed THEN Fresh ELSE {NoKey}

Counts(kind, max) ==
  /\ count[kind] < max
  /\ count' = [count EXCEPT ![kind] = @ + 1]

-----------------------------------------------------------------------------
(***************************************************************************)
(* Starting a conversation.                                                *)
(***************************************************************************)

IdentityMessage(c) == [type |-> "identity", ecdh |-> c.ecdh, dh |-> c.dh]

\* start_dake and otrng_build_identity_message.
StartDake(c, v) == [GenerateEphemeralKeys(c, v) EXCEPT !.state = "WAITING_AUTH_R"]

\* otrng_build_query_message: not in an encrypted conversation.
SendQuery(p) ==
  /\ "query" \in Uses
  /\ conn[p].state \notin {"ENCRYPTED_MESSAGES", "CRASHED"}
  /\ Counts("starts", MaxStarts)
  /\ Post(p, <<[type |-> "query"]>>)
  /\ UNCHANGED <<conn, secure, prekeys, published, drawn, got, established>>

\* otrng_build_identity_message: in any state.
SendIdentity(p) ==
  /\ "identity" \in Uses
  /\ conn[p].state # "CRASHED"
  /\ Counts("starts", MaxStarts)
  /\ \E v \in Fresh :
       /\ Become(p, StartDake(conn[p], v), v)
       /\ Post(p, <<IdentityMessage(StartDake(conn[p], v))>>)
  /\ UNCHANGED <<secure, prekeys, published, got, established>>

\* receive_query_message; a whitespace tag has the same effect.
ReceiveQuery(p, n) ==
  /\ net[p][n].type = "query"
  /\ \E v \in Fresh :
       /\ Become(p, StartDake(conn[p], v), v)
       /\ Handle(p, n, <<IdentityMessage(StartDake(conn[p], v))>>)
  /\ UNCHANGED <<secure, prekeys, published, count, got, established>>

-----------------------------------------------------------------------------
(***************************************************************************)
(* The interactive DAKE.                                                   *)
(***************************************************************************)

\* build_interactive_rsign_tag: what the ring signatures of Auth-R and Auth-I cover
\* is the keys of both peers, the initiator's first.
InteractiveTag(i_ecdh, i_dh, r_ecdh, r_dh) == <<i_ecdh, i_dh, r_ecdh, r_dh>>

AuthRMessage(c) ==
  [type |-> "auth_r", ecdh |-> c.ecdh, dh |-> c.dh,
   of |-> InteractiveTag(c.their_ecdh, c.their_dh, c.ecdh, c.dh)]

AuthIMessage(tag) == [type |-> "auth_i", of |-> tag]

\* A peer that waits for Auth-R ignores the identity message of the other one
\* if its own DH key is the higher one.
IgnoresIdentity(c, msg) == c.state = "WAITING_AUTH_R" /\ c.dh > msg.dh

\* receive_identity_message_on_state_start.
AcceptIdentity(c, msg, v) ==
  LET their == [c EXCEPT !.their_ecdh = msg.ecdh, !.their_dh = msg.dh,
                         !.profile = TRUE]
  IN [GenerateSharedSecret(GenerateEphemeralKeys(their, v))
        EXCEPT !.state = "WAITING_AUTH_I"]

ReceiveIdentity(p, n) ==
  LET msg == net[p][n]
  IN /\ msg.type = "identity"
     /\ ~IgnoresIdentity(conn[p], msg)
     /\ \E v \in Fresh :
          LET c == AcceptIdentity(conn[p], msg, v)
          IN /\ Become(p, c, v)
             /\ Handle(p, n, <<AuthRMessage(c)>>)
     /\ UNCHANGED <<secure, prekeys, published, count, got, established>>

ValidAuthR(c, msg) == msg.of = InteractiveTag(c.ecdh, c.dh, msg.ecdh, msg.dh)

\* A faulty variant: the initiator does not wait for a data message.
AcceptAuthREncrypted(c, msg, v) ==
  LET their == [c EXCEPT !.their_ecdh = msg.ecdh, !.their_dh = msg.dh,
                         !.profile = TRUE]
  IN [RatchetingInit(GenerateSharedSecret(their), "u", v)
        EXCEPT !.state = "ENCRYPTED_MESSAGES"]

AcceptAuthR(c, msg, v) ==
  LET their == [c EXCEPT !.their_ecdh = msg.ecdh, !.their_dh = msg.dh,
                         !.profile = TRUE]
  IN [RatchetingInit(GenerateSharedSecret(their), "u", v)
        EXCEPT !.state = "WAITING_DAKE_DATA_MESSAGE"]

ReceiveAuthR(p, n) ==
  LET msg == net[p][n]
      c   == conn[p]
      of  == InteractiveTag(c.ecdh, c.dh, msg.ecdh, msg.dh)
  IN /\ msg.type = "auth_r"
     /\ c.state = "WAITING_AUTH_R"
     /\ ValidAuthR(c, msg)
     /\ \E v \in Fresh :
          /\ Become(p, AcceptAuthR(c, msg, v), v)
          /\ established' = [established EXCEPT ![p] = Append(@,
                [role |-> "u", offline |-> FALSE, of |-> of,
                 secret |-> AcceptAuthR(c, msg, v).session])]
     /\ Handle(p, n, <<AuthIMessage(of)>>)
     /\ secure' = [secure EXCEPT ![p] = TRUE]
     /\ UNCHANGED <<prekeys, published, count, got>>

\* A faulty variant: the signature does not cover the responder's own keys.
ValidAuthIUnbound(c, msg) ==
  msg.of[1] = c.their_ecdh /\ msg.of[2] = c.their_dh

ValidAuthI(c, msg) ==
  msg.of = InteractiveTag(c.their_ecdh, c.their_dh, c.ecdh, c.dh)

\* A faulty variant: the responder waits for a data message too.
AcceptAuthIWaits(c) ==
  [RatchetingInit(c, "t", NoKey) EXCEPT !.state = "WAITING_DAKE_DATA_MESSAGE"]

AcceptAuthI(c) ==
  [RatchetingInit(c, "t", NoKey) EXCEPT !.state = "ENCRYPTED_MESSAGES"]

\* receive_auth_i ends with an empty data message.
ReceiveAuthI(p, n) ==
  LET msg == net[p][n]
      c   == AcceptAuthI(conn[p])
  IN /\ msg.type = "auth_i"
     /\ conn[p].state = "WAITING_AUTH_I"
     /\ ValidAuthI(conn[p], msg)
     /\ \E v \in Fresh :
          /\ Become(p, SendKeys(c, v), v)
          /\ Handle(p, n, <<DataMessage(c, v, "empty")>>)
     /\ established' = [established EXCEPT ![p] = Append(@,
           [role |-> "t", offline |-> FALSE,
            of |-> <<c.their_ecdh, c.their_dh, c.ecdh, c.dh>>,
            secret |-> c.session])]
     /\ secure' = [secure EXCEPT ![p] = TRUE]
     /\ UNCHANGED <<prekeys, published, count, got>>

\* DAKE messages that change nothing: unexpected in the receiver's state, or
\* with a signature over other keys.
IsIgnored(c, msg) ==
  \/ msg.type = "identity" /\ IgnoresIdentity(c, msg)
  \/ msg.type = "auth_r" /\ (c.state # "WAITING_AUTH_R" \/ ~ValidAuthR(c, msg))
  \/ msg.type = "auth_i" /\ (c.state # "WAITING_AUTH_I" \/ ~ValidAuthI(c, msg))

IgnoreDake(p, n) ==
  /\ IsIgnored(conn[p], net[p][n])
  /\ Handle(p, n, <<>>)
  /\ UNCHANGED <<conn, secure, prekeys, published, drawn, count, got, established>>

-----------------------------------------------------------------------------
(***************************************************************************)
(* The non-interactive DAKE.  The prekey server is external: it hands out  *)
(* a published prekey message, and possibly the same one again.            *)
(***************************************************************************)

\* otrng_client_build_prekey_messages, and the publication of the message.
PublishPrekey(p) ==
  /\ "offline" \in Uses
  /\ conn[p].state # "CRASHED"
  /\ Counts("starts", MaxStarts)
  /\ \E v \in Fresh :
       /\ Become(p, conn[p], v)
       /\ prekeys' = [prekeys EXCEPT ![p] = @ \cup {v}]
       /\ published' = [published EXCEPT ![p] = @ \cup {v}]
  /\ UNCHANGED <<net, secure, got, established>>

\* The secret of both sides, always with DH.
OfflineSecret(c) ==
  [c EXCEPT !.shared_secret = [ecdh |-> {c.ecdh, c.their_ecdh},
                               dh   |-> {c.dh, c.their_dh}]]

\* It names the prekey message it was made for.
NonInteractiveAuthMessage(c, prekey) ==
  [type |-> "non_int_auth", ecdh |-> c.ecdh, dh |-> c.dh, prekey |-> prekey]

\* otrng_send_non_interactive_auth: refused once a client profile is known.
SendNonInteractiveAuth(p) ==
  /\ "offline" \in Uses
  /\ conn[p].state # "CRASHED"
  /\ ~conn[p].profile
  /\ Counts("starts", MaxStarts)
  /\ \E prekey \in published[Other(p)], v \in Fresh :
       LET their == [conn[p] EXCEPT !.their_ecdh = prekey, !.their_dh = prekey,
                                    !.profile = TRUE]
           keys  == GenerateEphemeralKeys(their, v)
           c     == [RatchetingInit(OfflineSecret(keys), "t", NoKey)
                       EXCEPT !.state = "ENCRYPTED_MESSAGES"]
       IN /\ Become(p, c, v)
          /\ Post(p, <<NonInteractiveAuthMessage(keys, prekey)>>)
          /\ established' = [established EXCEPT ![p] = Append(@,
                [role |-> "t", offline |-> TRUE,
                 of |-> <<prekey, prekey, keys.ecdh, keys.dh>>,
                 secret |-> c.session])]
  /\ secure' = [secure EXCEPT ![p] = TRUE]
  /\ UNCHANGED <<prekeys, published, got>>

\* A faulty variant: the prekey message stays in the client's list.
RemainingPrekeysAll(p, prekey) == prekeys[p]

RemainingPrekeys(p, prekey) == prekeys[p] \ {prekey}

\* A faulty variant: any stored prekey message.
GetPrekeyByIdAny(p, id) == CHOOSE k \in prekeys[p] : TRUE

GetPrekeyById(p, id) == CHOOSE k \in prekeys[p] : k = id

\* non_interactive_auth_message_received: the prekey message is used once.
ReceiveNonInteractiveAuth(p, n) ==
  LET msg  == net[p][n]
      ours == GetPrekeyById(p, msg.prekey)
      keys == [conn[p] EXCEPT !.ecdh = ours, !.dh = ours,
                              !.their_ecdh = msg.ecdh, !.their_dh = msg.dh,
                              !.profile = TRUE]
  IN /\ msg.type = "non_int_auth"
     /\ conn[p].state # "FINISHED"
     /\ msg.prekey \in prekeys[p]
     /\ prekeys' = [prekeys EXCEPT ![p] = RemainingPrekeys(p, msg.prekey)]
     /\ \E v \in Fresh :
          LET c == [RatchetingInit(OfflineSecret(keys), "u", v)
                      EXCEPT !.state = "WAITING_DAKE_DATA_MESSAGE"]
          IN /\ Become(p, c, v)
             /\ established' = [established EXCEPT ![p] = Append(@,
                   [role |-> "u", offline |-> TRUE,
                    of |-> <<ours, ours, msg.ecdh, msg.dh>>,
                    secret |-> c.session])]
     /\ Handle(p, n, <<>>)
     /\ secure' = [secure EXCEPT ![p] = TRUE]
     /\ UNCHANGED <<published, count, got>>

\* Finished conversations ignore it, and so does a client without the prekey.
IgnoreNonInteractiveAuth(p, n) ==
  /\ net[p][n].type = "non_int_auth"
  /\ conn[p].state = "FINISHED" \/ net[p][n].prekey \notin prekeys[p]
  /\ Handle(p, n, <<>>)
  /\ UNCHANGED <<conn, secure, prekeys, published, drawn, count, got, established>>

-----------------------------------------------------------------------------
(***************************************************************************)
(* Data messages.                                                          *)
(***************************************************************************)

\* otrng_send_message, with a text or with an SMP message.
SendUserMessage(p, kind) ==
  /\ kind \in Uses
  /\ conn[p].state = "ENCRYPTED_MESSAGES"
  /\ ~HasNoKeys(conn[p])
  /\ Counts("texts", MaxTexts)
  /\ \E v \in FreshIf(conn[p].j = 0) :
       /\ Become(p, SendKeys(conn[p], v), v)
       /\ Post(p, <<DataMessage(conn[p], v, kind)>>)
  /\ UNCHANGED <<secure, prekeys, published, got, established>>

SendText(p) == SendUserMessage(p, "text")

SendSmp(p) == SendUserMessage(p, "smp")

\* A data message of the receiver's session that was not decrypted before: of
\* the ratchet it is in, or of the next one.
Decrypts(p, msg) ==
  LET c == conn[p]
  IN /\ msg.session = c.session
     /\ (msg.r = c.their_r /\ msg.r > 0) \/ msg.r = c.i + 1
     /\ <<msg.session, msg.r, msg.id>> \notin got[p]

\* The receiver's keys after it decrypted the message.
ReceiveKeys(c, msg) ==
  IF msg.r = c.their_r
    THEN c
    ELSE [c EXCEPT !.i = msg.r, !.their_r = msg.r, !.j = 0]

InDataPhase(c) == c.state \in {"WAITING_DAKE_DATA_MESSAGE", "ENCRYPTED_MESSAGES"}

\* Not a private conversation: answered with an error message.
ReceiveDataNotPrivate(p, n) ==
  /\ net[p][n].type = "data"
  /\ ~InDataPhase(conn[p])
  /\ Handle(p, n, <<[type |-> "error"]>>)
  /\ UNCHANGED <<conn, secure, prekeys, published, drawn, count, got, established>>

\* A message for another instance of the account is dropped, with success, and
\* success ends the wait for the first data message.
ReceiveDataForOther(p, n) ==
  /\ net[p][n].type = "data"
  /\ InDataPhase(conn[p])
  /\ ~net[p][n].ours
  /\ Become(p, [conn[p] EXCEPT !.state = "ENCRYPTED_MESSAGES"], NoKey)
  /\ Handle(p, n, <<>>)
  /\ UNCHANGED <<secure, prekeys, published, count, got, established>>

\* A data message that the peer may try to decrypt.
IsForUs(p, n) ==
  /\ net[p][n].type = "data"
  /\ InDataPhase(conn[p])
  /\ net[p][n].ours
  /\ ~HasNoKeys(conn[p])

\* The message authentication fails.
RejectData(p, n) ==
  /\ IsForUs(p, n)
  /\ ~Decrypts(p, net[p][n])
  /\ Handle(p, n, <<>>)
  /\ UNCHANGED <<conn, secure, prekeys, published, drawn, count, got, established>>

Decrypted(p, n) ==
  /\ IsForUs(p, n)
  /\ Decrypts(p, net[p][n])
  /\ got' = [got EXCEPT ![p] = @ \cup {<<net[p][n].session, net[p][n].r, net[p][n].id>>}]
  /\ UNCHANGED <<prekeys, published, count, established>>

\* A text asks for a heartbeat if nothing was sent for a while.
WantsHeartbeat(c, msg) == Heartbeats /\ msg.kind = "text" /\ c.idle

\* Whether an SMP message is answered depends on the SMP state of the receiver:
\* an unexpected one is, with an abort, and the first one is left to the user.
MayReply(c, msg) == WantsHeartbeat(c, msg) \/ msg.kind = "smp"

ReplyKind(msg) == IF msg.kind = "smp" THEN "smp" ELSE "empty"

\* Nothing has to be sent.
ReceiveQuietData(p, n) ==
  /\ Decrypted(p, n)
  /\ net[p][n].kind # "disconnected"
  /\ ~WantsHeartbeat(conn[p], net[p][n])
  /\ Become(p, [ReceiveKeys(conn[p], net[p][n])
                  EXCEPT !.state = "ENCRYPTED_MESSAGES"], NoKey)
  /\ Handle(p, n, <<>>)
  /\ UNCHANGED secure

\* The heartbeat or the answer to an SMP message is sent by the handler.
ReceiveDataAndReply(p, n) ==
  LET c == ReceiveKeys(conn[p], net[p][n])
  IN /\ Decrypted(p, n)
     /\ MayReply(conn[p], net[p][n])
     /\ conn[p].state = "ENCRYPTED_MESSAGES"
     /\ \E v \in FreshIf(c.j = 0) :
          /\ Become(p, SendKeys(c, v), v)
          /\ Handle(p, n, <<DataMessage(c, v, ReplyKind(net[p][n]))>>)
     /\ UNCHANGED secure

\* Before the state is encrypted nothing can be sent: the handler fails once the
\* ratchet has moved, and the receiver goes on waiting for a first data message.
ReceiveDataTooEarly(p, n) ==
  /\ Decrypted(p, n)
  /\ MayReply(conn[p], net[p][n])
  /\ conn[p].state = "WAITING_DAKE_DATA_MESSAGE"
  /\ Become(p, ReceiveKeys(conn[p], net[p][n]), NoKey)
  /\ Handle(p, n, <<>>)
  /\ UNCHANGED secure

\* A TLV of type DISCONNECTED.  A first data message ends in the encrypted
\* state even then.
ReceiveDisconnected(p, n) ==
  /\ Decrypted(p, n)
  /\ net[p][n].kind = "disconnected"
  /\ Become(p, [ForgetOurKeys(conn[p]) EXCEPT
                  !.state = IF conn[p].state = "ENCRYPTED_MESSAGES"
                              THEN "FINISHED" ELSE "ENCRYPTED_MESSAGES"],
            NoKey)
  /\ Handle(p, n, <<>>)
  /\ secure' = [secure EXCEPT ![p] = FALSE]

\* Sending, or receiving a data message, in an encrypted state without keys.
Crash(p) ==
  /\ conn[p].state = "ENCRYPTED_MESSAGES"
  /\ HasNoKeys(conn[p])
  /\ Become(p, [conn[p] EXCEPT !.state = "CRASHED"], NoKey)
  /\ UNCHANGED <<net, secure, prekeys, published, count, got, established>>

-----------------------------------------------------------------------------
(***************************************************************************)
(* Leaving a conversation.                                                 *)
(***************************************************************************)

\* otrng_client_disconnect of an encrypted conversation: otrng_close_v4 sends
\* a DISCONNECTED TLV, and the client frees the conversation.
Close(p) ==
  /\ "close" \in Uses
  /\ conn[p].state = "ENCRYPTED_MESSAGES"
  /\ ~HasNoKeys(conn[p])
  /\ Counts("starts", MaxStarts)
  /\ \E v \in FreshIf(conn[p].j = 0) :
       /\ Become(p, NewConn, v)
       /\ Post(p, <<DataMessage(conn[p], v, "disconnected")>>)
  /\ secure' = [secure EXCEPT ![p] = FALSE]
  /\ UNCHANGED <<prekeys, published, got, established>>

\* A faulty variant: the keys of the session are kept.
ErrorResetKeepsKeys(c) == [c EXCEPT !.state = "START"]

\* A faulty variant: the state is kept.
ErrorResetKeepsState(c) == ForgetOurKeys(c)

ErrorReset(c) == [ForgetOurKeys(c) EXCEPT !.state = "START"]

\* receive_error_message, ERROR_2.  The policy decides whether it is acted on.
ReceiveError(p, n) ==
  /\ net[p][n].type = "error"
  /\ IF ErrorStartsDake
       THEN /\ Become(p, ErrorReset(conn[p]), NoKey)
            /\ Handle(p, n, <<[type |-> "query"]>>)
            /\ secure' = [secure EXCEPT ![p] = FALSE]
       ELSE /\ Handle(p, n, <<>>)
            /\ UNCHANGED <<conn, drawn, secure>>
  /\ UNCHANGED <<prekeys, published, count, got, established>>

\* The client is started again without its conversation, or frees one that is
\* not encrypted (otrng_client_disconnect_conversation).
Restart(p) ==
  /\ "restart" \in Faults
  /\ conn[p].state # "START"
  /\ Counts("faults", MaxFaults)
  /\ Become(p, NewConn, NoKey)
  /\ secure' = [secure EXCEPT ![p] = FALSE]
  /\ UNCHANGED <<net, prekeys, published, got, established>>

\* The account of p receives a data message that is meant for another client.
MessageForOtherInstance(p) ==
  /\ "other_instance" \in Faults
  /\ Counts("faults", MaxFaults)
  /\ Post(Other(p), <<[type |-> "data", session |-> NoSecret, r |-> 1, id |-> 0,
                       kind |-> "text", ours |-> FALSE]>>)
  /\ UNCHANGED <<conn, secure, prekeys, published, drawn, got, established>>

Lose(p, n) ==
  /\ "lose" \in Faults
  /\ net' = [net EXCEPT ![p] = Without(@, n)]
  /\ UNCHANGED <<conn, secure, prekeys, published, drawn, count, got, established>>

\* The heartbeat interval passes without a message of p.
PassTime(p) ==
  /\ Heartbeats
  /\ ~conn[p].idle
  /\ Become(p, [conn[p] EXCEPT !.idle = TRUE], NoKey)
  /\ UNCHANGED <<net, secure, prekeys, published, count, got, established>>

Receive(p, n) ==
  /\ conn[p].state # "CRASHED"
  /\ \/ ReceiveQuery(p, n) \/ ReceiveIdentity(p, n)
     \/ ReceiveAuthR(p, n) \/ ReceiveAuthI(p, n) \/ IgnoreDake(p, n)
     \/ ReceiveNonInteractiveAuth(p, n) \/ IgnoreNonInteractiveAuth(p, n)
     \/ ReceiveDataNotPrivate(p, n) \/ ReceiveDataForOther(p, n)
     \/ RejectData(p, n) \/ ReceiveQuietData(p, n)
     \/ ReceiveDataAndReply(p, n) \/ ReceiveDataTooEarly(p, n)
     \/ ReceiveDisconnected(p, n) \/ ReceiveError(p, n)

Next ==
  \E p \in Peer :
    \/ SendQuery(p) \/ SendIdentity(p) \/ PublishPrekey(p)
    \/ SendNonInteractiveAuth(p) \/ SendText(p) \/ SendSmp(p) \/ Close(p)
    \/ \E n \in Deliverable(p) : Receive(p, n)
    \/ \E n \in DOMAIN net[p] : Lose(p, n)
    \/ Crash(p) \/ Restart(p) \/ MessageForOtherInstance(p) \/ PassTime(p)

Spec == Init /\ [][Next]_vars

\* The applications keep handling what they receive.
Fairness ==
  \A p \in Peer : WF_vars(\E n \in Deliverable(p) : Receive(p, n))

FairSpec == Spec /\ Fairness

-----------------------------------------------------------------------------
(***************************************************************************)
(* Properties.                                                             *)
(***************************************************************************)

\* Both peers are encrypted in the same session.
Secure ==
  /\ \A p \in Peer : conn[p].state = "ENCRYPTED_MESSAGES"
  /\ conn["alice"].session = conn["bob"].session
  /\ conn["alice"].session # NoSecret

Sessions(p) == {established[p][n] : n \in DOMAIN established[p]}

\* Agreement of the DAKEs: a peer that finishes an interactive DAKE as "t"
\* shares its four public keys with a peer that finished it as "u", and a peer
\* that finishes a non-interactive one as "u" with one that started it.
Agreement ==
  \A p \in Peer : \A s \in Sessions(p) :
    s.offline = (s.role = "u") =>
      \E o \in Sessions(Other(p)) : /\ o.of = s.of
                                     /\ o.role # s.role
                                     /\ o.offline = s.offline

\* Two peers that finished the same DAKE hold the same secret.
SecretsMatch ==
  \A s \in Sessions("alice"), o \in Sessions("bob") :
    s.of = o.of /\ s.offline = o.offline => s.secret = o.secret

\* No peer initialises two sessions from one secret: replayed DAKE messages
\* never bring back keys that were in use before.
SessionsFresh ==
  \A p \in Peer : \A m, n \in DOMAIN established[p] :
    m # n => established[p][m].secret # established[p][n].secret

\* An encrypted conversation has keys, and the application was told so: the
\* last callback of a peer in that state was gone_secure.
EncryptedIsSecure ==
  \A p \in Peer : conn[p].state = "ENCRYPTED_MESSAGES"
                    => secure[p] /\ conn[p].session # NoSecret

\* Key confirmation: a peer in the encrypted state has initialised its session
\* as "t", after Auth-I or for an offline message, or it has decrypted a data
\* message of it.  No stale, duplicated or rejected message gets it there.
Confirmed ==
  \A p \in Peer : conn[p].state = "ENCRYPTED_MESSAGES" =>
    \E s \in Sessions(p) :
      /\ s.secret = conn[p].session
      /\ s.role = "t" \/ \E d \in got[p] : d[1] = s.secret

\* The session that p has initialised last.
LastSession(p) == established[p][Len(established[p])]

\* A peer that finished a DAKE as "u" may not send before it has decrypted a data
\* message (otrng_send_message), so two such peers would wait for each other for
\* ever.  Crossed, stale, lost and repeated DAKE messages never get two peers
\* there unless one of them got there by a non-interactive DAKE.
NoMutualWait ==
  (\A p \in Peer : conn[p].state = "WAITING_DAKE_DATA_MESSAGE")
    => \E p \in Peer : LastSession(p).offline

\* A conversation that was asked for ends up private, also if both peers ask
\* for it at once: whoever receives an identity message while it waits for
\* Auth-R either ignores it or answers with Auth-R, and the DAKE goes on.
EventuallySecure == <>[](count.starts > 0 => Secure)

\* A peer that lost its conversation is brought back into one by the next data
\* message: the error message it answers with makes the other peer forget the
\* old session and start a DAKE.
Heals ==
  \A p \in Peer :
    (conn[p].state = "START" /\ \E n \in DOMAIN net[p] : net[p][n].type = "data")
      ~> Secure
=============================================================================
