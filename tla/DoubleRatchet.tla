---------------------------- MODULE DoubleRatchet ----------------------------
(***************************************************************************)
(* Two peers that finished the DAKE exchange data messages over a network  *)
(* that may lose, reorder, duplicate and corrupt them: send_data_message   *)
(* (protocol.c), otrng_receive_data_message (otrng.c) and the key manager  *)
(* they drive.                                                             *)
(***************************************************************************)
EXTENDS KeyManager, FiniteSets

CONSTANTS
  Faults,       \* what the network may do, a subset of FaultKinds
  Replies,      \* what a received message may make its receiver send
  MaxRatchet,   \* bound: no sending ratchet is started at i = MaxRatchet
  MaxMessages,  \* bound: messages of one sending ratchet
  MaxInFlight   \* bound: messages on their way to one peer

\* "late" delivers a message of a ratchet older than the receiver's current one.
FaultKinds == {"lose", "reorder", "late", "duplicate", "corrupt"}

\* A heartbeat answers a text, a TLV reply (SMP) answers a TLV.
ReplyKinds == {"none", "tlv", "heartbeat"}

ASSUME NetworkAssumption == Faults \subseteq FaultKinds
ASSUME RepliesAssumption == Replies \subseteq ReplyKinds
ASSUME BoundsAssumption ==
  MaxRatchet \in Nat /\ MaxMessages \in Nat /\ MaxInFlight \in Nat

VARIABLES
  keys,      \* keys[p]: otr->keys of peer p
  state,     \* state[p]: otr->state
  net,       \* net[p]: the messages on their way to p
  crashed,   \* crashed[p]: p used a NULL or a freed pointer
  sent,      \* sent[p]: the keys of the messages p has sent (history)
  got,       \* got[p]: the keys of the messages p has decrypted (history)
  revealed   \* revealed[p]: the MAC keys p has published (history)

vars == <<keys, state, net, crashed, sent, got, revealed>>

State == {"WAITING_DAKE_DATA_MESSAGE", "ENCRYPTED_MESSAGES"}

Message ==
  [ecdh : PubKey, dh : PubKey, previous_chain_n : Nat, message_id : Nat,
   key : ChainKey, intact : BOOLEAN]

TypeOK ==
  /\ keys \in [Peer -> Manager]
  /\ state \in [Peer -> State]
  /\ net \in [Peer -> SUBSET Message]
  /\ crashed \in [Peer -> BOOLEAN]
  /\ sent \in [Peer -> SUBSET ChainKey]
  /\ got \in [Peer -> SUBSET ChainKey]
  /\ revealed \in [Peer -> SUBSET ChainKey]

Init ==
  /\ keys = [p \in Peer |-> RatchetingInit(p)]
  /\ state = [p \in Peer |-> IF p = "t" THEN "ENCRYPTED_MESSAGES"
                                        ELSE "WAITING_DAKE_DATA_MESSAGE"]
  /\ net = [p \in Peer |-> {}]
  /\ crashed = [p \in Peer |-> FALSE]
  /\ sent = [p \in Peer |-> {}]
  /\ got = [p \in Peer |-> {}]
  /\ revealed = [p \in Peer |-> {}]

-----------------------------------------------------------------------------
\* The bounds of the model on what a peer whose manager is m may still send.
WithinBounds(p, m) ==
  /\ m.j = 0 => m.i < MaxRatchet
  /\ m.j < MaxMessages
  /\ Cardinality(net[Other(p)]) < MaxInFlight

(***************************************************************************)
(* otrng_send_message: only in the encrypted state.                        *)
(***************************************************************************)
Send(p) ==
  /\ ~crashed[p]
  /\ state[p] = "ENCRYPTED_MESSAGES"
  /\ WithinBounds(p, keys[p])
  /\ keys' = [keys EXCEPT ![p] = SendData(keys[p], p)]
  /\ net' = [net EXCEPT ![Other(p)] = @ \cup {DataMessage(keys[p], p)}]
  /\ sent' = [sent EXCEPT ![p] = @ \cup {DataMessage(keys[p], p).key}]
  /\ revealed' = [revealed EXCEPT ![p] = @ \cup RevealedMacKeys(keys[p])]
  /\ UNCHANGED <<state, crashed, got>>

-----------------------------------------------------------------------------
\* a was sent before b by the same peer.
SentBefore(a, b) ==
  \/ a.ecdh[2] < b.ecdh[2]
  \/ a.ecdh[2] = b.ecdh[2] /\ a.message_id < b.message_id

IsLate(p, msg) == msg.ecdh[2] < keys[p].their_ecdh[2]

\* The messages the network may hand to p now.
Deliverable(p) ==
  {msg \in net[p] :
     /\ "reorder" \in Faults \/ \A other \in net[p] : ~SentBefore(other, msg)
     /\ "late" \in Faults \/ ~IsLate(p, msg)}

\* What the network holds for p once msg was delivered: a duplicate may stay.
Leftovers(p, msg) ==
  {net[p] \ {msg}} \cup (IF "duplicate" \in Faults THEN {net[p]} ELSE {})

\* The receiver would read freed memory or raise a number to a NULL exponent.
IsUndefined(p, msg) == keys[p].dangling \/ UsesNullKey(keys[p], msg)

\* A faulty variant: the MAC is not compared.
IsValidAlways(p, msg) == TRUE

\* otrng_valid_data_message succeeds with the key the receiver derives.
IsValid(p, msg) == msg.intact /\ ReceiveKey(keys[p], msg) = msg.key

Accepts(p, msg) == ~IsUndefined(p, msg) /\ IsValid(p, msg)

\* The empty message that otrng_receive_auth_i sends at the end of the DAKE.
IsDakeDataMessage(msg) == msg.ecdh = <<"t", 1>> /\ msg.message_id = 0

(***************************************************************************)
(* The part that every decrypted message shares: the temporary ratchet is  *)
(* copied into the manager and the message is handed over.                 *)
(***************************************************************************)
Accept(p, msg, reply) ==
  /\ ~crashed[p]
  /\ msg \in Deliverable(p)
  /\ Accepts(p, msg)
  /\ reply \in Replies
  /\ IsDakeDataMessage(msg) => reply = "none"
  /\ got' = [got EXCEPT ![p] = @ \cup {msg.key}]
  /\ UNCHANGED crashed

\* A message that asks for no answer.
ReceiveQuiet(p, msg) ==
  /\ Accept(p, msg, "none")
  /\ keys' = [keys EXCEPT ![p] =
                StoreOldMacKey(ReceiveRatchet(keys[p], msg), msg.key)]
  /\ state' = [state EXCEPT ![p] = "ENCRYPTED_MESSAGES"]
  /\ \E left \in Leftovers(p, msg) : net' = [net EXCEPT ![p] = left]
  /\ UNCHANGED <<sent, revealed>>

(***************************************************************************)
(* A message that is answered while it is handled.  m is the manager that  *)
(* sends the answer and stored the MAC keys kept once it was sent.         *)
(***************************************************************************)
AnswerWith(p, msg, m, stored) ==
  /\ state[p] = "ENCRYPTED_MESSAGES"
  /\ WithinBounds(p, m)
  /\ keys' = [keys EXCEPT ![p] =
                [SendData(m, p) EXCEPT !.old_mac_keys = @ \cup stored]]
  /\ \E left \in Leftovers(p, msg) :
       net' = [net EXCEPT ![p] = left,
                          ![Other(p)] = @ \cup {DataMessage(m, p)}]
  /\ sent' = [sent EXCEPT ![p] = @ \cup {DataMessage(m, p).key}]
  /\ revealed' = [revealed EXCEPT ![p] = @ \cup RevealedMacKeys(m)]
  /\ UNCHANGED state

\* receive_tlvs sends the reply before the MAC key of the message is stored.
ReceiveAndReplyTlv(p, msg) ==
  /\ Accept(p, msg, "tlv")
  /\ AnswerWith(p, msg, ReceiveRatchet(keys[p], msg), {msg.key})

\* The heartbeat is sent after the MAC key of the message was stored.
ReceiveAndHeartbeat(p, msg) ==
  /\ Accept(p, msg, "heartbeat")
  /\ AnswerWith(p, msg,
                StoreOldMacKey(ReceiveRatchet(keys[p], msg), msg.key), {})

(***************************************************************************)
(* A message that wants an answer while the receiver still waits for the   *)
(* first data message: sending fails, the handler returns an error and the *)
(* state stays as it is, although the ratchet has moved on.                *)
(***************************************************************************)
ReceiveAndFailToAnswer(p, msg, reply) ==
  /\ reply # "none"
  /\ Accept(p, msg, reply)
  /\ state[p] = "WAITING_DAKE_DATA_MESSAGE"
  /\ keys' = [keys EXCEPT ![p] =
                IF reply = "tlv"
                  THEN ReceiveRatchet(keys[p], msg)
                  ELSE StoreOldMacKey(ReceiveRatchet(keys[p], msg), msg.key)]
  /\ \E left \in Leftovers(p, msg) : net' = [net EXCEPT ![p] = left]
  /\ UNCHANGED <<state, sent, revealed>>

\* A message whose MAC does not verify.
Reject(p, msg) ==
  /\ ~crashed[p]
  /\ msg \in Deliverable(p)
  /\ ~IsUndefined(p, msg)
  /\ ~IsValid(p, msg)
  /\ keys' = [keys EXCEPT ![p] = RejectMessage(keys[p], msg)]
  /\ \E left \in Leftovers(p, msg) : net' = [net EXCEPT ![p] = left]
  /\ UNCHANGED <<state, crashed, sent, got, revealed>>

\* Undefined behaviour, taken here as the crash it is on the supported builds.
Crash(p, msg) ==
  /\ ~crashed[p]
  /\ msg \in Deliverable(p)
  /\ IsUndefined(p, msg)
  /\ crashed' = [crashed EXCEPT ![p] = TRUE]
  /\ UNCHANGED <<keys, state, net, sent, got, revealed>>

Receive(p, msg) ==
  \/ ReceiveQuiet(p, msg)
  \/ ReceiveAndReplyTlv(p, msg)
  \/ ReceiveAndHeartbeat(p, msg)
  \/ \E reply \in Replies : ReceiveAndFailToAnswer(p, msg, reply)
  \/ Reject(p, msg)
  \/ Crash(p, msg)

-----------------------------------------------------------------------------
\* The network's own steps.
Lose(p, msg) ==
  /\ "lose" \in Faults
  /\ net' = [net EXCEPT ![p] = @ \ {msg}]
  /\ UNCHANGED <<keys, state, crashed, sent, got, revealed>>

Corrupt(p, msg) ==
  /\ "corrupt" \in Faults
  /\ net' = [net EXCEPT ![p] = (@ \ {msg}) \cup
                                 {[msg EXCEPT !.intact = FALSE]}]
  /\ UNCHANGED <<keys, state, crashed, sent, got, revealed>>

Next ==
  \E p \in Peer :
    \/ Send(p)
    \/ \E msg \in net[p] : Receive(p, msg) \/ Lose(p, msg) \/ Corrupt(p, msg)

Spec == Init /\ [][Next]_vars

-----------------------------------------------------------------------------
(***************************************************************************)
(* Properties.                                                             *)
(***************************************************************************)

\* The peers stay in step: every message the network may deliver decrypts with
\* the key the receiver derives for it (store_enc_keys, rotate_keys and
\* otrng_key_get_skipped_keys agree with what the sender did).
InStep == \A p \in Peer : \A msg \in Deliverable(p) : Accepts(p, msg)

\* No replay: a message that was decrypted once is not accepted again, whatever
\* else arrived in between.
NoReplay ==
  \A p \in Peer : \A msg \in net[p] :
    msg.key \in got[p] => ~IsValid(p, msg)

\* The manager m cannot compute the message key x again: its receiving chain
\* has passed it and the store of skipped keys does not hold it.
Forgotten(m, x) ==
  /\ ~(x.root = m.chain_r.root /\ m.chain_r.n <= x.n)
  /\ \A s \in m.skipped_keys : s.key # x

\* Forward secrecy within a ratchet: a peer's state no longer yields the key of
\* any message it has decrypted, nor of any message it has sent.
ForwardSecrecy ==
  \A p \in Peer :
    /\ \A x \in got[p] : Forgotten(keys[p], x)
    /\ \A x \in sent[p] :
         ~(x.root = keys[p].chain_s.root /\ keys[p].chain_s.n <= x.n)

\* The inductive strengthening of NoReplay and ForwardSecrecy.
KeysInOrder == \A p \in Peer : KeysBehind(keys[p], got[p], sent[p])

\* One stored key answers for one message: otrng_key_get_skipped_keys cannot
\* find two keys for the same ECDH key and message id.
SkippedKeysUnambiguous ==
  \A p \in Peer : \A s1, s2 \in keys[p].skipped_keys :
    s1.ecdh = s2.ecdh /\ s1.k = s2.k => s1 = s2

\* A step keeps or reveals the MAC keys a peer knows and the one of the message
\* that an encrypted session decrypts in it, and never both.
MacKeysStep ==
  \A p \in Peer :
    LET known == keys[p].old_mac_keys \cup revealed[p]
        new   == IF state[p] = "ENCRYPTED_MESSAGES" THEN got'[p] \ got[p]
                                                   ELSE {}
    IN /\ known \cup new \subseteq keys'[p].old_mac_keys \cup revealed'[p]
       /\ keys'[p].old_mac_keys \cap revealed'[p] = {}

\* MAC keys are published once and never forgotten: the key of a message that
\* an encrypted session decrypts is kept until send_data_message reveals it, no
\* kept key is dropped, and no revealed key is kept again.  A reply sent while
\* the message is handled does not lose its key.
MacKeysKept == [][MacKeysStep]_vars

\* The ratchets alternate: the peers' counters are at most one apart, and peers
\* with equal counters hold the same root key.
RatchetsAlternate ==
  LET t == keys["t"]
      u == keys["u"]
  IN /\ t.i <= u.i + 1
     /\ u.i <= t.i + 1
     /\ t.i = u.i => t.root_key = u.root_key

\* The ECDH private key is erased when its ratchet is over: a peer that has
\* moved to the other's new ratchet holds no private key until it sends, so the
\* shared secrets behind its root key cannot be computed again.
PrivateKeysErased ==
  \A p \in Peer : \A n \in 1 .. Len(keys[p].root_key) :
    keys[p].ecdh_priv /\ keys[p].our_ecdh \in keys[p].root_key[n].ecdh
      => n = Len(keys[p].root_key)

-----------------------------------------------------------------------------
(***************************************************************************)
(* What the session promises.                                              *)
(***************************************************************************)

\* The keys of the messages on their way to a peer.
InTransit == [p \in Peer |-> {msg.key : msg \in net[p]}]

Session == INSTANCE Channel WITH
  Starter <- "t", Lossy <- "lose" \in Faults, net <- InTransit

\* In a network that loses and reorders the ratchets make a channel: both peers
\* derive the same key for every message, a new one each time, and whatever is
\* delivered is opened once, whoever answers what while other messages cross.
ImplementsChannel == Session!Spec

-----------------------------------------------------------------------------
(***************************************************************************)
(* What a comment of the repository says and the code does not do.         *)
(***************************************************************************)

\* key_management.h: the temporary ratchet is there "to prevent a ratchet
\* corruption", so a message that is rejected leaves the manager as it was: its
\* DH private key is not destroyed and its list of skipped keys not freed.
RejectionKeepsRatchet ==
  [][\A p \in Peer :
       (\E msg \in net[p] : Reject(p, msg)) => keys'[p] = keys[p]]_vars
=============================================================================
