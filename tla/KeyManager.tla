------------------------------ MODULE KeyManager ------------------------------
(***************************************************************************)
(* The key manager of one conversation (src/src/key_management.c) as pure  *)
(* operators on a record that keeps the fields of key_manager_s which the  *)
(* ratchet reads or writes.                                                *)
(*                                                                         *)
(* Keys are symbolic.  A public key is named by its owner and by the value *)
(* of the owner's ratchet counter i when it was generated, plus one; the   *)
(* number 0 names the first keys, which ratcheting_init derives from the   *)
(* DAKE's shared secret.  A key derivation is free of collisions, so a     *)
(* root key is the sequence of the shared secrets that were mixed into it, *)
(* and a chain key is a root key and the number of times the chain was     *)
(* advanced.  The encryption key and the MAC key of a message are          *)
(* functions of the chain key they come from and are named by it.          *)
(***************************************************************************)
EXTENDS Naturals, Sequences

CONSTANT MaxSkip  \* client->max_stored_msg_keys

ASSUME MaxSkipAssumption == MaxSkip \in Nat

\* The two participants: "t" sends the first data message (it received the
\* Auth-I message or sent the non-interactive one), "u" receives it.
Peer == {"t", "u"}

Other(p) == IF p = "t" THEN "u" ELSE "t"

PubKey == Peer \X Nat

BraceKey == [dh : SUBSET PubKey, kdfs : Nat]

\* A zeroed brace key, which is what every use of a brace key leaves behind.
ZeroBrace == [dh |-> {}, kdfs |-> 0]

Secret == [ecdh : SUBSET PubKey, brace : BraceKey]

ChainKey == [root : Seq(Secret), n : Nat]

\* An all-zero chain_r, the one otrng_is_empty_array recognises.
EmptyChain == [root |-> <<>>, n |-> 0]

SkippedKey == [ecdh : PubKey, k : Nat, key : ChainKey]

Manager ==
  [i : Nat, j : Nat, k : Nat, pn : Nat,
   our_ecdh : PubKey, ecdh_priv : BOOLEAN,
   our_dh : PubKey, dh_priv : BOOLEAN,
   their_ecdh : PubKey, their_dh : PubKey,
   brace_key : BraceKey, root_key : Seq(Secret),
   chain_s : ChainKey, chain_r : ChainKey,
   skipped_keys : SUBSET SkippedKey, dangling : BOOLEAN,
   old_mac_keys : SUBSET ChainKey]

-----------------------------------------------------------------------------
(***************************************************************************)
(* otrng_key_manager_ratcheting_init.  The participant "u" replaces its    *)
(* own keys by the ones derived from the shared secret, and "t" the keys   *)
(* it holds for "u"; "t" keeps the key pairs that it announced in the      *)
(* DAKE, private halves included, until its first message replaces them.   *)
(***************************************************************************)
RatchetingInit(p) ==
  [i |-> 0, j |-> 0, k |-> 0, pn |-> 0,
   our_ecdh |-> <<p, 0>>, ecdh_priv |-> TRUE,
   our_dh |-> <<p, 0>>, dh_priv |-> TRUE,
   their_ecdh |-> <<Other(p), 0>>, their_dh |-> <<Other(p), 0>>,
   brace_key |-> ZeroBrace, root_key |-> <<>>,
   chain_s |-> EmptyChain, chain_r |-> EmptyChain,
   skipped_keys |-> {}, dangling |-> FALSE, old_mac_keys |-> {}]

\* A new ECDH key pair on every sending ratchet, a new DH pair on every third.
GenerateEphemeralKeys(m, p) ==
  LET new   == <<p, m.i + 1>>
      third == m.i % 3 = 0
  IN [m EXCEPT !.our_ecdh = new, !.ecdh_priv = TRUE,
               !.our_dh = IF third THEN new ELSE @,
               !.dh_priv = IF third THEN TRUE ELSE @]

\* A destroyed scalar is zero, and zero times any point is the identity, which
\* passes the validity checks of otrng_ecdh_shared_secret.
EcdhSharedSecret(m, their_ecdh) ==
  IF m.ecdh_priv THEN {m.our_ecdh, their_ecdh} ELSE {}

CalculateBraceKey(m, their_dh) ==
  IF m.i % 3 = 0
    THEN [dh |-> {m.our_dh, their_dh}, kdfs |-> 0]
    ELSE [m.brace_key EXCEPT !.kdfs = @ + 1]

\* The root key after K = KDF(K_ecdh, brace_key) was mixed into it.
EnterNewRatchet(m, their_ecdh, their_dh) ==
  Append(m.root_key, [ecdh  |-> EcdhSharedSecret(m, their_ecdh),
                      brace |-> CalculateBraceKey(m, their_dh)])

RotateKeysSend(m, p) ==
  LET g    == GenerateEphemeralKeys(m, p)
      root == EnterNewRatchet(g, g.their_ecdh, g.their_dh)
  IN [g EXCEPT !.root_key = root,
               !.chain_s = [root |-> root, n |-> 0],
               !.brace_key = ZeroBrace,
               !.i = @ + 1]

\* Faulty variants of RotateKeysReceive, for testing the properties.
RotateKeysReceiveEarlyPn(m, tmp) ==
  LET root == EnterNewRatchet(m, tmp.their_ecdh, tmp.their_dh)
  IN [tmp EXCEPT !.root_key = root, !.chain_r = [root |-> root, n |-> 0],
                 !.ecdh_priv = FALSE, !.pn = tmp.j - 1, !.j = 0, !.k = 0,
                 !.i = @ + 1]

RotateKeysReceiveUncounted(m, tmp) ==
  LET root == EnterNewRatchet(m, tmp.their_ecdh, tmp.their_dh)
  IN [tmp EXCEPT !.root_key = root, !.chain_r = [root |-> root, n |-> 0],
                 !.ecdh_priv = FALSE, !.pn = tmp.j, !.j = 0, !.k = 0]

RotateKeysReceiveUnerased(m, tmp) ==
  LET root == EnterNewRatchet(m, tmp.their_ecdh, tmp.their_dh)
  IN [tmp EXCEPT !.root_key = root, !.chain_r = [root |-> root, n |-> 0],
                 !.pn = tmp.j, !.j = 0, !.k = 0, !.i = @ + 1]

\* tmp is the temporary receiving ratchet.  The DH private key it drops is the
\* manager's own one: the temporary ratchet has no copy of it.
RotateKeysReceive(m, tmp) ==
  LET root == EnterNewRatchet(m, tmp.their_ecdh, tmp.their_dh)
  IN [tmp EXCEPT !.root_key = root,
                 !.chain_r = [root |-> root, n |-> 0],
                 !.brace_key = ZeroBrace,
                 !.ecdh_priv = FALSE,
                 !.dh_priv = IF tmp.i % 3 = 0 THEN FALSE ELSE @,
                 !.pn = tmp.j, !.j = 0, !.k = 0, !.i = @ + 1]

-----------------------------------------------------------------------------
\* derive_next_chain_key.
NextChainKey(c) == [c EXCEPT !.n = @ + 1]

\* The chain key that the receiving chain of tmp reaches at message id n.
ChainKeyAt(tmp, n) == [tmp.chain_r EXCEPT !.n = @ + (n - tmp.k)]

\* A faulty variant of StoreEncKeys that forgets the last key of the gap.
StoreEncKeysShort(tmp, until, label) ==
  IF \/ tmp.k + MaxSkip < until
     \/ tmp.chain_r = EmptyChain
     \/ until <= tmp.k
    THEN tmp
    ELSE [tmp EXCEPT
            !.skipped_keys = @ \cup {[ecdh |-> label, k |-> n,
                                      key |-> ChainKeyAt(tmp, n)] :
                                       n \in (tmp.k + 1) .. (until - 1)},
            !.chain_r = ChainKeyAt(tmp, until),
            !.k = until]

(***************************************************************************)
(* store_enc_keys: keep the keys of the messages from k up to until, under *)
(* the ECDH key label.  A gap wider than MaxSkip only raises an event, and *)
(* a chain that does not exist yet has nothing to keep.                    *)
(***************************************************************************)
StoreEncKeys(tmp, until, label) ==
  IF \/ tmp.k + MaxSkip < until
     \/ tmp.chain_r = EmptyChain
     \/ until <= tmp.k
    THEN tmp
    ELSE [tmp EXCEPT
            !.skipped_keys = @ \cup {[ecdh |-> label, k |-> n,
                                      key |-> ChainKeyAt(tmp, n)] :
                                       n \in tmp.k .. (until - 1)},
            !.chain_r = ChainKeyAt(tmp, until),
            !.k = until]

\* The stored keys otrng_key_get_skipped_keys would take for this message.
SkippedFor(m, msg) ==
  {s \in m.skipped_keys : s.ecdh = msg.ecdh /\ s.k = msg.message_id}

\* The message starts a ratchet that the manager does not know.
IsNewRatchet(m, msg) == SkippedFor(m, msg) = {} /\ msg.ecdh # m.their_ecdh

\* otrng_receiving_ratchet_new and otrng_key_manager_set_their_tmp_keys.
ReceivingRatchet(m, msg) ==
  [m EXCEPT !.their_ecdh = msg.ecdh, !.their_dh = msg.dh]

\* otrng_key_manager_derive_dh_ratchet_keys with action 'r'.
DeriveDhRatchetKeys(m, msg) ==
  LET tmp == ReceivingRatchet(m, msg)
  IN IF IsNewRatchet(m, msg)
       THEN RotateKeysReceive(m, StoreEncKeys(tmp, msg.previous_chain_n,
                                              m.their_ecdh))
       ELSE tmp

\* A faulty variant that files the keys under the DH key, which three ratchets
\* may share.
DeriveChainKeysMislabelled(m, msg) ==
  LET tmp == DeriveDhRatchetKeys(m, msg)
  IN StoreEncKeys(tmp, msg.message_id, tmp.their_dh)

\* otrng_key_manager_derive_chain_keys with action 'r', up to the point where
\* the chain key of the message itself is the current one.
DeriveChainKeys(m, msg) ==
  LET tmp == DeriveDhRatchetKeys(m, msg)
  IN StoreEncKeys(tmp, msg.message_id, tmp.their_ecdh)

\* The chain key whose MAC key the receiver checks the message with.
ReceiveKey(m, msg) ==
  IF SkippedFor(m, msg) # {}
    THEN (CHOOSE s \in SkippedFor(m, msg) : TRUE).key
    ELSE DeriveChainKeys(m, msg).chain_r

\* The temporary ratchet once the keys of the message were taken from it.
ReceiveRatchet(m, msg) ==
  LET tmp  == ReceivingRatchet(m, msg)
      next == DeriveChainKeys(m, msg)
  IN IF SkippedFor(m, msg) # {}
       THEN [tmp EXCEPT !.skipped_keys =
                          @ \ {CHOOSE s \in SkippedFor(m, msg) : TRUE}]
       ELSE [next EXCEPT !.chain_r = NextChainKey(@), !.k = @ + 1]

\* A rotation on a third ratchet raises their_dh to a private key that is NULL.
UsesNullKey(m, msg) == IsNewRatchet(m, msg) /\ m.i % 3 = 0 /\ ~m.dh_priv

(***************************************************************************)
(* What a message whose MAC is wrong leaves in the manager.  The temporary *)
(* ratchet is dropped, but its list of skipped keys is the manager's list, *)
(* and that list is freed; the DH private key may have been destroyed.     *)
(***************************************************************************)
RejectMessage(m, msg) ==
  [m EXCEPT !.dh_priv = ReceiveRatchet(m, msg).dh_priv,
            !.dangling = (m.skipped_keys # {})]

-----------------------------------------------------------------------------
(***************************************************************************)
(* send_data_message.  The first message of a ratchet rotates the keys and *)
(* reveals the MAC keys kept so far.                                       *)
(***************************************************************************)
SendKeys(m, p) == IF m.j = 0 THEN RotateKeysSend(m, p) ELSE m

\* Faulty variants of SendData: the kept MAC keys are dropped on every send, and
\* the sending chain stays where it is.
SendDataForgetful(m, p) ==
  [SendKeys(m, p) EXCEPT !.chain_s = NextChainKey(@), !.old_mac_keys = {}, !.j = @ + 1]

SendDataUnadvanced(m, p) ==
  [SendKeys(m, p) EXCEPT !.old_mac_keys = IF m.j = 0 THEN {} ELSE @, !.j = @ + 1]

SendData(m, p) ==
  LET r == SendKeys(m, p)
  IN [r EXCEPT !.chain_s = NextChainKey(@),
               !.old_mac_keys = IF m.j = 0 THEN {} ELSE @,
               !.j = @ + 1]

DataMessage(m, p) ==
  LET r == SendKeys(m, p)
  IN [ecdh |-> r.our_ecdh, dh |-> r.our_dh, previous_chain_n |-> r.pn,
      message_id |-> r.j, key |-> r.chain_s, intact |-> TRUE]

RevealedMacKeys(m) == IF m.j = 0 THEN m.old_mac_keys ELSE {}

StoreOldMacKey(m, key) == [m EXCEPT !.old_mac_keys = @ \cup {key}]

-----------------------------------------------------------------------------
(***************************************************************************)
(* The order of message keys.  Every rotation makes the root key longer,   *)
(* so a key x lies behind a chain c when its root is shorter, or when it is *)
(* an earlier position of that very chain.                                 *)
(***************************************************************************)
Behind(x, c) ==
  \/ Len(x.root) < Len(c.root)
  \/ x.root = c.root /\ x.n < c.n

(***************************************************************************)
(* The keys of the messages a manager received (got) and sent (sent) lie   *)
(* behind its chains, and so do the skipped keys, which are distinct and   *)
(* belong to messages that were not received.                              *)
(***************************************************************************)
KeysBehind(m, got, sent) ==
  /\ Len(m.chain_r.root) <= Len(m.root_key)
  /\ Len(m.chain_s.root) <= Len(m.root_key)
  /\ \A x \in got : Behind(x, m.chain_r)
  /\ \A x \in sent : Behind(x, m.chain_s)
  /\ \A s \in m.skipped_keys : Behind(s.key, m.chain_r) /\ s.key \notin got
  /\ \A s1, s2 \in m.skipped_keys : s1.key = s2.key => s1 = s2
=============================================================================
