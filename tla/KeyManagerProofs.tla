--------------------------- MODULE KeyManagerProofs ---------------------------
(***************************************************************************)
(* What the operations of the key manager preserve, for every manager and  *)
(* every message: the lemmas behind the theorems about the double ratchet. *)
(***************************************************************************)
EXTENDS KeyManager, TLAPS

\* The header of a data message, as far as the key manager reads it.
Header == [ecdh : PubKey, dh : PubKey, previous_chain_n : Nat,
           message_id : Nat, key : ChainKey, intact : BOOLEAN]

\* The other peer is a peer.
LEMMA OtherPeer == \A p \in Peer : Other(p) \in Peer /\ Other(p) # p
  BY DEF Peer, Other

\* The manager that ratcheting_init leaves behind is well-typed.
LEMMA InitType == \A p \in Peer : RatchetingInit(p) \in Manager
<1> SUFFICES ASSUME NEW p \in Peer
             PROVE  RatchetingInit(p) \in Manager
  OBVIOUS
<1>1. EmptyChain \in ChainKey
  BY DEF EmptyChain, ChainKey
<1>2. ZeroBrace \in BraceKey
  BY DEF ZeroBrace, BraceKey
<1>3. <<p, 0>> \in PubKey /\ <<Other(p), 0>> \in PubKey
  BY OtherPeer DEF PubKey
<1> QED
  BY <1>1, <1>2, <1>3 DEF RatchetingInit, Manager

\* The root key that a rotation enters is a root key, longer by one secret.
LEMMA EnterNewRatchetType ==
  ASSUME NEW m \in Manager, NEW e \in PubKey, NEW d \in PubKey
  PROVE  /\ EnterNewRatchet(m, e, d) \in Seq(Secret)
         /\ Len(EnterNewRatchet(m, e, d)) = Len(m.root_key) + 1
<1>1. EcdhSharedSecret(m, e) \in SUBSET PubKey
  BY DEF EcdhSharedSecret, Manager
<1>2. CalculateBraceKey(m, d) \in BraceKey
  BY DEF CalculateBraceKey, Manager, BraceKey
<1>3. [ecdh |-> EcdhSharedSecret(m, e), brace |-> CalculateBraceKey(m, d)]
        \in Secret
  BY <1>1, <1>2 DEF Secret
<1>4. m.root_key \in Seq(Secret)
  BY DEF Manager
<1> QED
  BY <1>3, <1>4 DEF EnterNewRatchet

\* What a new key pair leaves alone.
LEMMA GenerateEphemeralKeysType ==
  ASSUME NEW m \in Manager, NEW p \in Peer
  PROVE  /\ GenerateEphemeralKeys(m, p) \in Manager
         /\ GenerateEphemeralKeys(m, p).root_key = m.root_key
         /\ GenerateEphemeralKeys(m, p).chain_r = m.chain_r
         /\ GenerateEphemeralKeys(m, p).skipped_keys = m.skipped_keys
<1>1. m.i \in Nat /\ m.our_dh \in PubKey /\ m.dh_priv \in BOOLEAN
  BY DEF Manager
<1>2. <<p, m.i + 1>> \in PubKey
  BY <1>1 DEF PubKey
<1>3. GenerateEphemeralKeys(m, p) \in Manager
  BY <1>1, <1>2, Zenon DEF GenerateEphemeralKeys, Manager
<1> QED
  BY <1>3 DEF GenerateEphemeralKeys, Manager

\* A sending rotation gives a manager, with a root key one secret longer and
\* the receiving side as it was.
LEMMA RotateKeysSendType ==
  ASSUME NEW m \in Manager, NEW p \in Peer
  PROVE  /\ RotateKeysSend(m, p) \in Manager
         /\ Len(RotateKeysSend(m, p).root_key) = Len(m.root_key) + 1
         /\ RotateKeysSend(m, p).chain_r = m.chain_r
         /\ RotateKeysSend(m, p).skipped_keys = m.skipped_keys
<1> DEFINE g    == GenerateEphemeralKeys(m, p)
           root == EnterNewRatchet(g, g.their_ecdh, g.their_dh)
<1>1. g \in Manager /\ g.root_key = m.root_key
      /\ g.chain_r = m.chain_r /\ g.skipped_keys = m.skipped_keys
  BY GenerateEphemeralKeysType
<1> HIDE DEF g
<1>2. g.their_ecdh \in PubKey /\ g.their_dh \in PubKey /\ g.i + 1 \in Nat
  BY <1>1 DEF Manager
<1>3. root \in Seq(Secret) /\ Len(root) = Len(m.root_key) + 1
  BY <1>1, <1>2, EnterNewRatchetType
<1> HIDE DEF root
<1>4. [root |-> root, n |-> 0] \in ChainKey
  BY <1>3 DEF ChainKey
<1>5. ZeroBrace \in BraceKey
  BY DEF ZeroBrace, BraceKey
<1>6. RotateKeysSend(m, p) = [g EXCEPT !.root_key = root,
               !.chain_s = [root |-> root, n |-> 0],
               !.brace_key = ZeroBrace,
               !.i = @ + 1]
  BY Zenon DEF RotateKeysSend, g, root
<1>7. RotateKeysSend(m, p) \in Manager
  BY <1>1, <1>2, <1>3, <1>4, <1>5, <1>6, ZenonT(40) DEF Manager
<1> QED
  BY <1>1, <1>3, <1>6, <1>7 DEF Manager

-----------------------------------------------------------------------------
\* Advancing a chain gives a chain key, one step further.
LEMMA NextChainKeyType ==
  ASSUME NEW c \in ChainKey
  PROVE  /\ NextChainKey(c) \in ChainKey
         /\ NextChainKey(c).root = c.root
         /\ NextChainKey(c).n = c.n + 1
  BY DEF NextChainKey, ChainKey

\* The key at message id n of a receiving chain.
LEMMA ChainKeyAtType ==
  ASSUME NEW m \in Manager, NEW n \in Nat, m.k <= n
  PROVE  /\ ChainKeyAt(m, n) \in ChainKey
         /\ ChainKeyAt(m, n).root = m.chain_r.root
         /\ ChainKeyAt(m, n).n = m.chain_r.n + (n - m.k)
<1>1. m.chain_r \in ChainKey /\ m.k \in Nat
  BY DEF Manager
<1> QED
  BY <1>1 DEF ChainKeyAt, ChainKey

\* A sent message leaves a manager.
LEMMA SendKeysType ==
  ASSUME NEW m \in Manager, NEW p \in Peer
  PROVE  /\ SendKeys(m, p) \in Manager
         /\ SendKeys(m, p).chain_r = m.chain_r
         /\ SendKeys(m, p).skipped_keys = m.skipped_keys
  BY RotateKeysSendType DEF SendKeys

\* Sending a data message gives a manager and leaves the receiving side alone.
LEMMA SendDataType ==
  ASSUME NEW m \in Manager, NEW p \in Peer
  PROVE  SendData(m, p) \in Manager
<1> DEFINE r == SendKeys(m, p)
<1>1. r \in Manager
  BY SendKeysType
<1> HIDE DEF r
<1>2. NextChainKey(r.chain_s) \in ChainKey
  BY <1>1, NextChainKeyType DEF Manager
<1>3. (IF m.j = 0 THEN {} ELSE r.old_mac_keys) \in SUBSET ChainKey
  BY <1>1 DEF Manager
<1>4. r.j + 1 \in Nat
  BY <1>1 DEF Manager
<1> QED
  BY <1>1, <1>2, <1>3, <1>4, Zenon DEF SendData, Manager, r

\* The message it puts on the wire.
LEMMA DataMessageType ==
  ASSUME NEW m \in Manager, NEW p \in Peer
  PROVE  DataMessage(m, p) \in Header
<1>1. SendKeys(m, p) \in Manager
  BY SendKeysType
<1> QED
  BY <1>1 DEF DataMessage, Header, Manager

\* Keeping a MAC key changes nothing else.
LEMMA StoreOldMacKeyType ==
  ASSUME NEW m \in Manager, NEW x \in ChainKey
  PROVE  /\ StoreOldMacKey(m, x) \in Manager
         /\ StoreOldMacKey(m, x).chain_r = m.chain_r
         /\ StoreOldMacKey(m, x).chain_s = m.chain_s
         /\ StoreOldMacKey(m, x).root_key = m.root_key
         /\ StoreOldMacKey(m, x).skipped_keys = m.skipped_keys
<1>1. m.old_mac_keys \cup {x} \in SUBSET ChainKey
  BY DEF Manager
<1>2. StoreOldMacKey(m, x) \in Manager
  BY <1>1, Zenon DEF StoreOldMacKey, Manager
<1> QED
  BY <1>2 DEF StoreOldMacKey, Manager

-----------------------------------------------------------------------------
\* Storing skipped keys gives a manager and does not touch the root key, the
\* sending chain or the private keys.
LEMMA StoreEncKeysType ==
  ASSUME NEW m \in Manager, NEW until \in Nat, NEW label \in PubKey
  PROVE  /\ StoreEncKeys(m, until, label) \in Manager
         /\ StoreEncKeys(m, until, label).root_key = m.root_key
         /\ StoreEncKeys(m, until, label).chain_s = m.chain_s
<1> DEFINE new == {[ecdh |-> label, k |-> n, key |-> ChainKeyAt(m, n)] :
                     n \in m.k .. (until - 1)}
           r   == [m EXCEPT !.skipped_keys = @ \cup new,
                            !.chain_r = ChainKeyAt(m, until),
                            !.k = until]
<1>1. CASE m.k < until
  <2>1. m.k \in Nat /\ m.skipped_keys \in SUBSET SkippedKey
    BY DEF Manager
  <2>2. \A n \in m.k .. (until - 1) :
           [ecdh |-> label, k |-> n, key |-> ChainKeyAt(m, n)] \in SkippedKey
    <3> SUFFICES ASSUME NEW n \in m.k .. (until - 1)
                 PROVE  [ecdh |-> label, k |-> n, key |-> ChainKeyAt(m, n)]
                          \in SkippedKey
      OBVIOUS
    <3>1. n \in Nat /\ m.k <= n
      BY <2>1
    <3>2. ChainKeyAt(m, n) \in ChainKey
      BY <3>1, ChainKeyAtType
    <3> QED
      BY <3>1, <3>2 DEF SkippedKey
  <2>3. m.skipped_keys \cup new \in SUBSET SkippedKey
    BY <2>1, <2>2
  <2>4. ChainKeyAt(m, until) \in ChainKey
    BY <1>1, <2>1, ChainKeyAtType
  <2> HIDE DEF new
  <2>5. r \in Manager
    BY <2>3, <2>4, Zenon DEF Manager
  <2>6. r.root_key = m.root_key /\ r.chain_s = m.chain_s
    BY DEF Manager
  <2>7. StoreEncKeys(m, until, label) \in {m, r}
    BY Zenon DEF StoreEncKeys, new
  <2> QED
    BY <2>5, <2>6, <2>7
<1>2. CASE ~(m.k < until)
  <2>1. until <= m.k
    BY <1>2 DEF Manager
  <2> QED
    BY <2>1, Zenon DEF StoreEncKeys
<1> QED
  BY <1>1, <1>2

\* A receiving rotation gives a manager whose receiving chain starts at the new
\* root key.
LEMMA RotateKeysReceiveType ==
  ASSUME NEW m \in Manager, NEW tmp \in Manager
  PROVE  /\ RotateKeysReceive(m, tmp) \in Manager
         /\ Len(RotateKeysReceive(m, tmp).root_key) = Len(m.root_key) + 1
         /\ RotateKeysReceive(m, tmp).chain_r.root =
              RotateKeysReceive(m, tmp).root_key
         /\ RotateKeysReceive(m, tmp).chain_s = tmp.chain_s
         /\ RotateKeysReceive(m, tmp).skipped_keys = tmp.skipped_keys
<1> DEFINE root == EnterNewRatchet(m, tmp.their_ecdh, tmp.their_dh)
<1>1. RotateKeysReceive(m, tmp) =
        [tmp EXCEPT !.root_key = root,
                 !.chain_r = [root |-> root, n |-> 0],
                 !.brace_key = ZeroBrace,
                 !.ecdh_priv = FALSE,
                 !.dh_priv = IF tmp.i % 3 = 0 THEN FALSE ELSE @,
                 !.pn = tmp.j, !.j = 0, !.k = 0, !.i = @ + 1]
  BY DEF RotateKeysReceive
<1>2. tmp.their_ecdh \in PubKey /\ tmp.their_dh \in PubKey
      /\ tmp.i + 1 \in Nat /\ tmp.j \in Nat /\ 0 \in Nat
  BY DEF Manager
<1>3. root \in Seq(Secret) /\ Len(root) = Len(m.root_key) + 1
  BY <1>2, EnterNewRatchetType
<1> HIDE DEF root
<1>4. [root |-> root, n |-> 0] \in ChainKey
  BY <1>3 DEF ChainKey
<1>5. ZeroBrace \in BraceKey
  BY DEF ZeroBrace, BraceKey
<1>6. (IF tmp.i % 3 = 0 THEN FALSE ELSE tmp.dh_priv) \in BOOLEAN
  BY Zenon DEF Manager
<1>7. RotateKeysReceive(m, tmp) \in Manager
  BY <1>1, <1>2, <1>3, <1>4, <1>5, <1>6, ZenonT(90) DEF Manager
<1>8. /\ RotateKeysReceive(m, tmp).root_key = root
      /\ RotateKeysReceive(m, tmp).chain_r = [root |-> root, n |-> 0]
      /\ RotateKeysReceive(m, tmp).chain_s = tmp.chain_s
      /\ RotateKeysReceive(m, tmp).skipped_keys = tmp.skipped_keys
  BY <1>1 DEF Manager
<1> QED
  BY <1>3, <1>7, <1>8

\* The temporary ratchet is a copy of the manager with the sender's keys.
LEMMA ReceivingRatchetType ==
  ASSUME NEW m \in Manager, NEW msg \in Header
  PROVE  /\ ReceivingRatchet(m, msg) \in Manager
         /\ ReceivingRatchet(m, msg).root_key = m.root_key
         /\ ReceivingRatchet(m, msg).chain_s = m.chain_s
         /\ ReceivingRatchet(m, msg).chain_r = m.chain_r
         /\ ReceivingRatchet(m, msg).skipped_keys = m.skipped_keys
<1>1. msg.ecdh \in PubKey /\ msg.dh \in PubKey
  BY DEF Header
<1>2. ReceivingRatchet(m, msg) \in Manager
  BY <1>1, Zenon DEF ReceivingRatchet, Manager
<1> QED
  BY <1>2 DEF ReceivingRatchet, Manager

\* The step to a new ratchet, if the message asks for one, gives a manager.
LEMMA DeriveDhRatchetKeysType ==
  ASSUME NEW m \in Manager, NEW msg \in Header
  PROVE  DeriveDhRatchetKeys(m, msg) \in Manager
<1> DEFINE tmp == ReceivingRatchet(m, msg)
           d   == StoreEncKeys(tmp, msg.previous_chain_n, m.their_ecdh)
<1>1. tmp \in Manager
  BY ReceivingRatchetType
<1>2. msg.previous_chain_n \in Nat /\ m.their_ecdh \in PubKey
  BY DEF Header, Manager
<1>3. d \in Manager
  BY <1>1, <1>2, StoreEncKeysType
<1>4. RotateKeysReceive(m, d) \in Manager
  BY <1>3, RotateKeysReceiveType
<1> QED
  BY <1>1, <1>4, Zenon DEF DeriveDhRatchetKeys

\* Deriving the chain key of a received message gives a manager.
LEMMA DeriveChainKeysType ==
  ASSUME NEW m \in Manager, NEW msg \in Header
  PROVE  DeriveChainKeys(m, msg) \in Manager
<1> DEFINE tmp == DeriveDhRatchetKeys(m, msg)
<1>1. tmp \in Manager
  BY DeriveDhRatchetKeysType
<1>2. msg.message_id \in Nat /\ tmp.their_ecdh \in PubKey
  BY <1>1 DEF Header, Manager
<1>3. StoreEncKeys(tmp, msg.message_id, tmp.their_ecdh) \in Manager
  BY <1>1, <1>2, StoreEncKeysType
<1> QED
  BY <1>3, Zenon DEF DeriveChainKeys

\* Receiving a message gives a manager.
LEMMA ReceiveRatchetType ==
  ASSUME NEW m \in Manager, NEW msg \in Header
  PROVE  ReceiveRatchet(m, msg) \in Manager
<1> DEFINE tmp  == ReceivingRatchet(m, msg)
           next == DeriveChainKeys(m, msg)
           rest == tmp.skipped_keys \ {CHOOSE s \in SkippedFor(m, msg) : TRUE}
<1>1. tmp \in Manager /\ next \in Manager
  BY ReceivingRatchetType, DeriveChainKeysType
<1> HIDE DEF tmp, next
<1>2. tmp.skipped_keys \in SUBSET SkippedKey /\ next.chain_r \in ChainKey
      /\ next.k + 1 \in Nat
  BY <1>1, SMTT(30) DEF Manager
<1>3. rest \in SUBSET SkippedKey
  BY <1>2
<1>4. NextChainKey(next.chain_r) \in ChainKey
  BY <1>2, NextChainKeyType
<1>5. [tmp EXCEPT !.skipped_keys = rest] \in Manager
  BY <1>1, <1>3, Zenon DEF Manager
<1>6. [next EXCEPT !.chain_r = NextChainKey(@), !.k = @ + 1] \in Manager
  BY <1>1, <1>2, <1>4, Zenon DEF Manager
<1>7. ReceiveRatchet(m, msg) = IF SkippedFor(m, msg) # {}
        THEN [tmp EXCEPT !.skipped_keys = rest]
        ELSE [next EXCEPT !.chain_r = NextChainKey(@), !.k = @ + 1]
  BY Zenon DEF ReceiveRatchet, tmp, next
<1> QED
  BY <1>5, <1>6, <1>7, Zenon

\* Rejecting a message gives a manager with the same chains and skipped keys.
LEMMA RejectMessageType ==
  ASSUME NEW m \in Manager, NEW msg \in Header
  PROVE  /\ RejectMessage(m, msg) \in Manager
         /\ RejectMessage(m, msg).root_key = m.root_key
         /\ RejectMessage(m, msg).chain_s = m.chain_s
         /\ RejectMessage(m, msg).chain_r = m.chain_r
         /\ RejectMessage(m, msg).skipped_keys = m.skipped_keys
<1>1. ReceiveRatchet(m, msg).dh_priv \in BOOLEAN
  BY ReceiveRatchetType, Zenon DEF Manager
<1>2. RejectMessage(m, msg) \in Manager
  BY <1>1, Zenon DEF RejectMessage, Manager
<1> QED
  BY <1>2 DEF RejectMessage, Manager

-----------------------------------------------------------------------------
(***************************************************************************)
(* The order of message keys (KeysBehind) is kept by every operation.      *)
(***************************************************************************)

\* Only the chains, the root key and the store of skipped keys matter for it.
LEMMA KeysBehindFrame ==
  ASSUME NEW m \in Manager, NEW r \in Manager, NEW G, NEW S,
         KeysBehind(m, G, S),
         r.root_key = m.root_key, r.chain_s = m.chain_s,
         r.chain_r = m.chain_r, r.skipped_keys = m.skipped_keys
  PROVE  KeysBehind(r, G, S)
  BY DEF KeysBehind

\* A key behind a chain stays behind it when the chain advances.
LEMMA BehindLater ==
  ASSUME NEW x \in ChainKey, NEW c \in ChainKey, NEW d \in ChainKey,
         Behind(x, c), d.root = c.root, c.n <= d.n
  PROVE  Behind(x, d)
  BY DEF Behind, ChainKey

\* Storing the keys of a gap keeps the order: the new keys are positions that
\* the chain has just passed.
LEMMA StoreEncKeysBehind ==
  ASSUME NEW m \in Manager, NEW until \in Nat, NEW label \in PubKey,
         NEW G \in SUBSET ChainKey, NEW S \in SUBSET ChainKey,
         KeysBehind(m, G, S)
  PROVE  KeysBehind(StoreEncKeys(m, until, label), G, S)
<1> DEFINE skip(n) == [ecdh |-> label, k |-> n, key |-> ChainKeyAt(m, n)]
           new == {[ecdh |-> label, k |-> n, key |-> ChainKeyAt(m, n)] :
                     n \in m.k .. (until - 1)}
           r   == [m EXCEPT !.skipped_keys = @ \cup new,
                            !.chain_r = ChainKeyAt(m, until),
                            !.k = until]
<1>1. CASE ~(m.k < until)
  <2>1. until <= m.k
    BY <1>1 DEF Manager
  <2>2. StoreEncKeys(m, until, label) = m
    BY <2>1, Zenon DEF StoreEncKeys
  <2> QED
    BY <2>2
<1>2. CASE m.k < until
  <2>1. StoreEncKeys(m, until, label) \in {m, r}
    BY Zenon DEF StoreEncKeys
  <2>2. m.k \in Nat /\ m.chain_r \in ChainKey
        /\ m.skipped_keys \in SUBSET SkippedKey
    BY DEF Manager
  <2>3. /\ r.skipped_keys = m.skipped_keys \cup new
        /\ r.chain_r = ChainKeyAt(m, until)
        /\ r.root_key = m.root_key
        /\ r.chain_s = m.chain_s
    <3> HIDE DEF new
    <3> QED
      BY DEF Manager
  <2>4. /\ ChainKeyAt(m, until) \in ChainKey
        /\ ChainKeyAt(m, until).root = m.chain_r.root
        /\ ChainKeyAt(m, until).n = m.chain_r.n + (until - m.k)
    BY <1>2, <2>2, ChainKeyAtType
  <2>5. m.chain_r.n \in Nat /\ m.chain_r.n <= ChainKeyAt(m, until).n
    BY <1>2, <2>2, <2>4 DEF ChainKey
  <2>6. \A n \in m.k .. (until - 1) :
           /\ n \in Nat /\ m.k <= n /\ n < until
           /\ ChainKeyAt(m, n) \in ChainKey
           /\ ChainKeyAt(m, n).root = m.chain_r.root
           /\ ChainKeyAt(m, n).n = m.chain_r.n + (n - m.k)
    <3> SUFFICES ASSUME NEW n \in m.k .. (until - 1)
                 PROVE  /\ n \in Nat /\ m.k <= n /\ n < until
                        /\ ChainKeyAt(m, n) \in ChainKey
                        /\ ChainKeyAt(m, n).root = m.chain_r.root
                        /\ ChainKeyAt(m, n).n = m.chain_r.n + (n - m.k)
      OBVIOUS
    <3>1. n \in Nat /\ m.k <= n /\ n < until
      BY <2>2
    <3> QED
      BY <3>1, ChainKeyAtType
  <2>7. \A s \in new : \E n \in m.k .. (until - 1) :
           s.key = ChainKeyAt(m, n) /\ s.k = n /\ s.ecdh = label
                                    /\ s = skip(n)
    OBVIOUS
  <2> HIDE DEF new, r
  <2>8. Len(r.chain_r.root) <= Len(r.root_key)
        /\ Len(r.chain_s.root) <= Len(r.root_key)
    BY <2>3, <2>4 DEF KeysBehind
  <2>9. \A x \in G : Behind(x, r.chain_r)
    BY <2>2, <2>3, <2>4, <2>5, BehindLater DEF KeysBehind
  <2>10. \A x \in S : Behind(x, r.chain_s)
    BY <2>3 DEF KeysBehind
  <2>11. \A s \in m.skipped_keys : s.key \in ChainKey
    BY <2>2 DEF SkippedKey
  <2>12. \A s \in m.skipped_keys : Behind(s.key, r.chain_r) /\ s.key \notin G
    BY <2>2, <2>3, <2>4, <2>5, <2>11, BehindLater DEF KeysBehind
  <2>13. \A x \in ChainKey : Behind(x, m.chain_r) =>
            \A n \in m.k .. (until - 1) : x # ChainKeyAt(m, n)
    BY <2>2, <2>6 DEF Behind, ChainKey
  <2>14. \A s \in new : Behind(s.key, r.chain_r) /\ s.key \notin G
    <3> SUFFICES ASSUME NEW s \in new
                 PROVE  Behind(s.key, r.chain_r) /\ s.key \notin G
      OBVIOUS
    <3>1. PICK n \in m.k .. (until - 1) : s.key = ChainKeyAt(m, n)
      BY <2>7
    <3>2. Behind(s.key, r.chain_r)
      BY <2>2, <2>3, <2>4, <2>5, <2>6, <3>1 DEF Behind
    <3>3. s.key \notin G
      BY <2>13, <3>1 DEF KeysBehind
    <3> QED
      BY <3>2, <3>3
  <2>15. \A s1, s2 \in new : s1.key = s2.key => s1 = s2
    <3> SUFFICES ASSUME NEW s1 \in new, NEW s2 \in new, s1.key = s2.key
                 PROVE  s1 = s2
      OBVIOUS
    <3>1. PICK n1 \in m.k .. (until - 1) :
             s1.key = ChainKeyAt(m, n1) /\ s1 = skip(n1)
      BY <2>7
    <3>2. PICK n2 \in m.k .. (until - 1) :
             s2.key = ChainKeyAt(m, n2) /\ s2 = skip(n2)
      BY <2>7
    <3> HIDE DEF skip
    <3>3. ChainKeyAt(m, n1).n = ChainKeyAt(m, n2).n
      BY <3>1, <3>2
    <3>4. n1 = n2
      BY <2>2, <2>5, <2>6, <3>3
    <3> QED
      BY <3>1, <3>2, <3>4
  <2>16. \A s1 \in new, s2 \in m.skipped_keys : s1.key # s2.key
    BY <2>7, <2>11, <2>13 DEF KeysBehind
  <2>17. KeysBehind(r, G, S)
    BY <2>3, <2>8, <2>9, <2>10, <2>12, <2>14, <2>15, <2>16 DEF KeysBehind
  <2> QED
    BY <2>1, <2>17
<1> QED
  BY <1>1, <1>2

\* A receiving rotation keeps the order: everything known has a shorter root
\* than the new chain.
LEMMA RotateKeysReceiveBehind ==
  ASSUME NEW m \in Manager, NEW tmp \in Manager,
         NEW G \in SUBSET ChainKey, NEW S \in SUBSET ChainKey,
         KeysBehind(tmp, G, S), tmp.root_key = m.root_key
  PROVE  KeysBehind(RotateKeysReceive(m, tmp), G, S)
<1> DEFINE r == RotateKeysReceive(m, tmp)
<1>1. /\ r \in Manager
      /\ Len(r.root_key) = Len(tmp.root_key) + 1
      /\ r.chain_r.root = r.root_key
      /\ r.chain_s = tmp.chain_s
      /\ r.skipped_keys = tmp.skipped_keys
  BY RotateKeysReceiveType
<1> HIDE DEF r
<1>2. /\ tmp.root_key \in Seq(Secret) /\ tmp.chain_r \in ChainKey
      /\ tmp.chain_s \in ChainKey /\ tmp.skipped_keys \in SUBSET SkippedKey
      /\ r.root_key \in Seq(Secret)
  BY <1>1 DEF Manager
<1>3. Len(tmp.chain_r.root) < Len(r.chain_r.root)
      /\ Len(tmp.chain_s.root) <= Len(r.root_key)
      /\ Len(r.chain_r.root) <= Len(r.root_key)
  BY <1>1, <1>2, SMTT(30) DEF KeysBehind, ChainKey
<1>4. \A x \in ChainKey : Behind(x, tmp.chain_r) => Behind(x, r.chain_r)
  BY <1>1, <1>2, <1>3 DEF Behind, ChainKey
<1>5. \A s \in tmp.skipped_keys : s.key \in ChainKey
  BY <1>2 DEF SkippedKey
<1>6. KeysBehind(r, G, S)
  BY <1>1, <1>3, <1>4, <1>5 DEF KeysBehind
<1> QED
  BY <1>6 DEF r

\* Deriving the chain key of a received message keeps the order of message keys:
\* it stores keys of the old chain, rotates, and stores keys of the new chain.
LEMMA DeriveChainKeysBehind ==
  ASSUME NEW m \in Manager, NEW msg \in Header,
         NEW G \in SUBSET ChainKey, NEW S \in SUBSET ChainKey,
         KeysBehind(m, G, S)
  PROVE  KeysBehind(DeriveChainKeys(m, msg), G, S)
<1> DEFINE tmp == ReceivingRatchet(m, msg)
           d   == StoreEncKeys(tmp, msg.previous_chain_n, m.their_ecdh)
           r   == DeriveDhRatchetKeys(m, msg)
<1>1. /\ tmp \in Manager
      /\ tmp.root_key = m.root_key /\ tmp.chain_s = m.chain_s
      /\ tmp.chain_r = m.chain_r /\ tmp.skipped_keys = m.skipped_keys
  BY ReceivingRatchetType
<1>2. KeysBehind(tmp, G, S)
  BY <1>1, KeysBehindFrame
<1>3. msg.previous_chain_n \in Nat /\ m.their_ecdh \in PubKey
      /\ msg.message_id \in Nat
  BY DEF Header, Manager
<1>4. /\ d \in Manager /\ d.root_key = m.root_key
      /\ KeysBehind(d, G, S)
  BY <1>1, <1>2, <1>3, StoreEncKeysType, StoreEncKeysBehind
<1>5. KeysBehind(RotateKeysReceive(m, d), G, S)
  BY <1>4, RotateKeysReceiveBehind
<1>6. r \in Manager /\ KeysBehind(r, G, S)
  <2>1. r \in {tmp, RotateKeysReceive(m, d)}
    BY Zenon DEF DeriveDhRatchetKeys
  <2> QED
    BY <1>2, <1>5, <2>1, DeriveDhRatchetKeysType
<1>7. r.their_ecdh \in PubKey
  BY <1>6 DEF Manager
<1>8. KeysBehind(StoreEncKeys(r, msg.message_id, r.their_ecdh), G, S)
  BY <1>3, <1>6, <1>7, StoreEncKeysBehind
<1> QED
  BY <1>8 DEF DeriveChainKeys

\* The key a message is checked with was never used before, and taking it keeps
\* the order with that key among the received ones.
LEMMA ReceiveRatchetBehind ==
  ASSUME NEW m \in Manager, NEW msg \in Header,
         NEW G \in SUBSET ChainKey, NEW S \in SUBSET ChainKey,
         KeysBehind(m, G, S)
  PROVE  /\ ReceiveKey(m, msg) \in ChainKey
         /\ ReceiveKey(m, msg) \notin G
         /\ KeysBehind(ReceiveRatchet(m, msg), G \cup {ReceiveKey(m, msg)}, S)
<1> DEFINE H == G \cup {ReceiveKey(m, msg)}
<1>1. CASE SkippedFor(m, msg) # {}
  <2> DEFINE s0  == CHOOSE s \in SkippedFor(m, msg) : TRUE
             tmp == ReceivingRatchet(m, msg)
             r   == [tmp EXCEPT !.skipped_keys = @ \ {s0}]
  <2>1. s0 \in SkippedFor(m, msg)
    BY <1>1
  <2>2. ReceiveKey(m, msg) = s0.key /\ ReceiveRatchet(m, msg) = r
    BY <1>1, Zenon DEF ReceiveKey, ReceiveRatchet
  <2> HIDE DEF s0
  <2>3. s0 \in m.skipped_keys
    BY <2>1 DEF SkippedFor
  <2>4. /\ tmp \in Manager
        /\ tmp.root_key = m.root_key /\ tmp.chain_s = m.chain_s
        /\ tmp.chain_r = m.chain_r /\ tmp.skipped_keys = m.skipped_keys
    BY ReceivingRatchetType
  <2> HIDE DEF tmp
  <2>5. /\ r.root_key = m.root_key /\ r.chain_s = m.chain_s
        /\ r.chain_r = m.chain_r
        /\ r.skipped_keys = m.skipped_keys \ {s0}
    BY <2>4 DEF Manager
  <2> HIDE DEF r
  <2>6. m.skipped_keys \in SUBSET SkippedKey
    BY DEF Manager
  <2>7. s0.key \in ChainKey /\ s0.key \notin G
    BY <2>3, <2>6 DEF SkippedKey, KeysBehind
  <2>8. KeysBehind(r, G \cup {s0.key}, S)
    BY <2>3, <2>5 DEF KeysBehind
  <2> QED
    BY <2>2, <2>7, <2>8
<1>2. CASE SkippedFor(m, msg) = {}
  <2> DEFINE next == DeriveChainKeys(m, msg)
             c    == next.chain_r
             r    == [next EXCEPT !.chain_r = NextChainKey(@), !.k = @ + 1]
  <2>1. ReceiveKey(m, msg) = c /\ ReceiveRatchet(m, msg) = r
    BY <1>2, Zenon DEF ReceiveKey, ReceiveRatchet
  <2>2. next \in Manager /\ KeysBehind(next, G, S)
    BY DeriveChainKeysType, DeriveChainKeysBehind
  <2> HIDE DEF next
  <2>3. /\ r.root_key = next.root_key /\ r.chain_s = next.chain_s
        /\ r.chain_r = NextChainKey(c)
        /\ r.skipped_keys = next.skipped_keys
    BY <2>2 DEF Manager
  <2> HIDE DEF r
  <2>4. c \in ChainKey /\ next.skipped_keys \in SUBSET SkippedKey
    BY <2>2 DEF Manager
  <2>5. /\ NextChainKey(c) \in ChainKey
        /\ NextChainKey(c).root = c.root
        /\ NextChainKey(c).n = c.n + 1
    BY <2>4, NextChainKeyType
  <2>6. \A x \in ChainKey : Behind(x, c) => x # c /\ Behind(x, NextChainKey(c))
    BY <2>4, <2>5 DEF Behind, ChainKey
  <2>7. Behind(c, NextChainKey(c))
    BY <2>4, <2>5 DEF Behind, ChainKey
  <2>8. \A s \in next.skipped_keys : s.key \in ChainKey
    BY <2>4 DEF SkippedKey
  <2>9. c \notin G
    BY <2>2, <2>6 DEF KeysBehind
  <2>10. KeysBehind(r, G \cup {c}, S)
    BY <2>2, <2>3, <2>5, <2>6, <2>7, <2>8 DEF KeysBehind
  <2> QED
    BY <2>1, <2>4, <2>9, <2>10
<1> QED
  BY <1>1, <1>2

\* Sending keeps the order with the key of the message among the sent ones.
LEMMA SendDataBehind ==
  ASSUME NEW m \in Manager, NEW p \in Peer,
         NEW G \in SUBSET ChainKey, NEW S \in SUBSET ChainKey,
         KeysBehind(m, G, S)
  PROVE  KeysBehind(SendData(m, p), G, S \cup {DataMessage(m, p).key})
<1> DEFINE r == SendKeys(m, p)
           d == SendData(m, p)
<1>1. /\ r \in Manager
      /\ r.chain_r = m.chain_r /\ r.skipped_keys = m.skipped_keys
  BY SendKeysType
<1>2. /\ Len(r.chain_s.root) <= Len(r.root_key)
      /\ Len(m.root_key) <= Len(r.root_key)
      /\ \A x \in S : Behind(x, r.chain_s)
  <2>1. CASE m.j # 0
    <3>1. r = m
      BY <2>1 DEF SendKeys
    <3> QED
      BY <3>1 DEF KeysBehind, Manager
  <2>2. CASE m.j = 0
    <3>1. r = RotateKeysSend(m, p)
      BY <2>2 DEF SendKeys
    <3>2. Len(r.root_key) = Len(m.root_key) + 1
      BY <3>1, RotateKeysSendType
    <3>3. r.chain_s.root = r.root_key
      BY <3>1, GenerateEphemeralKeysType DEF RotateKeysSend, Manager
    <3>4. m.root_key \in Seq(Secret) /\ m.chain_s \in ChainKey
          /\ r.root_key \in Seq(Secret)
      BY <1>1 DEF Manager
    <3>5. \A x \in ChainKey : Behind(x, m.chain_s) => Behind(x, r.chain_s)
      <4> HIDE DEF r
      <4> QED
        BY <3>2, <3>3, <3>4 DEF Behind, ChainKey, KeysBehind
    <3> QED
      <4> HIDE DEF r
      <4> QED
        BY <3>2, <3>3, <3>4, <3>5 DEF KeysBehind
  <2> QED
    BY <2>1, <2>2
<1>3. DataMessage(m, p).key = r.chain_s
  BY DEF DataMessage
<1>4. d = [r EXCEPT !.chain_s = NextChainKey(@),
               !.old_mac_keys = IF m.j = 0 THEN {} ELSE @,
               !.j = @ + 1]
  BY DEF SendData
<1> HIDE DEF r, d
<1>5. /\ d.root_key = r.root_key /\ d.chain_s = NextChainKey(r.chain_s)
      /\ d.chain_r = m.chain_r
      /\ d.skipped_keys = m.skipped_keys
  BY <1>1, <1>4 DEF Manager
<1>6. r.chain_s \in ChainKey /\ m.root_key \in Seq(Secret)
      /\ r.root_key \in Seq(Secret) /\ m.chain_r \in ChainKey
  BY <1>1 DEF Manager
<1>7. /\ NextChainKey(r.chain_s) \in ChainKey
      /\ NextChainKey(r.chain_s).root = r.chain_s.root
      /\ NextChainKey(r.chain_s).n = r.chain_s.n + 1
  BY <1>6, NextChainKeyType
<1>8. \A x \in ChainKey : Behind(x, r.chain_s) => Behind(x, NextChainKey(r.chain_s))
  BY <1>6, <1>7 DEF Behind, ChainKey
<1>9. Behind(r.chain_s, NextChainKey(r.chain_s))
  BY <1>6, <1>7 DEF Behind, ChainKey
<1>10. Len(m.chain_r.root) <= Len(r.root_key)
  BY <1>2, <1>6 DEF KeysBehind, ChainKey
<1>11. KeysBehind(d, G, S \cup {r.chain_s})
  BY <1>2, <1>5, <1>7, <1>8, <1>9, <1>10 DEF KeysBehind
<1> QED
  BY <1>3, <1>11 DEF d
-----------------------------------------------------------------------------
(***************************************************************************)
(* What each operation does to the fields that the theorems speak of.      *)
(***************************************************************************)

\* What the KDF mixes into the root key when the sender p starts a ratchet.
SendSecret(m, p) ==
  [ecdh  |-> {<<p, m.i + 1>>, m.their_ecdh},
   brace |-> IF m.i % 3 = 0 THEN [dh |-> {<<p, m.i + 1>>, m.their_dh}, kdfs |-> 0]
             ELSE [m.brace_key EXCEPT !.kdfs = @ + 1]]

\* A sending rotation: a fresh ECDH key pair named after the counter, and a root
\* key that was extended by the secret it shares with the peer's key.
LEMMA RotateKeysSendFields ==
  ASSUME NEW m \in Manager, NEW p \in Peer
  PROVE  LET r == RotateKeysSend(m, p)
         IN /\ r.i = m.i + 1 /\ r.j = m.j /\ r.k = m.k /\ r.pn = m.pn
            /\ r.our_ecdh = <<p, m.i + 1>> /\ r.ecdh_priv = TRUE
            /\ r.our_dh = IF m.i % 3 = 0 THEN <<p, m.i + 1>> ELSE m.our_dh
            /\ r.dh_priv = IF m.i % 3 = 0 THEN TRUE ELSE m.dh_priv
            /\ r.their_ecdh = m.their_ecdh /\ r.their_dh = m.their_dh
            /\ r.brace_key = ZeroBrace
            /\ r.root_key = Append(m.root_key, SendSecret(m, p))
            /\ r.chain_s = [root |-> r.root_key, n |-> 0]
            /\ r.dangling = m.dangling /\ r.old_mac_keys = m.old_mac_keys
            /\ r.chain_r = m.chain_r /\ r.skipped_keys = m.skipped_keys
<1> DEFINE g == GenerateEphemeralKeys(m, p)
<1>1. /\ g.i = m.i /\ g.j = m.j /\ g.k = m.k /\ g.pn = m.pn
      /\ g.our_ecdh = <<p, m.i + 1>> /\ g.ecdh_priv = TRUE
      /\ g.our_dh = IF m.i % 3 = 0 THEN <<p, m.i + 1>> ELSE m.our_dh
      /\ g.dh_priv = IF m.i % 3 = 0 THEN TRUE ELSE m.dh_priv
      /\ g.their_ecdh = m.their_ecdh /\ g.their_dh = m.their_dh
      /\ g.brace_key = m.brace_key /\ g.root_key = m.root_key
      /\ g.dangling = m.dangling /\ g.old_mac_keys = m.old_mac_keys
      /\ g.chain_r = m.chain_r /\ g.skipped_keys = m.skipped_keys
  BY DEF GenerateEphemeralKeys, Manager
<1>2. g \in Manager
  BY GenerateEphemeralKeysType
<1>3. EnterNewRatchet(g, g.their_ecdh, g.their_dh) =
        Append(m.root_key, SendSecret(m, p))
  BY <1>1 DEF EnterNewRatchet, EcdhSharedSecret, CalculateBraceKey, SendSecret
<1> DEFINE root == Append(m.root_key, SendSecret(m, p))
<1>4. RotateKeysSend(m, p) = [g EXCEPT !.root_key = root,
                                       !.chain_s = [root |-> root, n |-> 0],
                                       !.brace_key = ZeroBrace,
                                       !.i = @ + 1]
  BY <1>3, Zenon DEF RotateKeysSend
<1> HIDE DEF g, root
<1>5. RotateKeysSend(m, p).root_key = root
  BY <1>2, <1>4 DEF Manager
<1>6. RotateKeysSend(m, p).chain_s = [root |-> root, n |-> 0]
  BY <1>2, <1>4 DEF Manager
<1>7. LET r == RotateKeysSend(m, p)
      IN /\ r.i = g.i + 1 /\ r.j = g.j /\ r.k = g.k /\ r.pn = g.pn
         /\ r.our_ecdh = g.our_ecdh /\ r.our_dh = g.our_dh
         /\ r.their_ecdh = g.their_ecdh /\ r.their_dh = g.their_dh
         /\ r.brace_key = ZeroBrace /\ r.old_mac_keys = g.old_mac_keys
         /\ r.chain_r = g.chain_r /\ r.skipped_keys = g.skipped_keys
  BY <1>2, <1>4 DEF Manager
<1>8. LET r == RotateKeysSend(m, p)
      IN /\ r.ecdh_priv = g.ecdh_priv /\ r.dh_priv = g.dh_priv
         /\ r.dangling = g.dangling
  BY <1>2, <1>4, Zenon DEF Manager
<1> QED
  BY <1>1, <1>5, <1>6, <1>7, <1>8, Zenon DEF root

\* Sending a message advances the sending chain and the message counter; the MAC
\* keys kept so far leave the manager with the first message of a ratchet.
LEMMA SendDataFields ==
  ASSUME NEW m \in Manager, NEW p \in Peer
  PROVE  LET r == SendKeys(m, p)
             d == SendData(m, p)
         IN /\ d.i = r.i /\ d.j = r.j + 1 /\ d.k = r.k /\ d.pn = r.pn
            /\ d.our_ecdh = r.our_ecdh /\ d.ecdh_priv = r.ecdh_priv
            /\ d.our_dh = r.our_dh /\ d.dh_priv = r.dh_priv
            /\ d.their_ecdh = r.their_ecdh /\ d.their_dh = r.their_dh
            /\ d.brace_key = r.brace_key /\ d.root_key = r.root_key
            /\ d.chain_s = NextChainKey(r.chain_s)
            /\ d.chain_r = r.chain_r /\ d.skipped_keys = r.skipped_keys
            /\ d.dangling = r.dangling
            /\ d.old_mac_keys = IF m.j = 0 THEN {} ELSE r.old_mac_keys
<1> DEFINE r == SendKeys(m, p)
<1>1. r \in Manager
  BY SendKeysType
<1>2. SendData(m, p) = [r EXCEPT !.chain_s = NextChainKey(@),
                                 !.old_mac_keys = IF m.j = 0 THEN {} ELSE @,
                                 !.j = @ + 1]
  BY Zenon DEF SendData
<1> HIDE DEF r
<1>3. LET d == SendData(m, p)
      IN /\ d.i = r.i /\ d.j = r.j + 1 /\ d.k = r.k /\ d.pn = r.pn
         /\ d.our_ecdh = r.our_ecdh /\ d.our_dh = r.our_dh
         /\ d.their_ecdh = r.their_ecdh /\ d.their_dh = r.their_dh
         /\ d.brace_key = r.brace_key /\ d.root_key = r.root_key
         /\ d.chain_s = NextChainKey(r.chain_s)
         /\ d.chain_r = r.chain_r /\ d.skipped_keys = r.skipped_keys
         /\ d.old_mac_keys = IF m.j = 0 THEN {} ELSE r.old_mac_keys
  BY <1>1, <1>2 DEF Manager
<1>4. LET d == SendData(m, p)
      IN /\ d.ecdh_priv = r.ecdh_priv /\ d.dh_priv = r.dh_priv
         /\ d.dangling = r.dangling
  BY <1>1, <1>2, Zenon DEF Manager
<1> QED
  BY <1>3, <1>4, Zenon DEF r

\* The fields that storing skipped keys does not touch.
SameRatchet(a, b) ==
  /\ a.i = b.i /\ a.j = b.j /\ a.pn = b.pn
  /\ a.our_ecdh = b.our_ecdh /\ a.ecdh_priv = b.ecdh_priv
  /\ a.our_dh = b.our_dh /\ a.dh_priv = b.dh_priv
  /\ a.their_ecdh = b.their_ecdh /\ a.their_dh = b.their_dh
  /\ a.brace_key = b.brace_key /\ a.root_key = b.root_key
  /\ a.chain_s = b.chain_s
  /\ a.dangling = b.dangling /\ a.old_mac_keys = b.old_mac_keys

\* The keys that a gap up to until puts into the store.
GapKeys(m, until, label) ==
  {[ecdh |-> label, k |-> n, key |-> ChainKeyAt(m, n)] : n \in m.k .. (until - 1)}

\* Storing skipped keys either does nothing or moves the receiving chain over the
\* gap and files its keys.
LEMMA StoreEncKeysFields ==
  ASSUME NEW m \in Manager, NEW until \in Nat, NEW label \in PubKey
  PROVE  LET r == StoreEncKeys(m, until, label)
         IN /\ SameRatchet(r, m)
            /\ \/ r = m /\ (\/ m.k + MaxSkip < until
                            \/ m.chain_r = EmptyChain
                            \/ until <= m.k)
               \/ /\ m.k < until /\ m.chain_r # EmptyChain
                  /\ r.skipped_keys = m.skipped_keys \cup GapKeys(m, until, label)
                  /\ r.chain_r = ChainKeyAt(m, until)
                  /\ r.k = until
<1> DEFINE r == [m EXCEPT !.skipped_keys = @ \cup GapKeys(m, until, label),
                          !.chain_r = ChainKeyAt(m, until),
                          !.k = until]
<1>1. StoreEncKeys(m, until, label) =
        IF m.k + MaxSkip < until \/ m.chain_r = EmptyChain \/ until <= m.k
          THEN m ELSE r
  BY Zenon DEF StoreEncKeys, GapKeys
<1> DEFINE gap == GapKeys(m, until, label)
<1> HIDE DEF gap
<1>2. SameRatchet(m, m)
  BY DEF SameRatchet
<1>3. /\ r.i = m.i /\ r.j = m.j /\ r.pn = m.pn
      /\ r.our_ecdh = m.our_ecdh /\ r.our_dh = m.our_dh
      /\ r.their_ecdh = m.their_ecdh /\ r.their_dh = m.their_dh
      /\ r.brace_key = m.brace_key /\ r.root_key = m.root_key
      /\ r.chain_s = m.chain_s /\ r.old_mac_keys = m.old_mac_keys
  BY Zenon DEF Manager
<1>4. r.ecdh_priv = m.ecdh_priv /\ r.dh_priv = m.dh_priv /\ r.dangling = m.dangling
  BY Zenon DEF Manager
<1>5. /\ r.skipped_keys = m.skipped_keys \cup GapKeys(m, until, label)
      /\ r.chain_r = ChainKeyAt(m, until)
      /\ r.k = until
  BY Zenon DEF Manager
<1> HIDE DEF r
<1>6. SameRatchet(r, m)
  BY <1>3, <1>4, Zenon DEF SameRatchet
<1>7. m.k \in Nat
  BY DEF Manager
<1>8. ~(until <= m.k) => m.k < until
  BY <1>7
<1> QED
  BY <1>1, <1>2, <1>5, <1>6, <1>8, Zenon

\* A receiving rotation: the root key is extended by the secret of the sender's
\* new key, the own ECDH private key is erased and the counters start again.
LEMMA RotateKeysReceiveFields ==
  ASSUME NEW m \in Manager, NEW tmp \in Manager
  PROVE  LET r    == RotateKeysReceive(m, tmp)
             root == EnterNewRatchet(m, tmp.their_ecdh, tmp.their_dh)
         IN /\ r.i = tmp.i + 1 /\ r.j = 0 /\ r.k = 0 /\ r.pn = tmp.j
            /\ r.our_ecdh = tmp.our_ecdh /\ r.ecdh_priv = FALSE
            /\ r.our_dh = tmp.our_dh
            /\ r.dh_priv = IF tmp.i % 3 = 0 THEN FALSE ELSE tmp.dh_priv
            /\ r.their_ecdh = tmp.their_ecdh /\ r.their_dh = tmp.their_dh
            /\ r.brace_key = ZeroBrace /\ r.root_key = root
            /\ r.chain_s = tmp.chain_s /\ r.chain_r = [root |-> root, n |-> 0]
            /\ r.skipped_keys = tmp.skipped_keys
            /\ r.dangling = tmp.dangling /\ r.old_mac_keys = tmp.old_mac_keys
<1> DEFINE root == EnterNewRatchet(m, tmp.their_ecdh, tmp.their_dh)
<1>1. RotateKeysReceive(m, tmp) =
        [tmp EXCEPT !.root_key = root,
                 !.chain_r = [root |-> root, n |-> 0],
                 !.brace_key = ZeroBrace,
                 !.ecdh_priv = FALSE,
                 !.dh_priv = IF tmp.i % 3 = 0 THEN FALSE ELSE @,
                 !.pn = tmp.j, !.j = 0, !.k = 0, !.i = @ + 1]
  BY DEF RotateKeysReceive
<1> HIDE DEF root
<1>2. LET r == RotateKeysReceive(m, tmp)
      IN /\ r.i = tmp.i + 1 /\ r.j = 0 /\ r.k = 0 /\ r.pn = tmp.j
         /\ r.our_ecdh = tmp.our_ecdh /\ r.our_dh = tmp.our_dh
         /\ r.their_ecdh = tmp.their_ecdh /\ r.their_dh = tmp.their_dh
         /\ r.brace_key = ZeroBrace /\ r.root_key = root
         /\ r.chain_s = tmp.chain_s /\ r.chain_r = [root |-> root, n |-> 0]
         /\ r.skipped_keys = tmp.skipped_keys
         /\ r.old_mac_keys = tmp.old_mac_keys
  BY <1>1 DEF Manager
<1>3. LET r == RotateKeysReceive(m, tmp)
      IN /\ r.ecdh_priv = FALSE
         /\ r.dh_priv = IF tmp.i % 3 = 0 THEN FALSE ELSE tmp.dh_priv
         /\ r.dangling = tmp.dangling
  BY <1>1, ZenonT(60) DEF Manager
<1> QED
  BY <1>2, <1>3, Zenon DEF root

\* The temporary ratchet holds the sender's keys and is otherwise the manager.
LEMMA ReceivingRatchetFields ==
  ASSUME NEW m \in Manager, NEW msg \in Header
  PROVE  LET r == ReceivingRatchet(m, msg)
         IN /\ r.i = m.i /\ r.j = m.j /\ r.k = m.k /\ r.pn = m.pn
            /\ r.our_ecdh = m.our_ecdh /\ r.ecdh_priv = m.ecdh_priv
            /\ r.our_dh = m.our_dh /\ r.dh_priv = m.dh_priv
            /\ r.their_ecdh = msg.ecdh /\ r.their_dh = msg.dh
            /\ r.brace_key = m.brace_key /\ r.root_key = m.root_key
            /\ r.chain_s = m.chain_s /\ r.chain_r = m.chain_r
            /\ r.skipped_keys = m.skipped_keys
            /\ r.dangling = m.dangling /\ r.old_mac_keys = m.old_mac_keys
  BY Zenon DEF ReceivingRatchet, Manager

\* What deriving the chain keys of a message does outside the receiving chain.
LEMMA DeriveChainKeysFields ==
  ASSUME NEW m \in Manager, NEW msg \in Header
  PROVE  LET r == DeriveChainKeys(m, msg)
         IN /\ r.their_ecdh = msg.ecdh /\ r.their_dh = msg.dh
            /\ r.our_ecdh = m.our_ecdh /\ r.our_dh = m.our_dh
            /\ r.chain_s = m.chain_s
            /\ r.dangling = m.dangling /\ r.old_mac_keys = m.old_mac_keys
            /\ IsNewRatchet(m, msg) =>
                 /\ r.i = m.i + 1 /\ r.j = 0 /\ r.pn = m.j
                 /\ r.ecdh_priv = FALSE
                 /\ r.dh_priv = IF m.i % 3 = 0 THEN FALSE ELSE m.dh_priv
                 /\ r.brace_key = ZeroBrace
                 /\ r.root_key = EnterNewRatchet(m, msg.ecdh, msg.dh)
            /\ ~IsNewRatchet(m, msg) =>
                 /\ r.i = m.i /\ r.j = m.j /\ r.pn = m.pn
                 /\ r.ecdh_priv = m.ecdh_priv /\ r.dh_priv = m.dh_priv
                 /\ r.brace_key = m.brace_key /\ r.root_key = m.root_key
<1> DEFINE tmp == ReceivingRatchet(m, msg)
           gap == StoreEncKeys(tmp, msg.previous_chain_n, m.their_ecdh)
           rot == RotateKeysReceive(m, gap)
           d   == DeriveDhRatchetKeys(m, msg)
           r   == DeriveChainKeys(m, msg)
<1>1. /\ msg.previous_chain_n \in Nat /\ msg.message_id \in Nat
      /\ m.their_ecdh \in PubKey
  BY DEF Header, Manager
<1>2. tmp \in Manager /\ d \in Manager
  BY ReceivingRatchetType, DeriveDhRatchetKeysType
<1>3. SameRatchet(gap, tmp) /\ gap \in Manager
  BY <1>1, <1>2, StoreEncKeysFields, StoreEncKeysType
<1>4. SameRatchet(r, d)
  <2>1. d.their_ecdh \in PubKey
    BY <1>2 DEF Manager
  <2>2. r = StoreEncKeys(d, msg.message_id, d.their_ecdh)
    BY Zenon DEF DeriveChainKeys
  <2> QED
    BY <1>1, <1>2, <2>1, <2>2, StoreEncKeysFields
<1>5. d = IF IsNewRatchet(m, msg) THEN rot ELSE tmp
  BY Zenon DEF DeriveDhRatchetKeys
<1> DEFINE root == EnterNewRatchet(m, gap.their_ecdh, gap.their_dh)
<1>6. /\ rot.i = gap.i + 1 /\ rot.j = 0 /\ rot.pn = gap.j
      /\ rot.our_ecdh = gap.our_ecdh /\ rot.ecdh_priv = FALSE
      /\ rot.our_dh = gap.our_dh
      /\ rot.dh_priv = IF gap.i % 3 = 0 THEN FALSE ELSE gap.dh_priv
      /\ rot.their_ecdh = gap.their_ecdh /\ rot.their_dh = gap.their_dh
      /\ rot.brace_key = ZeroBrace /\ rot.root_key = root
      /\ rot.chain_s = gap.chain_s
      /\ rot.dangling = gap.dangling /\ rot.old_mac_keys = gap.old_mac_keys
  BY <1>3, RotateKeysReceiveFields, Zenon
<1>7. /\ tmp.i = m.i /\ tmp.j = m.j /\ tmp.pn = m.pn
      /\ tmp.our_ecdh = m.our_ecdh /\ tmp.ecdh_priv = m.ecdh_priv
      /\ tmp.our_dh = m.our_dh /\ tmp.dh_priv = m.dh_priv
      /\ tmp.their_ecdh = msg.ecdh /\ tmp.their_dh = msg.dh
      /\ tmp.brace_key = m.brace_key /\ tmp.root_key = m.root_key
      /\ tmp.chain_s = m.chain_s
      /\ tmp.dangling = m.dangling /\ tmp.old_mac_keys = m.old_mac_keys
  BY ReceivingRatchetFields, Zenon
<1> HIDE DEF tmp, gap, rot, d, r
<1>8. CASE IsNewRatchet(m, msg)
  <2>1. /\ gap.i = m.i /\ gap.j = m.j
        /\ gap.our_ecdh = m.our_ecdh /\ gap.our_dh = m.our_dh
        /\ gap.dh_priv = m.dh_priv
        /\ gap.their_ecdh = msg.ecdh /\ gap.their_dh = msg.dh
        /\ gap.chain_s = m.chain_s
        /\ gap.dangling = m.dangling /\ gap.old_mac_keys = m.old_mac_keys
    BY <1>3, <1>7, Zenon DEF SameRatchet
  <2>2. root = EnterNewRatchet(m, msg.ecdh, msg.dh)
    BY <2>1
  <2>3. SameRatchet(r, rot)
    BY <1>4, <1>5, <1>8
  <2>4. rot.dh_priv = IF m.i % 3 = 0 THEN FALSE ELSE m.dh_priv
    BY <1>6, <2>1, Zenon
  <2> HIDE DEF root
  <2>5. /\ rot.i = m.i + 1 /\ rot.j = 0 /\ rot.pn = m.j
        /\ rot.our_ecdh = m.our_ecdh /\ rot.ecdh_priv = FALSE
        /\ rot.our_dh = m.our_dh
        /\ rot.their_ecdh = msg.ecdh /\ rot.their_dh = msg.dh
        /\ rot.brace_key = ZeroBrace /\ rot.root_key = root
        /\ rot.chain_s = m.chain_s
        /\ rot.dangling = m.dangling /\ rot.old_mac_keys = m.old_mac_keys
    BY <1>6, <2>1, Zenon
  <2> QED
    BY <1>8, <2>2, <2>3, <2>4, <2>5, Zenon DEF SameRatchet, r
<1>9. CASE ~IsNewRatchet(m, msg)
  BY <1>4, <1>5, <1>7, <1>9, Zenon DEF SameRatchet, r
<1> QED
  BY <1>8, <1>9, Zenon

\* What receiving a message does outside the receiving chain.
LEMMA ReceiveRatchetFields ==
  ASSUME NEW m \in Manager, NEW msg \in Header
  PROVE  LET r == ReceiveRatchet(m, msg)
         IN /\ r.their_ecdh = msg.ecdh /\ r.their_dh = msg.dh
            /\ r.our_ecdh = m.our_ecdh /\ r.our_dh = m.our_dh
            /\ r.chain_s = m.chain_s
            /\ r.dangling = m.dangling /\ r.old_mac_keys = m.old_mac_keys
            /\ IsNewRatchet(m, msg) =>
                 /\ r.i = m.i + 1 /\ r.j = 0 /\ r.pn = m.j
                 /\ r.ecdh_priv = FALSE
                 /\ r.dh_priv = IF m.i % 3 = 0 THEN FALSE ELSE m.dh_priv
                 /\ r.brace_key = ZeroBrace
                 /\ r.root_key = EnterNewRatchet(m, msg.ecdh, msg.dh)
            /\ ~IsNewRatchet(m, msg) =>
                 /\ r.i = m.i /\ r.j = m.j /\ r.pn = m.pn
                 /\ r.ecdh_priv = m.ecdh_priv /\ r.dh_priv = m.dh_priv
                 /\ r.brace_key = m.brace_key /\ r.root_key = m.root_key
<1> DEFINE tmp  == ReceivingRatchet(m, msg)
           next == DeriveChainKeys(m, msg)
           rest == tmp.skipped_keys \ {CHOOSE s \in SkippedFor(m, msg) : TRUE}
           a    == [tmp EXCEPT !.skipped_keys = rest]
           b    == [next EXCEPT !.chain_r = NextChainKey(@), !.k = @ + 1]
<1>1. tmp \in Manager /\ next \in Manager
  BY ReceivingRatchetType, DeriveChainKeysType
<1>2. ReceiveRatchet(m, msg) = IF SkippedFor(m, msg) # {} THEN a ELSE b
  BY Zenon DEF ReceiveRatchet
<1>3. SkippedFor(m, msg) # {} => ~IsNewRatchet(m, msg)
  BY DEF IsNewRatchet
<1> HIDE DEF rest
<1>4. SameRatchet(a, tmp)
  <2> HIDE DEF tmp
  <2> QED
    BY <1>1, Zenon DEF SameRatchet, Manager
<1>5. SameRatchet(b, next)
  <2> HIDE DEF next
  <2> QED
    BY <1>1, Zenon DEF SameRatchet, Manager
<1> HIDE DEF a, b
<1>6. CASE SkippedFor(m, msg) # {}
  <2>1. SameRatchet(ReceiveRatchet(m, msg), tmp)
    BY <1>2, <1>4, <1>6
  <2> HIDE DEF tmp
  <2>2. LET r == ReceiveRatchet(m, msg)
        IN /\ r.their_ecdh = msg.ecdh /\ r.their_dh = msg.dh
           /\ r.our_ecdh = m.our_ecdh /\ r.our_dh = m.our_dh
           /\ r.chain_s = m.chain_s
           /\ r.dangling = m.dangling /\ r.old_mac_keys = m.old_mac_keys
           /\ r.i = m.i /\ r.j = m.j /\ r.pn = m.pn
           /\ r.ecdh_priv = m.ecdh_priv /\ r.dh_priv = m.dh_priv
           /\ r.brace_key = m.brace_key /\ r.root_key = m.root_key
    BY <2>1, ReceivingRatchetFields, Zenon DEF SameRatchet, tmp
  <2> QED
    BY <1>3, <1>6, <2>2, Zenon
<1>7. CASE SkippedFor(m, msg) = {}
  <2>1. SameRatchet(ReceiveRatchet(m, msg), next)
    BY <1>2, <1>5, <1>7
  <2> HIDE DEF next
  <2> QED
    BY <2>1, DeriveChainKeysFields, Zenon DEF SameRatchet, next
<1> QED
  BY <1>6, <1>7

\* What receiving a message does to the receiving chain.
LEMMA ReceiveRatchetChain ==
  ASSUME NEW m \in Manager, NEW msg \in Header
  PROVE  LET r == ReceiveRatchet(m, msg)
             d == DeriveChainKeys(m, msg)
         IN /\ SkippedFor(m, msg) # {} =>
                 /\ r.chain_r = m.chain_r /\ r.k = m.k
                 /\ r.skipped_keys = m.skipped_keys \
                                       {CHOOSE s \in SkippedFor(m, msg) : TRUE}
            /\ SkippedFor(m, msg) = {} =>
                 /\ r.chain_r = NextChainKey(d.chain_r) /\ r.k = d.k + 1
                 /\ r.skipped_keys = d.skipped_keys
<1> DEFINE tmp  == ReceivingRatchet(m, msg)
           next == DeriveChainKeys(m, msg)
           old  == CHOOSE s \in SkippedFor(m, msg) : TRUE
<1>1. tmp \in Manager /\ next \in Manager
  BY ReceivingRatchetType, DeriveChainKeysType
<1>2. tmp.chain_r = m.chain_r /\ tmp.k = m.k /\ tmp.skipped_keys = m.skipped_keys
  BY ReceivingRatchetFields
<1>3. ReceiveRatchet(m, msg) = IF SkippedFor(m, msg) # {}
        THEN [tmp EXCEPT !.skipped_keys = @ \ {old}]
        ELSE [next EXCEPT !.chain_r = NextChainKey(@), !.k = @ + 1]
  BY Zenon DEF ReceiveRatchet
<1> HIDE DEF tmp, next, old
<1>4. CASE SkippedFor(m, msg) # {}
  <2>1. LET a == [tmp EXCEPT !.skipped_keys = @ \ {old}]
        IN /\ a.chain_r = tmp.chain_r /\ a.k = tmp.k
           /\ a.skipped_keys = tmp.skipped_keys \ {old}
    BY <1>1, Zenon DEF Manager
  <2> QED
    BY <1>2, <1>3, <1>4, <2>1, Zenon DEF old
<1>5. CASE SkippedFor(m, msg) = {}
  <2>1. LET b == [next EXCEPT !.chain_r = NextChainKey(@), !.k = @ + 1]
        IN /\ b.chain_r = NextChainKey(next.chain_r) /\ b.k = next.k + 1
           /\ b.skipped_keys = next.skipped_keys
    BY <1>1, Zenon DEF Manager
  <2> QED
    BY <1>3, <1>5, <2>1, Zenon DEF next
<1> QED
  BY <1>4, <1>5

\* A rejected message leaves all but the DH private key and the freed store.
LEMMA RejectMessageFields ==
  ASSUME NEW m \in Manager, NEW msg \in Header
  PROVE  LET r == RejectMessage(m, msg)
         IN /\ r.i = m.i /\ r.j = m.j /\ r.k = m.k /\ r.pn = m.pn
            /\ r.our_ecdh = m.our_ecdh /\ r.ecdh_priv = m.ecdh_priv
            /\ r.our_dh = m.our_dh
            /\ r.their_ecdh = m.their_ecdh /\ r.their_dh = m.their_dh
            /\ r.brace_key = m.brace_key /\ r.root_key = m.root_key
            /\ r.chain_s = m.chain_s /\ r.chain_r = m.chain_r
            /\ r.skipped_keys = m.skipped_keys
            /\ r.old_mac_keys = m.old_mac_keys
  BY Zenon DEF RejectMessage, Manager
=============================================================================
