------------------------- MODULE RatchetsInStepProofs -------------------------
(***************************************************************************)
(* The two peers stay in step: the theorems that relate the two managers   *)
(* and the messages between them, up to the channel that the ratchets      *)
(* make.  They hold in a network that loses and reorders, as long as no    *)
(* ratchet has a gap wider than MaxSkip; the runs late and reject show     *)
(* what happens when older ratchets, duplicates or corrupted messages are  *)
(* delivered.  That the two directions use different keys holds in every   *)
(* network.                                                                *)
(***************************************************************************)
EXTENDS DoubleRatchetProofs

\* The networks the theorems are about.
Benign ==
  /\ Faults \subseteq {"lose", "reorder"}
  /\ MaxMessages <= MaxSkip + 1

-----------------------------------------------------------------------------
(***************************************************************************)
(* The inductive invariant.  m is the manager of p, o that of the other    *)
(* peer and M the messages on their way to p.                              *)
(***************************************************************************)

\* One manager: it has no freed list, a sender's chain starts at its root key
\* and is as long as its counter, the private key of a ratchet it has started
\* is there, and a peer that was heard of has a receiving chain.
Healthy(m) ==
  /\ ~m.dangling
  /\ m.brace_key = ZeroBrace
  /\ m.j > 0 => m.chain_s = [root |-> m.root_key, n |-> m.j] /\ m.our_ecdh[2] > 0
  /\ m.j > 0 \/ m.i = 0 => m.ecdh_priv
  /\ m.their_ecdh[2] > 0 => m.chain_r.root # <<>>

\* Peers with equal counters share the root key, know each other's key, and one
\* of them is the sender of the ratchet.  The one that receives on the next
\* third ratchet still has its DH private key.
Even(m, o) ==
  m.i = o.i =>
    /\ m.root_key = o.root_key
    /\ m.their_ecdh = o.our_ecdh
    /\ m.j = 0 \/ o.j = 0
    /\ m.i > 0 => m.j > 0 \/ o.j > 0
    /\ m.i = 0 \/ (IF m.j = 0 THEN m.i % 3 = 2 ELSE m.i % 3 # 2) => m.dh_priv

\* A peer that is one ratchet behind would enter the other's root key with the
\* other's keys, and does not start a ratchet itself.
OneBehind(p, m, o) ==
  o.i = m.i + 1 =>
    /\ m.j > 0 \/ (m.i = 0 /\ p = "u")
    /\ o.j > 0
    /\ o.their_ecdh = m.our_ecdh
    /\ m.their_ecdh[2] < o.our_ecdh[2]
    /\ o.root_key = EnterNewRatchet(m, o.our_ecdh, o.our_dh)
    /\ m.i % 3 # 2 => m.dh_priv
    /\ m.i % 3 # 1 => o.dh_priv

\* The receiving chain that belongs to the other peer's current key.
Linked(m, o) ==
  m.their_ecdh = o.our_ecdh =>
    /\ m.their_dh = o.our_dh
    /\ o.j > 0 => m.chain_r.root = o.root_key /\ m.k <= o.j

\* The messages on their way to p: those of the current ratchet are sealed with
\* the key at their place of p's receiving chain, which is ahead or stored; those
\* of a newer ratchet with the key at their place of the sender's new chain.
OnWire(m, o, M) ==
  /\ \A x \in M :
       /\ x.intact
       /\ x.ecdh[1] = o.our_ecdh[1]
       /\ 0 < x.ecdh[2] /\ x.ecdh[2] <= o.our_ecdh[2]
       /\ x.message_id <= MaxSkip
       /\ x.ecdh = o.our_ecdh /\ o.j > 0 => x.message_id < o.j
       /\ x.ecdh = m.their_ecdh =>
            /\ x.dh = m.their_dh
            /\ x.key = [root |-> m.chain_r.root, n |-> x.message_id]
            /\ \/ m.k <= x.message_id
               \/ \E s \in m.skipped_keys : s.ecdh = x.ecdh /\ s.k = x.message_id
       /\ m.their_ecdh[2] < x.ecdh[2] =>
            /\ o.i = m.i + 1
            /\ x.ecdh = o.our_ecdh /\ x.dh = o.our_dh
            /\ x.key = [root |-> o.root_key, n |-> x.message_id]
  /\ \A x, y \in M : x.ecdh = y.ecdh /\ x.message_id = y.message_id => x = y

\* Everything p's side of the conversation must satisfy.
Side(p, m, o, M) ==
  /\ m \in Manager /\ M \in SUBSET Message
  /\ FreshKeys(m, p) /\ Labelled(m, m.their_ecdh)
  /\ Healthy(m)
  /\ m.i <= o.i + 1
  /\ Even(m, o)
  /\ OneBehind(p, m, o)
  /\ Linked(m, o)
  /\ OnWire(m, o, M)

\* Both sides, and "u" sends nothing before it has received something.
PeersInStep ==
  /\ \A p \in Peer : Side(p, keys[p], keys[Other(p)], net[p])
  /\ state["u"] = "ENCRYPTED_MESSAGES" => keys["u"].i > 0

-----------------------------------------------------------------------------
(***************************************************************************)
(* What receiving a message that is not late does.                         *)
(***************************************************************************)

\* A chain key is determined by its root and its position.
LEMMA ChainKeyIs ==
  ASSUME NEW c \in ChainKey
  PROVE  c = [root |-> c.root, n |-> c.n]
  BY DEF ChainKey

\* A gap that is not too wide is closed: the chain stands at until, the store
\* has kept what it had and has a key for every message of the gap.
LEMMA StoreUpTo ==
  ASSUME NEW m \in Manager, NEW until \in Nat, NEW label \in PubKey,
         m.chain_r.n = m.k, m.chain_r.root # <<>>,
         m.k <= until, until <= MaxSkip
  PROVE  LET r == StoreEncKeys(m, until, label)
         IN /\ r.chain_r = [root |-> m.chain_r.root, n |-> until]
            /\ r.k = until
            /\ m.skipped_keys \subseteq r.skipped_keys
            /\ \A n \in m.k .. (until - 1) :
                 \E s \in r.skipped_keys : s.ecdh = label /\ s.k = n
<1> DEFINE r == StoreEncKeys(m, until, label)
<1>1. m.k \in Nat /\ m.chain_r \in ChainKey /\ MaxSkip \in Nat
  BY MaxSkipAssumption DEF Manager
<1>2. ~(m.k + MaxSkip < until) /\ m.chain_r # EmptyChain
  BY <1>1 DEF EmptyChain
<1>3. CASE until <= m.k
  <2>1. r = m
    BY <1>3, Zenon DEF StoreEncKeys
  <2>2. m.k = until /\ m.k .. (until - 1) = {}
    BY <1>1, <1>3
  <2>3. m.chain_r = [root |-> m.chain_r.root, n |-> until]
    BY <1>1, <2>2, ChainKeyIs
  <2> HIDE DEF r
  <2>4. /\ r.chain_r = [root |-> m.chain_r.root, n |-> until]
        /\ r.k = until
        /\ m.skipped_keys \subseteq r.skipped_keys
        /\ \A n \in m.k .. (until - 1) :
             \E s \in r.skipped_keys : s.ecdh = label /\ s.k = n
    BY <2>1, <2>2, <2>3
  <2> QED
    BY <2>4 DEF r
<1>4. CASE ~(until <= m.k)
  <2>1. /\ r.skipped_keys = m.skipped_keys \cup GapKeys(m, until, label)
        /\ r.chain_r = ChainKeyAt(m, until)
        /\ r.k = until
    BY <1>2, <1>4, StoreEncKeysFields
  <2>2. /\ r.chain_r \in ChainKey /\ r.chain_r.root = m.chain_r.root
        /\ r.chain_r.n = m.chain_r.n + (until - m.k)
    BY <2>1, ChainKeyAtType
  <2>3. r.chain_r = [root |-> m.chain_r.root, n |-> until]
    <3>1. r.chain_r.n = until
      BY <1>1, <2>2
    <3> HIDE DEF r
    <3> QED
      BY <2>2, <3>1, ChainKeyIs
  <2>4. \A n \in m.k .. (until - 1) :
           \E s \in GapKeys(m, until, label) : s.ecdh = label /\ s.k = n
    <3> TAKE n \in m.k .. (until - 1)
    <3> DEFINE s == [ecdh |-> label, k |-> n, key |-> ChainKeyAt(m, n)]
    <3>1. s \in GapKeys(m, until, label)
      BY DEF GapKeys
    <3> QED
      BY <3>1
  <2> HIDE DEF r
  <2>5. /\ r.chain_r = [root |-> m.chain_r.root, n |-> until]
        /\ r.k = until
        /\ m.skipped_keys \subseteq r.skipped_keys
        /\ \A n \in m.k .. (until - 1) :
             \E s \in r.skipped_keys : s.ecdh = label /\ s.k = n
    BY <2>1, <2>3, <2>4
  <2> QED
    BY <2>5 DEF r
<1> QED
  BY <1>3, <1>4

\* A message that a stored key answers for is decrypted with that key.
LEMMA KeyFromStore ==
  ASSUME NEW m \in Manager, NEW msg \in Header,
         Labelled(m, m.their_ecdh), msg.ecdh = m.their_ecdh,
         SkippedFor(m, msg) # {}
  PROVE  ReceiveKey(m, msg) = [root |-> m.chain_r.root, n |-> msg.message_id]
<1> DEFINE s == CHOOSE s \in SkippedFor(m, msg) : TRUE
<1>1. s \in m.skipped_keys /\ s.ecdh = m.their_ecdh /\ s.k = msg.message_id
  BY DEF SkippedFor
<1>2. ReceiveKey(m, msg) = s.key
  BY DEF ReceiveKey
<1> HIDE DEF s
<1>3. s.key \in ChainKey
  BY <1>1 DEF Manager, SkippedKey
<1>4. s.key.root = m.chain_r.root /\ s.key.n = msg.message_id
  BY <1>1 DEF Labelled
<1> QED
  BY <1>2, <1>3, <1>4, ChainKeyIs

\* What is left of the receiving chain after the keys up to the message's own
\* one were derived and that one was used.
LEMMA KeyFromChain ==
  ASSUME NEW m \in Manager, NEW msg \in Header, NEW d \in Manager,
         d = DeriveDhRatchetKeys(m, msg), SkippedFor(m, msg) = {},
         d.chain_r.n = d.k, d.chain_r.root # <<>>,
         d.k <= msg.message_id, msg.message_id <= MaxSkip
  PROVE  LET r == ReceiveRatchet(m, msg)
         IN /\ ReceiveKey(m, msg) = [root |-> d.chain_r.root, n |-> msg.message_id]
            /\ r.chain_r.root = d.chain_r.root
            /\ r.k = msg.message_id + 1
            /\ d.skipped_keys \subseteq r.skipped_keys
            /\ \A n \in d.k .. (msg.message_id - 1) :
                 \E s \in r.skipped_keys : s.ecdh = msg.ecdh /\ s.k = n
<1> DEFINE c  == DeriveChainKeys(m, msg)
           r  == ReceiveRatchet(m, msg)
           id == msg.message_id
<1>1. id \in Nat /\ d.their_ecdh \in PubKey
  BY DEF Header, Manager
<1>2. c = StoreEncKeys(d, id, d.their_ecdh)
  BY DEF DeriveChainKeys
<1>3. d.their_ecdh = msg.ecdh
  <2>1. SameRatchet(c, d)
    BY <1>1, <1>2, StoreEncKeysFields
  <2>2. c.their_ecdh = msg.ecdh
    BY DeriveChainKeysFields
  <2> QED
    BY <2>1, <2>2 DEF SameRatchet
<1>4. /\ c.chain_r = [root |-> d.chain_r.root, n |-> id]
      /\ c.k = id
      /\ d.skipped_keys \subseteq c.skipped_keys
      /\ \A n \in d.k .. (id - 1) :
           \E s \in c.skipped_keys : s.ecdh = d.their_ecdh /\ s.k = n
  BY <1>1, <1>2, StoreUpTo
<1>5. /\ r.chain_r = NextChainKey(c.chain_r) /\ r.k = c.k + 1
      /\ r.skipped_keys = c.skipped_keys
  BY ReceiveRatchetChain
<1>6. ReceiveKey(m, msg) = c.chain_r
  BY DEF ReceiveKey
<1>7. c.chain_r \in ChainKey
  BY DeriveChainKeysType DEF Manager
<1> HIDE DEF c, r
<1>8. r.chain_r.root = d.chain_r.root
  BY <1>4, <1>5, <1>7, NextChainKeyType
<1>9. /\ ReceiveKey(m, msg) = [root |-> d.chain_r.root, n |-> id]
      /\ r.chain_r.root = d.chain_r.root
      /\ r.k = id + 1
      /\ d.skipped_keys \subseteq r.skipped_keys
      /\ \A n \in d.k .. (id - 1) :
           \E s \in r.skipped_keys : s.ecdh = msg.ecdh /\ s.k = n
  BY <1>3, <1>4, <1>5, <1>6, <1>8
<1> QED
  BY <1>9 DEF r

\* The step to a new ratchet starts its chain at the new root key.
LEMMA NewRatchetChain ==
  ASSUME NEW m \in Manager, NEW msg \in Header, IsNewRatchet(m, msg)
  PROVE  LET d == DeriveDhRatchetKeys(m, msg)
         IN /\ d \in Manager
            /\ d.k = 0 /\ d.chain_r.n = 0
            /\ d.chain_r.root = EnterNewRatchet(m, msg.ecdh, msg.dh)
            /\ d.chain_r.root # <<>>
<1> DEFINE tmp  == ReceivingRatchet(m, msg)
           gap  == StoreEncKeys(tmp, msg.previous_chain_n, m.their_ecdh)
           rot  == RotateKeysReceive(m, gap)
           root == EnterNewRatchet(m, msg.ecdh, msg.dh)
<1>1. /\ tmp \in Manager /\ m.their_ecdh \in PubKey
      /\ msg.previous_chain_n \in Nat
      /\ msg.ecdh \in PubKey /\ msg.dh \in PubKey
  BY ReceivingRatchetType DEF Header, Manager
<1>2. gap \in Manager /\ SameRatchet(gap, tmp)
  BY <1>1, StoreEncKeysType, StoreEncKeysFields
<1>3. gap.their_ecdh = msg.ecdh /\ gap.their_dh = msg.dh
  BY <1>2, ReceivingRatchetFields DEF SameRatchet
<1>4. DeriveDhRatchetKeys(m, msg) = rot
  BY Zenon DEF DeriveDhRatchetKeys
<1> HIDE DEF gap
<1>5. rot \in Manager /\ rot.k = 0 /\ rot.chain_r = [root |-> root, n |-> 0]
  <2>1. /\ rot.k = 0
        /\ rot.chain_r = [root |-> EnterNewRatchet(m, gap.their_ecdh, gap.their_dh),
                          n |-> 0]
    BY <1>2, RotateKeysReceiveFields, Zenon
  <2>2. rot \in Manager
    BY <1>2, RotateKeysReceiveType
  <2> HIDE DEF rot
  <2> QED
    BY <1>3, <2>1, <2>2
<1>6. root # <<>>
  <2>1. root \in Seq(Secret) /\ Len(root) = Len(m.root_key) + 1
    BY <1>1, EnterNewRatchetType
  <2>2. Len(m.root_key) \in Nat
    BY DEF Manager
  <2> HIDE DEF root
  <2> QED
    BY <2>1, <2>2
<1> HIDE DEF rot, root
<1>7. rot.chain_r.n = 0 /\ rot.chain_r.root = root
  BY <1>5
<1> QED
  BY <1>4, <1>5, <1>6, <1>7, Zenon DEF root

\* A message of the current ratchet leaves the ratchet as it is.
LEMMA SameRatchetChain ==
  ASSUME NEW m \in Manager, NEW msg \in Header, msg.ecdh = m.their_ecdh
  PROVE  LET d == DeriveDhRatchetKeys(m, msg)
         IN /\ d \in Manager /\ d.k = m.k /\ d.chain_r = m.chain_r
            /\ d.skipped_keys = m.skipped_keys
<1>1. DeriveDhRatchetKeys(m, msg) = ReceivingRatchet(m, msg)
  BY Zenon DEF DeriveDhRatchetKeys, IsNewRatchet
<1> QED
  BY <1>1, ReceivingRatchetType, ReceivingRatchetFields

-----------------------------------------------------------------------------
(***************************************************************************)
(* The invariant makes every message that is not late decrypt.             *)
(***************************************************************************)

\* The types of the fields that the counting arguments need.
LEMMA ManagerNumbers ==
  ASSUME NEW m \in Manager
  PROVE  /\ m.i \in Nat /\ m.j \in Nat /\ m.k \in Nat
         /\ m.our_ecdh \in PubKey /\ m.our_ecdh[2] \in Nat
         /\ m.our_ecdh = <<m.our_ecdh[1], m.our_ecdh[2]>>
         /\ m.their_ecdh \in PubKey /\ m.their_ecdh[2] \in Nat
         /\ m.their_ecdh = <<m.their_ecdh[1], m.their_ecdh[2]>>
         /\ m.our_dh \in PubKey /\ m.their_dh \in PubKey
<1>1. /\ m.i \in Nat /\ m.j \in Nat /\ m.k \in Nat
      /\ m.our_ecdh \in PubKey /\ m.their_ecdh \in PubKey
      /\ m.our_dh \in PubKey /\ m.their_dh \in PubKey
  BY DEF Manager
<1> QED
  BY <1>1 DEF PubKey

\* The types of the fields of a message.
LEMMA MessageNumbers ==
  ASSUME NEW x \in Message
  PROVE  /\ x \in Header /\ x.message_id \in Nat
         /\ x.ecdh \in PubKey /\ x.ecdh[2] \in Nat
         /\ x.ecdh = <<x.ecdh[1], x.ecdh[2]>>
<1>1. x \in Header /\ x.message_id \in Nat /\ x.ecdh \in PubKey
  BY MessageIsHeader DEF Message
<1> QED
  BY <1>1 DEF PubKey

\* The other peer of the other peer.
LEMMA OtherOther ==
  \A p \in Peer : Other(p) \in Peer /\ Other(p) # p /\ Other(Other(p)) = p
  BY DEF Peer, Other

\* A message of a newer ratchet comes from a sender that is one ratchet ahead,
\* and starts the ratchet that the sender has started.
LEMMA NewerMessage ==
  ASSUME NEW p \in Peer, NEW m, NEW o, NEW M, NEW O,
         Side(p, m, o, M), Side(Other(p), o, m, O),
         NEW msg \in M, m.their_ecdh[2] < msg.ecdh[2]
  PROVE  /\ IsNewRatchet(m, msg) /\ SkippedFor(m, msg) = {}
         /\ o.i = m.i + 1
         /\ msg.ecdh = o.our_ecdh /\ msg.dh = o.our_dh
         /\ msg.key = [root |-> o.root_key, n |-> msg.message_id]
         /\ o.root_key = EnterNewRatchet(m, msg.ecdh, msg.dh)
         /\ m.i % 3 # 2 => m.dh_priv
<1>1. m \in Manager /\ M \in SUBSET Message
  BY DEF Side
<1>2. msg \in Message /\ msg.ecdh[2] \in Nat /\ m.their_ecdh[2] \in Nat
  BY <1>1, MessageNumbers, ManagerNumbers
<1>3. \A s \in m.skipped_keys : s.ecdh[2] \in Nat
  <2>1. m.skipped_keys \in SUBSET SkippedKey
    BY <1>1 DEF Manager
  <2> QED
    BY <2>1 DEF SkippedKey, PubKey
<1>4. SkippedFor(m, msg) = {}
  <2> SUFFICES ASSUME NEW s \in m.skipped_keys, s.ecdh = msg.ecdh
               PROVE  FALSE
    BY DEF SkippedFor
  <2>1. s.ecdh[2] <= m.their_ecdh[2]
    BY DEF Side, Labelled
  <2> QED
    BY <1>2, <1>3, <2>1
<1>5. msg.ecdh # m.their_ecdh
  BY <1>2
<1>6. IsNewRatchet(m, msg)
  BY <1>4, <1>5 DEF IsNewRatchet
<1>7. /\ o.i = m.i + 1
      /\ msg.ecdh = o.our_ecdh /\ msg.dh = o.our_dh
      /\ msg.key = [root |-> o.root_key, n |-> msg.message_id]
  BY DEF Side, OnWire
<1>8. OneBehind(p, m, o)
  BY DEF Side
<1>9. /\ o.root_key = EnterNewRatchet(m, o.our_ecdh, o.our_dh)
      /\ m.i % 3 # 2 => m.dh_priv
  BY <1>7, <1>8, Zenon DEF OneBehind
<1> QED
  BY <1>4, <1>6, <1>7, <1>9

\* A message that is not late is either one of the current ratchet or newer.
LEMMA CurrentOrNewer ==
  ASSUME NEW p \in Peer, NEW m, NEW o, NEW M, NEW O,
         Side(p, m, o, M), Side(Other(p), o, m, O),
         NEW msg \in M, m.their_ecdh[2] <= msg.ecdh[2]
  PROVE  msg.ecdh = m.their_ecdh \/ m.their_ecdh[2] < msg.ecdh[2]
<1>1. m \in Manager /\ M \in SUBSET Message
  BY DEF Side
<1>2. m.their_ecdh[1] = Other(p) /\ o.our_ecdh[1] = Other(p)
  BY DEF Side, FreshKeys
<1>3. msg.ecdh[1] = Other(p)
  BY <1>2 DEF Side, OnWire
<1>4. /\ msg.ecdh[2] \in Nat /\ m.their_ecdh[2] \in Nat
      /\ msg.ecdh = <<msg.ecdh[1], msg.ecdh[2]>>
      /\ m.their_ecdh = <<m.their_ecdh[1], m.their_ecdh[2]>>
  BY <1>1, MessageNumbers, ManagerNumbers
<1> QED
  BY <1>2, <1>3, <1>4

\* Every message that is not late decrypts, and nothing undefined is used for it.
LEMMA SideAccepts ==
  ASSUME NEW p \in Peer, NEW m, NEW o, NEW M, NEW O,
         Side(p, m, o, M), Side(Other(p), o, m, O),
         NEW msg \in M, m.their_ecdh[2] <= msg.ecdh[2]
  PROVE  /\ ReceiveKey(m, msg) = msg.key /\ msg.intact
         /\ ~m.dangling /\ ~UsesNullKey(m, msg)
<1>1. m \in Manager /\ M \in SUBSET Message
  BY DEF Side
<1>2. msg \in Header /\ msg.message_id \in Nat /\ msg.ecdh[2] \in Nat
  BY <1>1, MessageNumbers
<1>3. msg.intact /\ ~m.dangling /\ msg.message_id <= MaxSkip
  BY DEF Side, Healthy, OnWire
<1>4. CASE msg.ecdh = m.their_ecdh
  <2>1. msg.key = [root |-> m.chain_r.root, n |-> msg.message_id]
    BY <1>4 DEF Side, OnWire
  <2>2. Labelled(m, m.their_ecdh) /\ m.chain_r.n = m.k
    BY DEF Side, Labelled
  <2>3. ASSUME SkippedFor(m, msg) # {}
        PROVE  ReceiveKey(m, msg) = msg.key
    BY <1>1, <1>2, <1>4, <2>1, <2>2, <2>3, KeyFromStore
  <2>4. ASSUME SkippedFor(m, msg) = {}
        PROVE  ReceiveKey(m, msg) = msg.key
    <3> DEFINE d == DeriveDhRatchetKeys(m, msg)
    <3>1. m.k <= msg.message_id
      <4>1. ~ \E s \in m.skipped_keys : s.ecdh = msg.ecdh /\ s.k = msg.message_id
        BY <2>4 DEF SkippedFor
      <4>2. \/ m.k <= msg.message_id
            \/ \E s \in m.skipped_keys : s.ecdh = msg.ecdh /\ s.k = msg.message_id
        BY <1>4 DEF Side, OnWire
      <4> QED
        BY <4>1, <4>2
    <3>2. m.chain_r.root # <<>>
      BY <1>4 DEF Side, Healthy, OnWire
    <3>3. d \in Manager /\ d.k = m.k /\ d.chain_r = m.chain_r
      BY <1>1, <1>2, <1>4, SameRatchetChain
    <3> QED
      BY <1>1, <1>2, <1>3, <2>1, <2>2, <2>4, <3>1, <3>2, <3>3, KeyFromChain
  <2>5. ~UsesNullKey(m, msg)
    BY <1>4 DEF UsesNullKey, IsNewRatchet
  <2> QED
    BY <1>3, <2>1, <2>3, <2>4, <2>5
<1>5. CASE m.their_ecdh[2] < msg.ecdh[2]
  <2> DEFINE d == DeriveDhRatchetKeys(m, msg)
  <2>1. /\ IsNewRatchet(m, msg) /\ SkippedFor(m, msg) = {}
        /\ msg.key = [root |-> o.root_key, n |-> msg.message_id]
        /\ o.root_key = EnterNewRatchet(m, msg.ecdh, msg.dh)
        /\ m.i % 3 # 2 => m.dh_priv
    BY <1>5, NewerMessage
  <2>2. /\ d \in Manager /\ d.k = 0 /\ d.chain_r.n = d.k
        /\ d.chain_r.root = o.root_key /\ d.chain_r.root # <<>>
    BY <1>1, <1>2, <2>1, NewRatchetChain
  <2>3. ReceiveKey(m, msg) = [root |-> d.chain_r.root, n |-> msg.message_id]
    BY <1>1, <1>2, <1>3, <2>1, <2>2, KeyFromChain
  <2>4. ~UsesNullKey(m, msg)
    <3>1. m.i % 3 = 0 => m.i % 3 # 2
      OBVIOUS
    <3> QED
      BY <2>1, <3>1, Zenon DEF UsesNullKey
  <2> QED
    BY <1>3, <2>1, <2>2, <2>3, <2>4
<1> QED
  BY <1>4, <1>5, CurrentOrNewer

-----------------------------------------------------------------------------
(***************************************************************************)
(* The invariant is kept by every operation.                               *)
(***************************************************************************)

\* The fields of a manager that its peer's side speaks of.
SameTurn(r, m) ==
  /\ r.i = m.i /\ r.j = m.j
  /\ r.our_ecdh = m.our_ecdh /\ r.our_dh = m.our_dh
  /\ r.their_ecdh = m.their_ecdh /\ r.their_dh = m.their_dh
  /\ r.ecdh_priv = m.ecdh_priv /\ r.dh_priv = m.dh_priv
  /\ r.brace_key = m.brace_key /\ r.root_key = m.root_key
  /\ r.chain_s = m.chain_s /\ r.dangling = m.dangling

\* The root key a manager would enter depends on these fields.
LEMMA EnterFrame ==
  ASSUME NEW m, NEW r, NEW e, NEW d,
         r.root_key = m.root_key, r.ecdh_priv = m.ecdh_priv,
         r.our_ecdh = m.our_ecdh, r.i = m.i, r.our_dh = m.our_dh,
         r.brace_key = m.brace_key
  PROVE  EnterNewRatchet(r, e, d) = EnterNewRatchet(m, e, d)
<1>1. EcdhSharedSecret(r, e) = EcdhSharedSecret(m, e)
  BY Zenon DEF EcdhSharedSecret
<1>2. CalculateBraceKey(r, d) = CalculateBraceKey(m, d)
  BY Zenon DEF CalculateBraceKey
<1> QED
  BY <1>1, <1>2 DEF EnterNewRatchet

\* The peer's side does not see the receiving chain and the store.
LEMMA OtherSideFrame ==
  ASSUME NEW q, NEW o, NEW m, NEW r, NEW O,
         Side(q, o, m, O), SameTurn(r, m)
  PROVE  Side(q, o, r, O)
<1>1. Even(o, r)
  BY Zenon DEF Side, SameTurn, Even
<1>2. OneBehind(q, o, r)
  BY Zenon DEF Side, SameTurn, OneBehind
<1>3. Linked(o, r)
  BY Zenon DEF Side, SameTurn, Linked
<1>4. OnWire(o, r, O)
  BY DEF Side, SameTurn, OnWire
<1>5. o.i <= r.i + 1
  BY DEF Side, SameTurn
<1> QED
  BY <1>1, <1>2, <1>3, <1>4, <1>5 DEF Side

\* The counters and keys of p's own side.
LEMMA OwnTurnFrame ==
  ASSUME NEW p, NEW m, NEW o, NEW r, NEW M,
         Side(p, m, o, M), SameTurn(r, m)
  PROVE  r.i <= o.i + 1 /\ Even(r, o) /\ OneBehind(p, r, o)
<1>1. Even(r, o)
  BY Zenon DEF Side, SameTurn, Even
<1>2. EnterNewRatchet(r, o.our_ecdh, o.our_dh) =
        EnterNewRatchet(m, o.our_ecdh, o.our_dh)
  <2>1. /\ r.root_key = m.root_key /\ r.ecdh_priv = m.ecdh_priv
        /\ r.our_ecdh = m.our_ecdh /\ r.i = m.i /\ r.our_dh = m.our_dh
        /\ r.brace_key = m.brace_key
    BY Zenon DEF SameTurn
  <2> QED
    BY <2>1, Zenon DEF EnterNewRatchet, EcdhSharedSecret, CalculateBraceKey
<1>3. OneBehind(p, r, o)
  BY <1>2, Zenon DEF Side, SameTurn, OneBehind
<1>4. r.i <= o.i + 1
  BY DEF Side, SameTurn
<1> QED
  BY <1>1, <1>3, <1>4

\* Losing messages keeps a side.
LEMMA SideLose ==
  ASSUME NEW p, NEW m, NEW o, NEW M, NEW N, Side(p, m, o, M), N \subseteq M
  PROVE  Side(p, m, o, N)
<1>1. OnWire(m, o, N)
  BY DEF Side, OnWire
<1>2. N \in SUBSET Message
  BY DEF Side
<1> QED
  BY <1>1, <1>2 DEF Side

\* The kept MAC keys do not matter for either side.
LEMMA SideMacKeys ==
  ASSUME NEW p \in Peer, NEW m, NEW o, NEW M, NEW O,
         Side(p, m, o, M), Side(Other(p), o, m, O), NEW S \in SUBSET ChainKey
  PROVE  /\ Side(p, WithMacKeys(m, S), o, M)
         /\ Side(Other(p), o, WithMacKeys(m, S), O)
<1> DEFINE r == WithMacKeys(m, S)
<1>1. m \in Manager
  BY DEF Side
<1>2. /\ r \in Manager /\ SameTurn(r, m)
      /\ r.k = m.k /\ r.chain_r = m.chain_r /\ r.skipped_keys = m.skipped_keys
  BY <1>1, WithMacKeysFields, Zenon DEF SameTurn
<1> HIDE DEF r
<1>3. FreshKeys(r, p) /\ Labelled(r, r.their_ecdh)
  <2>1. FreshKeys(m, p) /\ Labelled(m, m.their_ecdh)
    BY DEF Side
  <2> QED
    BY <1>2, <2>1, FreshFrame, LabelledFrame DEF SameTurn
<1>4. Healthy(r)
  BY <1>2, Zenon DEF Side, SameTurn, Healthy
<1>5. Linked(r, o)
  BY <1>2, Zenon DEF Side, SameTurn, Linked
<1>6. OnWire(r, o, M)
  BY <1>2 DEF Side, SameTurn, OnWire
<1>7. M \in SUBSET Message
  BY DEF Side
<1>8. Side(p, r, o, M)
  BY <1>2, <1>3, <1>4, <1>5, <1>6, <1>7, OwnTurnFrame DEF Side
<1>9. Side(Other(p), o, r, O)
  BY <1>2, OtherSideFrame
<1> QED
  BY <1>8, <1>9 DEF r

\* Receiving a message of the current ratchet keeps both sides.
LEMMA SideReceiveCurrent ==
  ASSUME NEW p \in Peer, NEW m, NEW o, NEW M, NEW O,
         Side(p, m, o, M), Side(Other(p), o, m, O),
         NEW msg \in M, msg.ecdh = m.their_ecdh
  PROVE  /\ Side(p, ReceiveRatchet(m, msg), o, M \ {msg})
         /\ Side(Other(p), o, ReceiveRatchet(m, msg), O)
<1> DEFINE r  == ReceiveRatchet(m, msg)
           id == msg.message_id
<1>1. m \in Manager /\ o \in Manager /\ M \in SUBSET Message
  BY DEF Side
<1>2. /\ msg \in Header /\ id \in Nat /\ m.k \in Nat /\ o.j \in Nat
      /\ \A x \in M : x.message_id \in Nat
  BY <1>1, MessageNumbers, ManagerNumbers
<1>3. /\ msg.dh = m.their_dh /\ id <= MaxSkip
      /\ m.chain_r.root # <<>> /\ m.chain_r.n = m.k
      /\ m.k <= id \/ \E s \in m.skipped_keys : s.ecdh = msg.ecdh /\ s.k = id
  BY DEF Side, Healthy, OnWire, Labelled
<1>4. ~IsNewRatchet(m, msg)
  BY DEF IsNewRatchet
<1>5. r \in Manager /\ SameTurn(r, m)
  BY <1>1, <1>2, <1>3, <1>4, ReceiveRatchetType, ReceiveRatchetFields, Zenon
     DEF SameTurn
<1>6. FreshKeys(r, p) /\ Labelled(r, r.their_ecdh)
  <2>1. FreshKeys(m, p) /\ Labelled(m, m.their_ecdh)
    BY DEF Side
  <2>2. msg.ecdh[1] = Other(p) /\ m.their_ecdh[2] <= msg.ecdh[2]
    BY <1>1, <2>1, ManagerNumbers DEF FreshKeys
  <2>3. FreshKeys(r, p)
    BY <1>1, <1>2, <2>1, <2>2, FreshReceive
  <2>4. Labelled(r, msg.ecdh)
    BY <1>1, <1>2, <2>1, <2>2, LabelledReceive
  <2> HIDE DEF r
  <2> QED
    BY <1>5, <2>3, <2>4 DEF SameTurn
<1>7. /\ r.chain_r.root = m.chain_r.root
      /\ r.k = m.k \/ r.k = id + 1
      /\ \A x \in M : \* what is not received yet can still be decrypted
           /\ x.ecdh = m.their_ecdh /\ x.message_id # id
           /\ \/ m.k <= x.message_id
              \/ \E s \in m.skipped_keys : s.ecdh = x.ecdh /\ s.k = x.message_id
           => \/ r.k <= x.message_id
              \/ \E s \in r.skipped_keys : s.ecdh = x.ecdh /\ s.k = x.message_id
  <2>1. CASE SkippedFor(m, msg) # {}
    <3> DEFINE old == CHOOSE s \in SkippedFor(m, msg) : TRUE
    <3>1. old.k = id
      BY <2>1 DEF SkippedFor
    <3>2. r.chain_r = m.chain_r /\ r.k = m.k /\ r.skipped_keys = m.skipped_keys \ {old}
      BY <1>1, <1>2, <2>1, ReceiveRatchetChain
    <3> HIDE DEF r, old
    <3> QED
      BY <3>1, <3>2
  <2>2. CASE SkippedFor(m, msg) = {}
    <3> DEFINE d == DeriveDhRatchetKeys(m, msg)
    <3>1. m.k <= id
      BY <1>3, <2>2 DEF SkippedFor
    <3>2. /\ d \in Manager /\ d.k = m.k /\ d.chain_r = m.chain_r
          /\ d.skipped_keys = m.skipped_keys
      BY <1>1, <1>2, SameRatchetChain
    <3>3. /\ r.chain_r.root = d.chain_r.root
          /\ r.k = id + 1
          /\ d.skipped_keys \subseteq r.skipped_keys
          /\ \A n \in d.k .. (id - 1) :
               \E s \in r.skipped_keys : s.ecdh = msg.ecdh /\ s.k = n
      BY <1>1, <1>2, <1>3, <2>2, <3>1, <3>2, KeyFromChain
    <3> HIDE DEF r, d
    <3>4. ASSUME NEW x \in M, x.ecdh = m.their_ecdh, x.message_id # id,
                 m.k <= x.message_id, ~(r.k <= x.message_id)
          PROVE  \E s \in r.skipped_keys : s.ecdh = x.ecdh /\ s.k = x.message_id
      <4>1. x.message_id \in d.k .. (id - 1)
        BY <1>2, <3>2, <3>3, <3>4
      <4> QED
        BY <3>3, <3>4, <4>1
    <3> QED
      BY <3>2, <3>3, <3>4
  <2> QED
    BY <2>1, <2>2
<1> HIDE DEF r
<1>8. Healthy(r)
  BY <1>5, <1>7, Zenon DEF Side, SameTurn, Healthy
<1>9. Linked(r, o)
  <2>1. msg.ecdh = o.our_ecdh /\ o.j > 0 => id < o.j
    BY DEF Side, OnWire
  <2> QED
    BY <1>2, <1>5, <1>7, <2>1 DEF Side, SameTurn, Linked
<1>10. OnWire(r, o, M \ {msg})
  <2>1. \A x \in M \ {msg} : x.ecdh = m.their_ecdh => x.message_id # id
    BY DEF Side, OnWire
  <2> QED
    BY <1>5, <1>7, <2>1 DEF Side, SameTurn, OnWire
<1>11. M \ {msg} \in SUBSET Message
  BY <1>1
<1>12. Side(p, r, o, M \ {msg})
  BY <1>5, <1>6, <1>8, <1>9, <1>10, <1>11, OwnTurnFrame DEF Side
<1>13. Side(Other(p), o, r, O)
  BY <1>5, OtherSideFrame
<1> QED
  BY <1>12, <1>13 DEF r

\* Receiving the first message of a newer ratchet brings both sides level.
LEMMA SideReceiveNewer ==
  ASSUME NEW p \in Peer, NEW m, NEW o, NEW M, NEW O,
         Side(p, m, o, M), Side(Other(p), o, m, O),
         NEW msg \in M, m.their_ecdh[2] < msg.ecdh[2]
  PROVE  /\ Side(p, ReceiveRatchet(m, msg), o, M \ {msg})
         /\ Side(Other(p), o, ReceiveRatchet(m, msg), O)
<1> DEFINE r  == ReceiveRatchet(m, msg)
           d  == DeriveDhRatchetKeys(m, msg)
           id == msg.message_id
           q  == Other(p)
<1>1. m \in Manager /\ o \in Manager /\ M \in SUBSET Message
  BY DEF Side
<1>2. /\ msg \in Header /\ id \in Nat /\ o.j \in Nat /\ m.i \in Nat
      /\ o.our_ecdh[2] \in Nat /\ m.their_ecdh[2] \in Nat
      /\ m.our_ecdh[2] \in Nat
      /\ \A x \in M : x.message_id \in Nat /\ x.ecdh[2] \in Nat
  BY <1>1, MessageNumbers, ManagerNumbers
<1>3. /\ IsNewRatchet(m, msg) /\ SkippedFor(m, msg) = {}
      /\ o.i = m.i + 1
      /\ msg.ecdh = o.our_ecdh /\ msg.dh = o.our_dh
      /\ o.root_key = EnterNewRatchet(m, msg.ecdh, msg.dh)
      /\ m.i % 3 # 2 => m.dh_priv
  <2>1. /\ IsNewRatchet(m, msg) /\ SkippedFor(m, msg) = {}
        /\ msg.ecdh = o.our_ecdh /\ msg.dh = o.our_dh
        /\ o.root_key = EnterNewRatchet(m, msg.ecdh, msg.dh)
    BY NewerMessage, ZenonT(180)
  <2>2. o.i = m.i + 1
    BY NewerMessage, ZenonT(120)
  <2>3. m.i % 3 # 2 => m.dh_priv
    BY NewerMessage
  <2> QED
    BY <2>1, <2>2, <2>3
<1>4. /\ o.j > 0 /\ o.their_ecdh = m.our_ecdh
      /\ m.i % 3 # 1 => o.dh_priv
  BY <1>3, Zenon DEF Side, OneBehind
<1>5. id <= MaxSkip /\ id < o.j
  BY <1>3, <1>4 DEF Side, OnWire
<1>6. /\ r \in Manager
      /\ r.their_ecdh = o.our_ecdh /\ r.their_dh = o.our_dh
      /\ r.our_ecdh = m.our_ecdh /\ r.our_dh = m.our_dh
      /\ r.dangling = m.dangling
      /\ r.i = o.i /\ r.j = 0
      /\ r.brace_key = ZeroBrace /\ r.root_key = o.root_key
  BY <1>1, <1>2, <1>3, ReceiveRatchetType, ReceiveRatchetFields, ZenonT(40)
<1>7. r.dh_priv = IF m.i % 3 = 0 THEN FALSE ELSE m.dh_priv
  BY <1>1, <1>2, <1>3, ReceiveRatchetFields, Zenon
<1>8. /\ d \in Manager /\ d.k = 0 /\ d.chain_r.n = d.k
      /\ d.chain_r.root = o.root_key /\ d.chain_r.root # <<>>
  BY <1>1, <1>2, <1>3, NewRatchetChain
<1>9. /\ r.chain_r.root = o.root_key /\ r.chain_r.root # <<>>
      /\ r.k = id + 1
      /\ \A n \in 0 .. (id - 1) :
           \E s \in r.skipped_keys : s.ecdh = o.our_ecdh /\ s.k = n
  <2>1. /\ r.chain_r.root = d.chain_r.root
        /\ r.k = id + 1
        /\ \A n \in d.k .. (id - 1) :
             \E s \in r.skipped_keys : s.ecdh = msg.ecdh /\ s.k = n
    BY <1>1, <1>2, <1>3, <1>5, <1>8, KeyFromChain, SMTT(30)
  <2> HIDE DEF r, d
  <2> QED
    BY <1>3, <1>8, <2>1
<1>10. FreshKeys(r, p) /\ Labelled(r, r.their_ecdh)
  <2>1. FreshKeys(m, p) /\ Labelled(m, m.their_ecdh)
    BY DEF Side
  <2>2. /\ m.their_ecdh[1] = Other(p) /\ o.our_ecdh[1] = Other(p)
        /\ m.their_ecdh[2] <= msg.ecdh[2]
    BY <1>2, <1>3 DEF Side, FreshKeys
  <2>3. FreshKeys(r, p)
    BY <1>1, <1>2, <1>3, <2>1, <2>2, FreshReceive
  <2>4. Labelled(r, msg.ecdh)
    BY <1>1, <1>2, <1>3, <2>1, <2>2, LabelledReceive
  <2> HIDE DEF r
  <2> QED
    BY <1>3, <1>6, <2>3, <2>4
<1> HIDE DEF r, d
<1>11. r.i > 0 /\ r.i # 0 /\ r.i # o.i + 1 /\ o.i # r.i + 1
  BY <1>2, <1>3, <1>6
<1>12. Healthy(r)
  <2>1. ~m.dangling
    BY DEF Side, Healthy
  <2>2. ~(0 > 0)
    OBVIOUS
  <2> QED
    BY <1>6, <1>9, <1>11, <2>1, <2>2, Zenon DEF Healthy
<1>13. Even(r, o)
  <2>1. r.i % 3 = 2 => m.i % 3 # 2 /\ m.i % 3 # 0
    BY <1>2, <1>3, <1>6
  <2>2. r.i % 3 = 2 => r.dh_priv
    BY <1>3, <1>7, <2>1, Zenon
  <2> QED
    BY <1>4, <1>6, <1>11, <2>2, Zenon DEF Even
<1>14. Linked(r, o)
  BY <1>2, <1>5, <1>6, <1>9 DEF Linked
<1>15. OnWire(r, o, M \ {msg})
  <2>1. \A x, y \in M : x.ecdh = y.ecdh /\ x.message_id = y.message_id => x = y
    BY DEF Side, OnWire
  <2>2. ASSUME NEW x \in M \ {msg}
        PROVE  /\ x.intact
               /\ x.ecdh[1] = o.our_ecdh[1]
               /\ 0 < x.ecdh[2] /\ x.ecdh[2] <= o.our_ecdh[2]
               /\ x.message_id <= MaxSkip
               /\ x.ecdh = o.our_ecdh /\ o.j > 0 => x.message_id < o.j
               /\ m.their_ecdh[2] < x.ecdh[2] =>
                    /\ x.dh = o.our_dh
                    /\ x.key = [root |-> o.root_key, n |-> x.message_id]
    BY DEF Side, OnWire
  <2>3. ASSUME NEW x \in M \ {msg}, x.ecdh = r.their_ecdh
        PROVE  /\ x.dh = r.their_dh
               /\ x.key = [root |-> r.chain_r.root, n |-> x.message_id]
               /\ \/ r.k <= x.message_id
                  \/ \E s \in r.skipped_keys : s.ecdh = x.ecdh /\ s.k = x.message_id
    <3>1. m.their_ecdh[2] < x.ecdh[2]
      BY <1>3, <1>6, <2>3
    <3>2. x.dh = o.our_dh /\ x.key = [root |-> o.root_key, n |-> x.message_id]
      BY <2>2, <3>1
    <3>3. x.message_id # id
      BY <1>3, <1>6, <2>1, <2>3
    <3>4. r.k <= x.message_id \/ x.message_id \in 0 .. (id - 1)
      BY <1>2, <1>9, <3>3
    <3> QED
      BY <1>6, <1>9, <2>3, <3>2, <3>4
  <2>4. ASSUME NEW x \in M \ {msg}
        PROVE  ~(r.their_ecdh[2] < x.ecdh[2])
    <3>1. x.ecdh[2] \in Nat /\ x.ecdh[2] <= o.our_ecdh[2]
      BY <1>2, <2>2
    <3> QED
      BY <1>2, <1>6, <3>1
  <2> QED
    BY <2>1, <2>2, <2>3, <2>4 DEF OnWire
<1>16. Side(p, r, o, M \ {msg})
  <2>1. OneBehind(p, r, o)
    BY <1>11, Zenon DEF OneBehind
  <2>2. r.i <= o.i + 1
    BY <1>2, <1>3, <1>6
  <2>3. M \ {msg} \in SUBSET Message
    BY <1>1
  <2> QED
    BY <1>6, <1>10, <1>12, <1>13, <1>14, <1>15, <2>1, <2>2, <2>3 DEF Side
<1>17. Even(o, r)
  <2>1. o.i % 3 # 2 => m.i % 3 # 1
    BY <1>2, <1>3
  <2>2. o.i % 3 # 2 => o.dh_priv
    BY <1>4, <2>1
  <2>3. o.j # 0 /\ o.i # 0
    BY <1>2, <1>3, <1>4
  <2> QED
    BY <1>4, <1>6, <2>2, <2>3, Zenon DEF Even
<1>18. OneBehind(q, o, r)
  BY <1>11, Zenon DEF OneBehind
<1>19. Linked(o, r)
  <2>1. ~(0 > 0)
    OBVIOUS
  <2>2. o.their_ecdh = m.our_ecdh => o.their_dh = m.our_dh
    BY Zenon DEF Side, Linked
  <2> QED
    BY <1>6, <2>1, <2>2, Zenon DEF Linked
<1>20. OnWire(o, r, O)
  <2>1. O \in SUBSET Message
    BY DEF Side
  <2>2. \A x \in O : x.ecdh[2] \in Nat /\ x.ecdh[2] <= m.our_ecdh[2]
    BY <2>1, MessageNumbers DEF Side, OnWire
  <2>3. \A x \in O : ~(o.their_ecdh[2] < x.ecdh[2])
    BY <1>2, <1>4, <2>2
  <2>4. OnWire(o, m, O)
    BY DEF Side
  <2>5. ~(r.j > 0)
    BY <1>6
  <2>6. \A x, y \in O : x.ecdh = y.ecdh /\ x.message_id = y.message_id => x = y
    BY <2>4, Zenon DEF OnWire
  <2>7. ASSUME NEW x \in O
        PROVE  /\ x.intact
               /\ x.ecdh[1] = r.our_ecdh[1]
               /\ 0 < x.ecdh[2] /\ x.ecdh[2] <= r.our_ecdh[2]
               /\ x.message_id <= MaxSkip
               /\ x.ecdh = o.their_ecdh =>
                    /\ x.dh = o.their_dh
                    /\ x.key = [root |-> o.chain_r.root, n |-> x.message_id]
                    /\ \/ o.k <= x.message_id
                       \/ \E s \in o.skipped_keys :
                            s.ecdh = x.ecdh /\ s.k = x.message_id
    BY <1>6, <2>4, ZenonT(40) DEF OnWire
  <2> QED
    BY <2>3, <2>5, <2>6, <2>7 DEF OnWire
<1>21. Side(q, o, r, O)
  <2>1. o.i <= r.i + 1
    BY <1>2, <1>3, <1>6
  <2> QED
    BY <1>17, <1>18, <1>19, <1>20, <2>1 DEF Side
<1> QED
  BY <1>16, <1>21 DEF r

\* The fields of the message that continues a ratchet, and of its sender.
LEMMA SendSameFields ==
  ASSUME NEW m \in Manager, NEW p \in Peer, m.j # 0
  PROVE  LET d == SendData(m, p)
             x == DataMessage(m, p)
         IN /\ d \in Manager
            /\ d.i = m.i /\ d.j = m.j + 1 /\ d.k = m.k
            /\ d.our_ecdh = m.our_ecdh /\ d.ecdh_priv = m.ecdh_priv
            /\ d.our_dh = m.our_dh /\ d.dh_priv = m.dh_priv
            /\ d.their_ecdh = m.their_ecdh /\ d.their_dh = m.their_dh
            /\ d.brace_key = m.brace_key /\ d.root_key = m.root_key
            /\ d.chain_s = NextChainKey(m.chain_s)
            /\ d.chain_r = m.chain_r /\ d.skipped_keys = m.skipped_keys
            /\ d.dangling = m.dangling
            /\ x = [ecdh |-> m.our_ecdh, dh |-> m.our_dh, previous_chain_n |-> m.pn,
                    message_id |-> m.j, key |-> m.chain_s, intact |-> TRUE]
<1>1. SendKeys(m, p) = m
  BY Zenon DEF SendKeys
<1>2. DataMessage(m, p) =
        [ecdh |-> m.our_ecdh, dh |-> m.our_dh, previous_chain_n |-> m.pn,
         message_id |-> m.j, key |-> m.chain_s, intact |-> TRUE]
  BY <1>1, Zenon DEF DataMessage
<1>3. SendData(m, p) \in Manager
  BY SendDataType
<1>4. LET r == SendKeys(m, p)
          d == SendData(m, p)
      IN /\ d.i = r.i /\ d.j = r.j + 1 /\ d.k = r.k
         /\ d.our_ecdh = r.our_ecdh /\ d.ecdh_priv = r.ecdh_priv
         /\ d.our_dh = r.our_dh /\ d.dh_priv = r.dh_priv
         /\ d.their_ecdh = r.their_ecdh /\ d.their_dh = r.their_dh
         /\ d.brace_key = r.brace_key /\ d.root_key = r.root_key
         /\ d.chain_s = NextChainKey(r.chain_s)
         /\ d.chain_r = r.chain_r /\ d.skipped_keys = r.skipped_keys
         /\ d.dangling = r.dangling
  BY SendDataFields, Zenon
<1> QED
  BY <1>1, <1>2, <1>3, <1>4, Zenon

\* Sending a further message of the current ratchet keeps both sides.
LEMMA SideSendSame ==
  ASSUME NEW p \in Peer, NEW m, NEW o, NEW M, NEW O,
         Side(p, m, o, M), Side(Other(p), o, m, O),
         m.j # 0, m.j <= MaxSkip
  PROVE  /\ Side(p, SendData(m, p), o, M)
         /\ Side(Other(p), o, SendData(m, p), O \cup {DataMessage(m, p)})
<1> DEFINE d == SendData(m, p)
           x == DataMessage(m, p)
           q == Other(p)
<1>1. m \in Manager /\ o \in Manager /\ O \in SUBSET Message
  BY DEF Side
<1>2. /\ m.i \in Nat /\ m.j \in Nat /\ m.j > 0 /\ o.i \in Nat /\ o.k \in Nat
      /\ m.our_ecdh \in PubKey /\ m.our_ecdh[2] \in Nat
  BY <1>1, ManagerNumbers
<1>3. /\ d \in Manager
      /\ d.i = m.i /\ d.j = m.j + 1 /\ d.k = m.k
      /\ d.our_ecdh = m.our_ecdh /\ d.ecdh_priv = m.ecdh_priv
      /\ d.our_dh = m.our_dh /\ d.dh_priv = m.dh_priv
      /\ d.their_ecdh = m.their_ecdh /\ d.their_dh = m.their_dh
      /\ d.brace_key = m.brace_key /\ d.root_key = m.root_key
      /\ d.chain_s = NextChainKey(m.chain_s)
      /\ d.chain_r = m.chain_r /\ d.skipped_keys = m.skipped_keys
      /\ d.dangling = m.dangling
  BY <1>1, SendSameFields, Zenon
<1>4. /\ x.ecdh = m.our_ecdh /\ x.dh = m.our_dh /\ x.message_id = m.j
      /\ x.key = m.chain_s /\ x.intact
  <2>1. x = [ecdh |-> m.our_ecdh, dh |-> m.our_dh, previous_chain_n |-> m.pn,
             message_id |-> m.j, key |-> m.chain_s, intact |-> TRUE]
    BY <1>1, SendSameFields, Zenon
  <2> HIDE DEF x
  <2> QED
    BY <2>1
<1>5. x \in Message
  BY <1>1, DataMessageType, MessageIsHeader
<1>6. /\ m.chain_s = [root |-> m.root_key, n |-> m.j] /\ m.our_ecdh[2] > 0
      /\ m.ecdh_priv /\ ~m.dangling /\ m.brace_key = ZeroBrace
      /\ m.their_ecdh[2] > 0 => m.chain_r.root # <<>>
  BY <1>2, Zenon DEF Side, Healthy
<1>7. FreshKeys(d, p) /\ Labelled(d, d.their_ecdh)
  <2>1. FreshKeys(m, p) /\ Labelled(m, m.their_ecdh)
    BY DEF Side
  <2>2. FreshKeys(d, p)
    BY <1>1, <2>1, FreshSend
  <2> HIDE DEF d
  <2> QED
    BY <1>3, <2>1, <2>2, LabelledFrame
<1> HIDE DEF d, x
<1>8. d.j > 0 /\ d.j # 0 /\ ~(d.j = 0)
  BY <1>2, <1>3
<1>9. Healthy(d)
  <2>1. d.chain_s = [root |-> d.root_key, n |-> d.j]
    BY <1>2, <1>3, <1>6 DEF NextChainKey
  <2> QED
    BY <1>3, <1>6, <2>1, Zenon DEF Healthy
<1>10. Even(d, o)
  BY <1>2, <1>3, <1>8, Zenon DEF Side, Even
<1>11. OneBehind(p, d, o)
  <2>1. EnterNewRatchet(d, o.our_ecdh, o.our_dh) =
          EnterNewRatchet(m, o.our_ecdh, o.our_dh)
    BY <1>3, Zenon DEF EnterNewRatchet, EcdhSharedSecret, CalculateBraceKey
  <2> QED
    BY <1>3, <1>8, <2>1, Zenon DEF Side, OneBehind
<1>12. Linked(d, o)
  BY <1>3, Zenon DEF Side, Linked
<1>13. OnWire(d, o, M)
  <2>1. /\ d.k = m.k /\ d.their_ecdh = m.their_ecdh /\ d.their_dh = m.their_dh
        /\ d.chain_r = m.chain_r /\ d.skipped_keys = m.skipped_keys /\ d.i = m.i
    BY <1>3, Zenon
  <2> QED
    BY <2>1 DEF Side, OnWire
<1>14. Side(p, d, o, M)
  <2>1. d.i <= o.i + 1 /\ M \in SUBSET Message
    BY <1>3, Zenon DEF Side
  <2> QED
    BY <1>3, <1>7, <1>9, <1>10, <1>11, <1>12, <1>13, <2>1 DEF Side
<1>15. Even(o, d)
  BY <1>2, <1>3, <1>8, Zenon DEF Side, Even
<1>16. OneBehind(q, o, d)
  BY <1>3, <1>8, Zenon DEF Side, OneBehind
<1>17. o.their_ecdh = m.our_ecdh =>
          /\ o.their_dh = m.our_dh /\ o.chain_r.root = m.root_key /\ o.k <= m.j
  BY <1>2, Zenon DEF Side, Linked
<1>18. Linked(o, d)
  <2>1. o.k <= m.j => o.k <= d.j
    BY <1>2, <1>3
  <2> QED
    BY <1>3, <1>17, <2>1, Zenon DEF Linked
<1>19. OnWire(o, d, O \cup {x})
  <2>1. OnWire(o, m, O)
    BY DEF Side
  <2>2. ASSUME NEW y \in O
        PROVE  /\ y.intact
               /\ y.ecdh[1] = d.our_ecdh[1]
               /\ 0 < y.ecdh[2] /\ y.ecdh[2] <= d.our_ecdh[2]
               /\ y.message_id <= MaxSkip
               /\ y.ecdh = o.their_ecdh =>
                    /\ y.dh = o.their_dh
                    /\ y.key = [root |-> o.chain_r.root, n |-> y.message_id]
                    /\ \/ o.k <= y.message_id
                       \/ \E s \in o.skipped_keys :
                            s.ecdh = y.ecdh /\ s.k = y.message_id
               /\ o.their_ecdh[2] < y.ecdh[2] =>
                    /\ d.i = o.i + 1
                    /\ y.ecdh = d.our_ecdh /\ y.dh = d.our_dh
                    /\ y.key = [root |-> d.root_key, n |-> y.message_id]
    BY <1>3, <2>1, ZenonT(60) DEF OnWire
  <2>3. ASSUME NEW y \in O, y.ecdh = m.our_ecdh
        PROVE  y.message_id \in Nat /\ y.message_id < m.j
    BY <1>1, <1>2, <2>1, <2>3, MessageNumbers DEF OnWire
  <2>4. /\ x.ecdh[1] = d.our_ecdh[1]
        /\ 0 < x.ecdh[2] /\ x.ecdh[2] <= d.our_ecdh[2]
        /\ x.message_id <= MaxSkip /\ x.message_id < d.j
    BY <1>2, <1>3, <1>4, <1>6
  <2>5. x.key = [root |-> d.root_key, n |-> x.message_id]
    BY <1>3, <1>4, <1>6
  <2>6. ASSUME x.ecdh = o.their_ecdh
        PROVE  /\ x.dh = o.their_dh
               /\ x.key = [root |-> o.chain_r.root, n |-> x.message_id]
               /\ o.k <= x.message_id
    BY <1>3, <1>4, <1>17, <2>5, <2>6
  <2>7. ASSUME o.their_ecdh[2] < x.ecdh[2]
        PROVE  d.i = o.i + 1
    <3>1. o.their_ecdh # m.our_ecdh
      BY <1>2, <1>4, <2>7
    <3>2. o.i # m.i /\ o.i # m.i + 1
      BY <3>1, Zenon DEF Side, Even, OneBehind
    <3>3. m.i <= o.i + 1 /\ o.i <= m.i + 1
      BY DEF Side
    <3> QED
      BY <1>2, <1>3, <3>2, <3>3
  <2>8. ASSUME NEW y \in O \cup {x}
        PROVE  y.ecdh = d.our_ecdh /\ d.j > 0 => y.message_id < d.j
    BY <1>2, <1>3, <2>3, <2>4
  <2>9. \A y, z \in O \cup {x} :
          y.ecdh = z.ecdh /\ y.message_id = z.message_id => y = z
    <3>1. \A y, z \in O : y.ecdh = z.ecdh /\ y.message_id = z.message_id => y = z
      BY <2>1, Zenon DEF OnWire
    <3>2. \A y \in O : ~(y.ecdh = x.ecdh /\ y.message_id = x.message_id)
      BY <1>2, <1>4, <2>3
    <3> QED
      BY <3>1, <3>2
  <2>10. x.ecdh = d.our_ecdh /\ x.dh = d.our_dh
    BY <1>3, <1>4
  <2>11. ASSUME NEW y \in O \cup {x}
         PROVE  /\ y.intact
                /\ y.ecdh[1] = d.our_ecdh[1]
                /\ 0 < y.ecdh[2] /\ y.ecdh[2] <= d.our_ecdh[2]
                /\ y.message_id <= MaxSkip
                /\ y.ecdh = o.their_ecdh =>
                     /\ y.dh = o.their_dh
                     /\ y.key = [root |-> o.chain_r.root, n |-> y.message_id]
                     /\ \/ o.k <= y.message_id
                        \/ \E s \in o.skipped_keys :
                             s.ecdh = y.ecdh /\ s.k = y.message_id
                /\ o.their_ecdh[2] < y.ecdh[2] =>
                     /\ d.i = o.i + 1
                     /\ y.ecdh = d.our_ecdh /\ y.dh = d.our_dh
                     /\ y.key = [root |-> d.root_key, n |-> y.message_id]
    BY <1>4, <2>2, <2>4, <2>5, <2>6, <2>7, <2>10, Zenon
  <2> QED
    BY <2>8, <2>9, <2>11, Zenon DEF OnWire
<1>20. Side(q, o, d, O \cup {x})
  <2>1. o.i <= d.i + 1
    BY <1>3, Zenon DEF Side
  <2>2. O \cup {x} \in SUBSET Message
    BY <1>1, <1>5
  <2> QED
    BY <1>15, <1>16, <1>18, <1>19, <2>1, <2>2 DEF Side
<1> QED
  BY <1>14, <1>20 DEF d, x

\* The fields of the message that starts a ratchet, and of its sender.
LEMMA SendNewFields ==
  ASSUME NEW m \in Manager, NEW p \in Peer, m.j = 0
  PROVE  LET d   == SendData(m, p)
             x   == DataMessage(m, p)
             new == <<p, m.i + 1>>
         IN /\ d \in Manager
            /\ d.i = m.i + 1 /\ d.j = 1 /\ d.k = m.k
            /\ d.our_ecdh = new /\ d.ecdh_priv = TRUE
            /\ d.our_dh = IF m.i % 3 = 0 THEN new ELSE m.our_dh
            /\ d.dh_priv = IF m.i % 3 = 0 THEN TRUE ELSE m.dh_priv
            /\ d.their_ecdh = m.their_ecdh /\ d.their_dh = m.their_dh
            /\ d.brace_key = ZeroBrace
            /\ d.root_key = Append(m.root_key, SendSecret(m, p))
            /\ d.chain_s = [root |-> d.root_key, n |-> 1]
            /\ d.chain_r = m.chain_r /\ d.skipped_keys = m.skipped_keys
            /\ d.dangling = m.dangling
            /\ x.ecdh = new /\ x.dh = d.our_dh /\ x.message_id = 0
            /\ x.key = [root |-> d.root_key, n |-> 0] /\ x.intact = TRUE
<1> DEFINE d == SendData(m, p)
           r == RotateKeysSend(m, p)
           x == DataMessage(m, p)
<1>1. SendKeys(m, p) = r
  BY Zenon DEF SendKeys
<1>2. d \in Manager
  BY SendDataType
<1>3. /\ d.i = r.i /\ d.j = r.j + 1 /\ d.k = r.k
      /\ d.our_ecdh = r.our_ecdh /\ d.ecdh_priv = r.ecdh_priv
      /\ d.our_dh = r.our_dh /\ d.dh_priv = r.dh_priv
      /\ d.their_ecdh = r.their_ecdh /\ d.their_dh = r.their_dh
      /\ d.brace_key = r.brace_key /\ d.root_key = r.root_key
      /\ d.chain_s = NextChainKey(r.chain_s)
      /\ d.chain_r = r.chain_r /\ d.skipped_keys = r.skipped_keys
      /\ d.dangling = r.dangling
  <2>1. LET rr == SendKeys(m, p)
        IN /\ d.i = rr.i /\ d.j = rr.j + 1 /\ d.k = rr.k
           /\ d.our_ecdh = rr.our_ecdh /\ d.ecdh_priv = rr.ecdh_priv
           /\ d.our_dh = rr.our_dh /\ d.dh_priv = rr.dh_priv
           /\ d.their_ecdh = rr.their_ecdh /\ d.their_dh = rr.their_dh
           /\ d.brace_key = rr.brace_key /\ d.root_key = rr.root_key
           /\ d.chain_s = NextChainKey(rr.chain_s)
           /\ d.chain_r = rr.chain_r /\ d.skipped_keys = rr.skipped_keys
           /\ d.dangling = rr.dangling
    BY SendDataFields, Zenon
  <2> HIDE DEF d, r
  <2> QED
    BY <1>1, <2>1, Zenon
<1>4. /\ r.i = m.i + 1 /\ r.j = m.j /\ r.k = m.k
      /\ r.our_ecdh = <<p, m.i + 1>> /\ r.ecdh_priv = TRUE
      /\ r.our_dh = IF m.i % 3 = 0 THEN <<p, m.i + 1>> ELSE m.our_dh
      /\ r.dh_priv = IF m.i % 3 = 0 THEN TRUE ELSE m.dh_priv
      /\ r.their_ecdh = m.their_ecdh /\ r.their_dh = m.their_dh
      /\ r.brace_key = ZeroBrace
      /\ r.root_key = Append(m.root_key, SendSecret(m, p))
      /\ r.chain_s = [root |-> r.root_key, n |-> 0]
      /\ r.dangling = m.dangling
      /\ r.chain_r = m.chain_r /\ r.skipped_keys = m.skipped_keys
  BY RotateKeysSendFields, Zenon
<1>5. x = [ecdh |-> r.our_ecdh, dh |-> r.our_dh, previous_chain_n |-> r.pn,
           message_id |-> r.j, key |-> r.chain_s, intact |-> TRUE]
  <2> HIDE DEF r
  <2> QED
    BY <1>1, Zenon DEF DataMessage
<1> HIDE DEF d, r, x
<1>6. /\ x.ecdh = r.our_ecdh /\ x.dh = r.our_dh /\ x.message_id = r.j
      /\ x.key = r.chain_s
  BY <1>5
<1>7. x.intact = TRUE
  BY <1>5, Zenon
<1>8. d.j = 1 /\ NextChainKey(r.chain_s) = [root |-> r.root_key, n |-> 1]
  <2>1. d.j = r.j + 1 /\ r.j = 0 /\ r.chain_s = [root |-> r.root_key, n |-> 0]
    BY <1>3, <1>4, Zenon
  <2> QED
    BY <2>1 DEF NextChainKey
<1> QED
  BY <1>2, <1>3, <1>4, <1>6, <1>7, <1>8, Zenon DEF d, x

\* The root key that the sender enters is the one that the other peer will enter
\* when it receives the first message of the ratchet: the two peers are level,
\* hold the same root key and each other's public keys.
LEMMA SameNewRoot ==
  ASSUME NEW m \in Manager, NEW o \in Manager, NEW p \in Peer,
         m.i = o.i, m.root_key = o.root_key, o.ecdh_priv,
         m.their_ecdh = o.our_ecdh, m.their_dh = o.our_dh,
         m.brace_key = ZeroBrace, o.brace_key = ZeroBrace, NEW dh,
         dh = IF m.i % 3 = 0 THEN <<p, m.i + 1>> ELSE m.our_dh
  PROVE  Append(m.root_key, SendSecret(m, p)) =
           EnterNewRatchet(o, <<p, m.i + 1>>, dh)
<1> DEFINE new == <<p, m.i + 1>>
<1>1. EcdhSharedSecret(o, new) = {new, m.their_ecdh}
  <2>1. EcdhSharedSecret(o, new) = {o.our_ecdh, new}
    BY Zenon DEF EcdhSharedSecret
  <2> QED
    BY <2>1
<1>2. CalculateBraceKey(o, dh) =
        IF m.i % 3 = 0 THEN [dh |-> {new, m.their_dh}, kdfs |-> 0]
        ELSE [m.brace_key EXCEPT !.kdfs = @ + 1]
  <2>1. CASE m.i % 3 = 0
    <3>1. CalculateBraceKey(o, dh) = [dh |-> {o.our_dh, dh}, kdfs |-> 0]
      BY <2>1 DEF CalculateBraceKey
    <3>2. dh = new /\ {o.our_dh, dh} = {new, m.their_dh}
      BY <2>1
    <3> QED
      BY <2>1, <3>1, <3>2
  <2>2. CASE ~(m.i % 3 = 0)
    BY <2>2 DEF CalculateBraceKey
  <2> QED
    BY <2>1, <2>2
<1> QED
  BY <1>1, <1>2, Zenon DEF EnterNewRatchet, SendSecret

\* Sending the first message of a new ratchet keeps both sides.  A peer that may
\* start a ratchet is level with the other one: a peer that is ahead has sent in
\* its ratchet, and so has one that is behind.
LEMMA SideSendNew ==
  ASSUME NEW p \in Peer, NEW m, NEW o, NEW M, NEW O,
         Side(p, m, o, M), Side(Other(p), o, m, O),
         m.j = 0, p = "u" => m.i > 0
  PROVE  /\ Side(p, SendData(m, p), o, M)
         /\ Side(Other(p), o, SendData(m, p), O \cup {DataMessage(m, p)})
<1> DEFINE d   == SendData(m, p)
           x   == DataMessage(m, p)
           new == <<p, m.i + 1>>
           q   == Other(p)
<1>1. m \in Manager /\ o \in Manager /\ O \in SUBSET Message /\ M \in SUBSET Message
  BY DEF Side
<1>2. /\ m.i \in Nat /\ o.i \in Nat /\ o.k \in Nat /\ o.j \in Nat
      /\ m.our_ecdh \in PubKey /\ m.our_ecdh[2] \in Nat
      /\ m.their_ecdh[2] \in Nat /\ MaxSkip \in Nat
  BY <1>1, ManagerNumbers, MaxSkipAssumption
<1>3. m.i = o.i
  <2>1. o.i # m.i + 1
    <3>1. ~(m.j > 0) /\ (m.i > 0 => m.i # 0)
      BY <1>2
    <3> QED
      BY <3>1, Zenon DEF Side, OneBehind
  <2>2. m.i # o.i + 1
    <3>1. ~(m.j > 0)
      OBVIOUS
    <3> QED
      BY <3>1, Zenon DEF Side, OneBehind
  <2>3. m.i <= o.i + 1 /\ o.i <= m.i + 1
    BY DEF Side
  <2> QED
    BY <1>2, <2>1, <2>2, <2>3
<1>4. /\ m.root_key = o.root_key /\ m.their_ecdh = o.our_ecdh
      /\ o.their_ecdh = m.our_ecdh
      /\ m.i > 0 => o.j > 0
      /\ m.i % 3 = 2 => m.dh_priv
      /\ o.i = 0 \/ (o.j # 0 /\ o.i % 3 # 2) => o.dh_priv
  <2>1. ~(m.j > 0)
    OBVIOUS
  <2>2. Even(m, o) /\ Even(o, m)
    BY DEF Side
  <2> QED
    BY <1>3, <2>1, <2>2, Zenon DEF Even
<1>5. m.their_dh = o.our_dh
  BY <1>4, Zenon DEF Side, Linked
<1>6. /\ ~m.dangling /\ m.brace_key = ZeroBrace /\ o.brace_key = ZeroBrace
      /\ m.their_ecdh[2] > 0 => m.chain_r.root # <<>>
      /\ o.j > 0 \/ o.i = 0 => o.ecdh_priv
  BY Zenon DEF Side, Healthy
<1>7. o.i > 0 \/ o.i = 0
  BY <1>2
<1>8. o.ecdh_priv
  BY <1>3, <1>4, <1>6, <1>7, Zenon
<1>9. /\ d \in Manager
      /\ d.i = m.i + 1 /\ d.j = 1 /\ d.k = m.k
      /\ d.our_ecdh = new /\ d.ecdh_priv = TRUE
      /\ d.our_dh = IF m.i % 3 = 0 THEN new ELSE m.our_dh
      /\ d.dh_priv = IF m.i % 3 = 0 THEN TRUE ELSE m.dh_priv
      /\ d.their_ecdh = m.their_ecdh /\ d.their_dh = m.their_dh
      /\ d.brace_key = ZeroBrace
      /\ d.root_key = Append(m.root_key, SendSecret(m, p))
      /\ d.chain_s = [root |-> d.root_key, n |-> 1]
      /\ d.chain_r = m.chain_r /\ d.skipped_keys = m.skipped_keys
      /\ d.dangling = m.dangling
      /\ x.ecdh = new /\ x.dh = d.our_dh /\ x.message_id = 0
      /\ x.key = [root |-> d.root_key, n |-> 0] /\ x.intact = TRUE
  BY <1>1, SendNewFields, Zenon
<1>10. x \in Message
  BY <1>1, DataMessageType, MessageIsHeader
<1>11. FreshKeys(d, p) /\ Labelled(d, d.their_ecdh)
  <2>1. FreshKeys(m, p) /\ Labelled(m, m.their_ecdh)
    BY DEF Side
  <2>2. FreshKeys(d, p)
    BY <1>1, <2>1, FreshSend
  <2>3. /\ d.k = m.k /\ d.chain_r = m.chain_r /\ d.skipped_keys = m.skipped_keys
        /\ d.their_ecdh = m.their_ecdh
    BY <1>9, Zenon
  <2> HIDE DEF d
  <2> QED
    BY <2>1, <2>2, <2>3, LabelledFrame
<1>12. m.our_ecdh[2] <= m.i
  BY DEF Side, FreshKeys
<1>13. d.root_key = EnterNewRatchet(o, d.our_ecdh, d.our_dh)
  <2>1. Append(m.root_key, SendSecret(m, p)) = EnterNewRatchet(o, new, d.our_dh)
    <3>1. d.our_dh = IF m.i % 3 = 0 THEN new ELSE m.our_dh
      BY <1>9, Zenon
    <3> HIDE DEF d
    <3> QED
      BY <1>1, <1>3, <1>4, <1>5, <1>6, <1>8, <3>1, SameNewRoot, ZenonT(60)
  <2> HIDE DEF d, new
  <2> QED
    BY <1>9, <2>1, Zenon
<1> HIDE DEF d, x
<1>14. new[1] = p /\ new[2] = m.i + 1 /\ new[2] > 0 /\ m.our_ecdh[2] < new[2]
  BY <1>2, <1>12
<1> HIDE DEF new
<1>15. d.j > 0 /\ d.i # o.i /\ o.i # d.i + 1 /\ d.i = o.i + 1
  <2>1. d.j = 1 /\ d.i = m.i + 1
    BY <1>9, Zenon
  <2> QED
    BY <1>2, <1>3, <2>1
<1>16. Healthy(d)
  <2>1. d.chain_s = [root |-> d.root_key, n |-> d.j] /\ d.our_ecdh[2] > 0
    BY <1>9, <1>14, Zenon
  <2> QED
    BY <1>6, <1>9, <2>1, Zenon DEF Healthy
<1>17. Even(d, o) /\ Even(o, d)
  BY <1>15, Zenon DEF Even
<1>18. OneBehind(p, d, o)
  BY <1>15, Zenon DEF OneBehind
<1>19. Linked(d, o)
  BY <1>9, Zenon DEF Side, Linked
<1>20. OnWire(d, o, M)
  <2>1. /\ d.k = m.k /\ d.their_ecdh = m.their_ecdh /\ d.their_dh = m.their_dh
        /\ d.chain_r = m.chain_r /\ d.skipped_keys = m.skipped_keys
    BY <1>9, Zenon
  <2>2. \A y \in M : y.ecdh[2] \in Nat /\ y.ecdh[2] <= m.their_ecdh[2]
    BY <1>1, <1>4, MessageNumbers DEF Side, OnWire
  <2>3. \A y \in M : ~(m.their_ecdh[2] < y.ecdh[2])
    BY <1>2, <2>2
  <2> QED
    BY <2>1, <2>3 DEF Side, OnWire
<1>21. Side(p, d, o, M)
  <2>1. d.i <= o.i + 1
    BY <1>2, <1>15
  <2>2. d \in Manager
    BY <1>9, Zenon
  <2> QED
    BY <1>1, <1>11, <1>16, <1>17, <1>18, <1>19, <1>20, <2>1, <2>2 DEF Side
<1>22. OneBehind(q, o, d)
  <2>1. o.j > 0 \/ (o.i = 0 /\ q = "u")
    <3>1. o.i = 0 => p # "u"
      BY <1>2, <1>3
    <3>2. p = "t" \/ p = "u"
      BY DEF Peer
    <3>3. o.i = 0 => q = "u"
      BY <3>1, <3>2 DEF Other
    <3> QED
      BY <1>3, <1>4, <1>7, <3>3, Zenon
  <2>2. o.their_ecdh[2] < d.our_ecdh[2]
    BY <1>4, <1>9, <1>14, Zenon
  <2>3. o.i % 3 # 2 => o.dh_priv
    <3>1. o.j > 0 => o.j # 0
      BY <1>2
    <3> QED
      BY <1>3, <1>4, <1>7, <3>1, Zenon
  <2>4. o.i % 3 # 1 => d.dh_priv
    <3>1. m.i % 3 = 0 \/ m.i % 3 = 1 \/ m.i % 3 = 2
      BY <1>2
    <3> QED
      BY <1>3, <1>4, <1>9, <3>1, Zenon
  <2>5. d.their_ecdh = o.our_ecdh
    BY <1>4, <1>9, Zenon
  <2> QED
    BY <1>13, <1>15, <2>1, <2>2, <2>3, <2>4, <2>5, Zenon DEF OneBehind
<1>23. Linked(o, d)
  <2>1. o.their_ecdh # d.our_ecdh
    <3>1. d.our_ecdh = new /\ o.their_ecdh = m.our_ecdh
      BY <1>4, <1>9, Zenon
    <3> QED
      BY <1>2, <1>14, <3>1
  <2> QED
    BY <2>1, Zenon DEF Linked
<1>24. OnWire(o, d, O \cup {x})
  <2>1. OnWire(o, m, O)
    BY DEF Side
  <2>2. d.our_ecdh = new /\ d.our_ecdh[1] = m.our_ecdh[1]
    <3>1. m.our_ecdh[1] = p
      BY DEF Side, FreshKeys
    <3> QED
      BY <1>9, <1>14, <3>1, Zenon
  <2>3. ASSUME NEW y \in O
        PROVE  /\ y.ecdh[2] \in Nat /\ y.ecdh[2] < new[2]
               /\ y.ecdh[2] <= new[2] /\ y.ecdh # new
               /\ ~(o.their_ecdh[2] < y.ecdh[2])
    <3>1. y.ecdh[2] \in Nat /\ y.ecdh[2] <= m.our_ecdh[2]
      BY <1>1, <2>1, MessageNumbers DEF OnWire
    <3>2. new[2] \in Nat
      BY <1>2, <1>14
    <3> QED
      BY <1>2, <1>4, <1>14, <3>1, <3>2
  <2>4. ASSUME NEW y \in O
        PROVE  /\ y.intact
               /\ y.ecdh[1] = d.our_ecdh[1]
               /\ 0 < y.ecdh[2]
               /\ y.message_id <= MaxSkip
               /\ y.ecdh = o.their_ecdh =>
                    /\ y.dh = o.their_dh
                    /\ y.key = [root |-> o.chain_r.root, n |-> y.message_id]
                    /\ \/ o.k <= y.message_id
                       \/ \E s \in o.skipped_keys :
                            s.ecdh = y.ecdh /\ s.k = y.message_id
    BY <2>1, <2>2, Zenon DEF OnWire
  <2>5. /\ x.ecdh = d.our_ecdh /\ x.dh = d.our_dh /\ x.intact
        /\ x.message_id = 0 /\ x.ecdh = new
        /\ x.key = [root |-> d.root_key, n |-> x.message_id]
        /\ d.j = 1
    BY <1>9, Zenon
  <2>6. /\ 0 < x.ecdh[2] /\ x.ecdh[2] <= d.our_ecdh[2]
        /\ x.message_id <= MaxSkip /\ x.message_id < d.j
    BY <1>2, <1>14, <2>5
  <2>7. x.ecdh # o.their_ecdh
    BY <1>2, <1>4, <1>14, <2>5
  <2>8. \A y, z \in O \cup {x} :
          y.ecdh = z.ecdh /\ y.message_id = z.message_id => y = z
    <3>1. \A y, z \in O : y.ecdh = z.ecdh /\ y.message_id = z.message_id => y = z
      BY <2>1, Zenon DEF OnWire
    <3>2. \A y \in O : y.ecdh # x.ecdh
      BY <2>3, <2>5
    <3> QED
      BY <3>1, <3>2
  <2>9. ASSUME NEW y \in O \cup {x}
        PROVE  /\ y.intact
               /\ y.ecdh[1] = d.our_ecdh[1]
               /\ 0 < y.ecdh[2] /\ y.ecdh[2] <= d.our_ecdh[2]
               /\ y.message_id <= MaxSkip
               /\ y.ecdh = d.our_ecdh /\ d.j > 0 => y.message_id < d.j
               /\ y.ecdh = o.their_ecdh =>
                    /\ y.dh = o.their_dh
                    /\ y.key = [root |-> o.chain_r.root, n |-> y.message_id]
                    /\ \/ o.k <= y.message_id
                       \/ \E s \in o.skipped_keys :
                            s.ecdh = y.ecdh /\ s.k = y.message_id
               /\ o.their_ecdh[2] < y.ecdh[2] =>
                    /\ d.i = o.i + 1
                    /\ y.ecdh = d.our_ecdh /\ y.dh = d.our_dh
                    /\ y.key = [root |-> d.root_key, n |-> y.message_id]
    BY <1>15, <2>2, <2>3, <2>4, <2>5, <2>6, <2>7, ZenonT(40)
  <2> QED
    BY <2>8, <2>9, Zenon DEF OnWire
<1>25. Side(q, o, d, O \cup {x})
  <2>1. o.i <= d.i + 1
    BY <1>2, <1>15
  <2>2. O \cup {x} \in SUBSET Message
    BY <1>1, <1>10
  <2> QED
    BY <1>17, <1>22, <1>23, <1>24, <2>1, <2>2 DEF Side
<1> QED
  BY <1>21, <1>25 DEF d, x

-----------------------------------------------------------------------------
(***************************************************************************)
(* The invariant is inductive.                                             *)
(***************************************************************************)

\* Both sides at once, seen from p.
Both(p, m, o, M, O) == Side(p, m, o, M) /\ Side(Other(p), o, m, O)

\* Sending keeps both sides, and the counter does not go back to 0.
LEMMA BothSend ==
  ASSUME NEW p \in Peer, NEW m, NEW o, NEW M, NEW O, Both(p, m, o, M, O),
         m.j <= MaxSkip, p = "u" => m.i > 0
  PROVE  /\ Both(p, SendData(m, p), o, M, O \cup {DataMessage(m, p)})
         /\ m.i > 0 => SendData(m, p).i > 0
<1>1. Side(p, m, o, M) /\ Side(Other(p), o, m, O) /\ m \in Manager
  BY DEF Both, Side
<1>2. CASE m.j = 0
  <2>1. /\ Side(p, SendData(m, p), o, M)
        /\ Side(Other(p), o, SendData(m, p), O \cup {DataMessage(m, p)})
    BY <1>1, <1>2, SideSendNew, ZenonT(40)
  <2>2. SendData(m, p).i = m.i + 1
    BY <1>1, <1>2, SendNewFields, Zenon
  <2>3. m.i > 0 => m.i + 1 > 0
    BY <1>1, ManagerNumbers
  <2> QED
    BY <2>1, <2>2, <2>3, Zenon DEF Both
<1>3. CASE m.j # 0
  <2>1. /\ Side(p, SendData(m, p), o, M)
        /\ Side(Other(p), o, SendData(m, p), O \cup {DataMessage(m, p)})
    BY <1>1, <1>3, SideSendSame, ZenonT(40)
  <2>2. SendData(m, p).i = m.i
    BY <1>1, <1>3, SendSameFields, Zenon
  <2> QED
    BY <2>1, <2>2, Zenon DEF Both
<1> QED
  BY <1>2, <1>3

\* Receiving a message that is not late keeps both sides, and the receiver is
\* past its first ratchet.
LEMMA BothReceive ==
  ASSUME NEW p \in Peer, NEW m, NEW o, NEW M, NEW O, Both(p, m, o, M, O),
         NEW msg \in M, m.their_ecdh[2] <= msg.ecdh[2]
  PROVE  /\ Both(p, ReceiveRatchet(m, msg), o, M \ {msg}, O)
         /\ p = "u" => ReceiveRatchet(m, msg).i > 0
<1>1. /\ Side(p, m, o, M) /\ Side(Other(p), o, m, O)
      /\ m \in Manager /\ o \in Manager /\ M \in SUBSET Message
  BY DEF Both, Side
<1>2. /\ msg \in Header /\ m.i \in Nat /\ o.i \in Nat
      /\ m.their_ecdh[2] \in Nat /\ o.our_ecdh[2] \in Nat
  BY <1>1, MessageNumbers, ManagerNumbers
<1>3. CASE msg.ecdh = m.their_ecdh
  <2>1. /\ Side(p, ReceiveRatchet(m, msg), o, M \ {msg})
        /\ Side(Other(p), o, ReceiveRatchet(m, msg), O)
    BY <1>1, <1>3, SideReceiveCurrent, ZenonT(40)
  <2>2. m.i > 0
    <3>1. 0 < m.their_ecdh[2]
      BY <1>1, <1>3 DEF Side, OnWire
    <3>2. o.our_ecdh[2] <= o.i
      BY <1>1 DEF Side, FreshKeys
    <3>3. m.i = o.i => m.their_ecdh = o.our_ecdh
      BY <1>1, Zenon DEF Side, Even
    <3>4. o.i = m.i + 1 => m.their_ecdh[2] < o.our_ecdh[2]
      BY <1>1, Zenon DEF Side, OneBehind
    <3>5. m.i <= o.i + 1 /\ o.i <= m.i + 1
      BY <1>1, Zenon DEF Side
    <3> QED
      BY <1>2, <3>1, <3>2, <3>3, <3>4, <3>5
  <2>3. ReceiveRatchet(m, msg).i = m.i
    BY <1>1, <1>2, <1>3, ReceiveRatchetFields, Zenon DEF IsNewRatchet
  <2> QED
    BY <2>1, <2>2, <2>3, Zenon DEF Both
<1>4. CASE m.their_ecdh[2] < msg.ecdh[2]
  <2>1. /\ Side(p, ReceiveRatchet(m, msg), o, M \ {msg})
        /\ Side(Other(p), o, ReceiveRatchet(m, msg), O)
    BY <1>1, <1>4, SideReceiveNewer, ZenonT(40)
  <2>2. IsNewRatchet(m, msg)
    BY <1>1, <1>4, NewerMessage, ZenonT(120)
  <2>3. ReceiveRatchet(m, msg).i = m.i + 1
    BY <1>1, <1>2, <2>2, ReceiveRatchetFields, Zenon
  <2>4. m.i + 1 > 0
    BY <1>2
  <2> QED
    BY <2>1, <2>3, <2>4, Zenon DEF Both
<1>5. msg.ecdh = m.their_ecdh \/ m.their_ecdh[2] < msg.ecdh[2]
  BY <1>1, CurrentOrNewer, ZenonT(40)
<1> QED
  BY <1>3, <1>4, <1>5

\* Changing the kept MAC keys keeps both sides.
LEMMA BothMacKeys ==
  ASSUME NEW p \in Peer, NEW m, NEW o, NEW M, NEW O, Both(p, m, o, M, O),
         NEW S \in SUBSET ChainKey
  PROVE  /\ Both(p, WithMacKeys(m, S), o, M, O)
         /\ WithMacKeys(m, S).i = m.i /\ WithMacKeys(m, S).j = m.j
<1>1. Side(p, m, o, M) /\ Side(Other(p), o, m, O) /\ m \in Manager
  BY DEF Both, Side
<1>2. Side(p, WithMacKeys(m, S), o, M) /\ Side(Other(p), o, WithMacKeys(m, S), O)
  BY <1>1, SideMacKeys, ZenonT(40)
<1>3. WithMacKeys(m, S).i = m.i /\ WithMacKeys(m, S).j = m.j
  BY <1>1, WithMacKeysFields, Zenon
<1> QED
  BY <1>2, <1>3 DEF Both

\* What p's step makes of the peers: K and N are the managers and the messages.
BothAt(p, K, N) == Both(p, K[p], K[Other(p)], N[p], N[Other(p)])

\* It does not matter from which side one looks.
LEMMA EitherSide ==
  ASSUME NEW p \in Peer, NEW K, NEW N
  PROVE  BothAt(p, K, N) <=>
           \A q \in Peer : Side(q, K[q], K[Other(q)], N[q])
<1>1. Other(Other(p)) = p /\ Other(p) \in Peer
      /\ \A q \in Peer : q = p \/ q = Other(p)
  BY DEF Peer, Other
<1> QED
  BY <1>1, Zenon DEF BothAt, Both

\* A message that the network may deliver decrypts, and it is gone afterwards.
LEMMA Deliver ==
  ASSUME Benign, NEW p \in Peer, NEW msg \in Deliverable(p),
         BothAt(p, keys, net)
  PROVE  /\ msg \in net[p] /\ keys[p].their_ecdh[2] <= msg.ecdh[2]
         /\ Accepts(p, msg)
         /\ Leftovers(p, msg) = {net[p] \ {msg}}
<1> DEFINE m == keys[p]
<1>1. /\ Side(p, m, keys[Other(p)], net[p])
      /\ Side(Other(p), keys[Other(p)], m, net[Other(p)])
      /\ m \in Manager /\ net[p] \in SUBSET Message
  BY DEF BothAt, Both, Side
<1>2. "late" \notin Faults /\ "duplicate" \notin Faults
  BY DEF Benign
<1>3. msg \in net[p] /\ ~IsLate(p, msg)
  BY <1>2 DEF Deliverable
<1>4. m.their_ecdh[2] <= msg.ecdh[2]
  BY <1>1, <1>3, MessageNumbers, ManagerNumbers DEF IsLate
<1>5. /\ ReceiveKey(m, msg) = msg.key /\ msg.intact
      /\ ~m.dangling /\ ~UsesNullKey(m, msg)
  <2> HIDE DEF m
  <2> QED
    BY <1>1, <1>3, <1>4, SideAccepts, ZenonT(40)
<1>6. Accepts(p, msg)
  BY <1>5, Zenon DEF Accepts, IsUndefined, IsValid
<1>7. Leftovers(p, msg) = {net[p] \ {msg}}
  BY <1>2 DEF Leftovers
<1> QED
  BY <1>3, <1>4, <1>6, <1>7

\* The invariant of a step that changes the manager of p and both networks.
LEMMA StepOfPeer ==
  ASSUME TypeOK, PeersInStep, NEW p \in Peer, NEW m, NEW M, NEW O,
         Both(p, m, keys[Other(p)], M, O),
         keys' = [keys EXCEPT ![p] = m],
         net' = [net EXCEPT ![p] = M, ![Other(p)] = O],
         p = "u" => (state' = state /\ (keys[p].i > 0 => m.i > 0)) \/ m.i > 0,
         p # "u" => state'["u"] = state["u"]
  PROVE  PeersInStep'
<1>1. Other(p) \in Peer /\ Other(p) # p /\ "u" \in Peer
  BY OtherPeer DEF Peer
<1>2. /\ keys'[p] = m /\ keys'[Other(p)] = keys[Other(p)]
      /\ net'[p] = M /\ net'[Other(p)] = O
  BY <1>1 DEF TypeOK
<1>3. BothAt(p, keys', net')
  BY <1>2, Zenon DEF BothAt
<1>4. \A q \in Peer : Side(q, keys'[q], keys'[Other(q)], net'[q])
  BY <1>3, EitherSide
<1>5. state'["u"] = "ENCRYPTED_MESSAGES" => keys'["u"].i > 0
  <2>1. state["u"] = "ENCRYPTED_MESSAGES" => keys["u"].i > 0
    BY DEF PeersInStep
  <2>2. CASE p = "u"
    BY <1>2, <2>1, <2>2
  <2>3. CASE p # "u"
    <3>1. keys'["u"] = keys["u"]
      BY <1>1, <2>3 DEF TypeOK
    <3> QED
      BY <2>1, <2>3, <3>1
  <2> QED
    BY <2>2, <2>3
<1> QED
  BY <1>4, <1>5, Zenon DEF PeersInStep

\* A message that is decrypted and answered at once.
LEMMA AnswerInStep ==
  ASSUME TypeOK, PeersInStep, Benign, NEW p \in Peer, NEW msg \in Deliverable(p),
         NEW S \in SUBSET ChainKey, NEW stored \in SUBSET ChainKey,
         AnswerWith(p, msg, WithMacKeys(ReceiveRatchet(keys[p], msg), S), stored)
  PROVE  PeersInStep'
<1> DEFINE o == keys[Other(p)]
           r == ReceiveRatchet(keys[p], msg)
           m == WithMacKeys(r, S)
           d == SendData(m, p)
           T == d.old_mac_keys \cup stored
           n == WithMacKeys(d, T)
           M == net[p] \ {msg}
           O == net[Other(p)] \cup {DataMessage(m, p)}
<1>1. BothAt(p, keys, net)
  BY EitherSide DEF PeersInStep
<1>2. /\ msg \in net[p] /\ keys[p].their_ecdh[2] <= msg.ecdh[2]
      /\ Leftovers(p, msg) = {M}
  BY <1>1, Deliver, ZenonT(40)
<1>3. Both(p, r, o, M, net[Other(p)]) /\ (p = "u" => r.i > 0)
  BY <1>1, <1>2, BothReceive, ZenonT(40) DEF BothAt
<1> HIDE DEF r
<1>4. Both(p, m, o, M, net[Other(p)]) /\ m.i = r.i
  BY <1>3, BothMacKeys, ZenonT(40)
<1>5. m \in Manager /\ m.j \in Nat /\ MaxMessages \in Nat /\ MaxSkip \in Nat
  BY <1>4, ManagerNumbers, BoundsAssumption, MaxSkipAssumption DEF Both, Side
<1>6. /\ state' = state
      /\ m.j < MaxMessages
      /\ keys' = [keys EXCEPT ![p] = n]
      /\ \E left \in Leftovers(p, msg) :
           net' = [net EXCEPT ![p] = left, ![Other(p)] = @ \cup {DataMessage(m, p)}]
  BY DEF AnswerWith, WithinBounds, WithMacKeys, r
<1> HIDE DEF m
<1>7. m.j <= MaxSkip
  BY <1>5, <1>6 DEF Benign
<1>8. Both(p, d, o, M, O) /\ (m.i > 0 => d.i > 0)
  BY <1>3, <1>4, <1>7, BothSend, ZenonT(40)
<1>9. T \in SUBSET ChainKey
  <2>1. d \in Manager
    BY <1>5, SendDataType
  <2> HIDE DEF d
  <2> QED
    BY <2>1 DEF Manager
<1> HIDE DEF d, T
<1>10. Both(p, n, o, M, O) /\ n.i = d.i
  BY <1>8, <1>9, BothMacKeys, ZenonT(40)
<1>11. net' = [net EXCEPT ![p] = M, ![Other(p)] = O]
  <2>1. net' = [net EXCEPT ![p] = M, ![Other(p)] = @ \cup {DataMessage(m, p)}]
    BY <1>2, <1>6
  <2>2. Other(p) # p /\ Other(p) \in Peer
    BY OtherPeer
  <2> QED
    BY <2>1, <2>2 DEF TypeOK
<1>12. p = "u" => n.i > 0
  BY <1>3, <1>4, <1>8, <1>10, Zenon
<1> HIDE DEF n, M, O
<1> QED
  BY <1>6, <1>10, <1>11, <1>12, StepOfPeer DEF o

\* Every step of a benign network and of its peers keeps the peers in step.
LEMMA InStepIsKept ==
  ASSUME Benign
  PROVE  TypeOK /\ PeersInStep /\ [Next]_vars => PeersInStep'
<1> SUFFICES ASSUME TypeOK, PeersInStep, [Next]_vars
             PROVE  PeersInStep'
  OBVIOUS
<1> USE OtherPeer
<1>1. ASSUME NEW p \in Peer PROVE BothAt(p, keys, net)
  BY EitherSide DEF PeersInStep
<1>2. ASSUME NEW p \in Peer, Send(p) PROVE PeersInStep'
  <2> DEFINE m == keys[p]
             o == keys[Other(p)]
             O == net[Other(p)] \cup {DataMessage(m, p)}
  <2>1. /\ state[p] = "ENCRYPTED_MESSAGES" /\ m.j < MaxMessages
        /\ keys' = [keys EXCEPT ![p] = SendData(m, p)]
        /\ net' = [net EXCEPT ![Other(p)] = @ \cup {DataMessage(m, p)}]
        /\ state' = state
    BY <1>2 DEF Send, WithinBounds
  <2>2. Both(p, m, o, net[p], net[Other(p)])
    BY <1>1 DEF BothAt
  <2>3. m.j <= MaxSkip
    <3>1. m.j \in Nat /\ MaxMessages \in Nat /\ MaxSkip \in Nat
      BY ManagerNumbers, BoundsAssumption, MaxSkipAssumption DEF TypeOK
    <3> QED
      BY <2>1, <3>1 DEF Benign
  <2>4. p = "u" => m.i > 0
    BY <2>1 DEF PeersInStep
  <2>5. Both(p, SendData(m, p), o, net[p], O) /\ (m.i > 0 => SendData(m, p).i > 0)
    BY <2>2, <2>3, <2>4, BothSend, ZenonT(40)
  <2>6. net' = [net EXCEPT ![p] = net[p], ![Other(p)] = O]
    BY <2>1 DEF TypeOK
  <2> DEFINE d == SendData(m, p)
  <2>7. /\ keys' = [keys EXCEPT ![p] = d] /\ Both(p, d, o, net[p], O)
        /\ (p = "u" => d.i > 0)
    BY <2>1, <2>4, <2>5
  <2> HIDE DEF O, d
  <2> QED
    BY <2>1, <2>6, <2>7, StepOfPeer DEF o
<1>3. ASSUME NEW p \in Peer, NEW msg \in net[p], Receive(p, msg)
      PROVE  PeersInStep'
  <2> DEFINE r == ReceiveRatchet(keys[p], msg)
             S == r.old_mac_keys \cup {msg.key}
             o == keys[Other(p)]
             M == net[p] \ {msg}
             O == net[Other(p)]
  <2>1. msg \in Header /\ msg.key \in ChainKey
    BY NetMessage
  <2>2. r \in Manager
    BY <2>1, ReceiveRatchetType DEF TypeOK
  <2>3. r.old_mac_keys \in SUBSET ChainKey /\ WithMacKeys(r, r.old_mac_keys) = r
    BY <2>2, SameMacKeys
  <2>4. S \in SUBSET ChainKey /\ {msg.key} \in SUBSET ChainKey
        /\ {} \in SUBSET ChainKey
    BY <2>1, <2>3
  <2>5. StoreOldMacKey(r, msg.key) = WithMacKeys(r, S)
    BY DEF StoreOldMacKey, WithMacKeys
  <2>6. msg \in Deliverable(p)
    BY <1>3 DEF Receive, ReceiveQuiet, ReceiveAndReplyTlv, ReceiveAndHeartbeat,
                ReceiveAndFailToAnswer, Accept, Reject, Crash
  <2>7. /\ keys[p].their_ecdh[2] <= msg.ecdh[2]
        /\ Accepts(p, msg) /\ Leftovers(p, msg) = {M}
    BY <1>1, <2>6, Deliver, ZenonT(40)
  <2>8. Both(p, r, o, M, O) /\ (p = "u" => r.i > 0)
    BY <1>1, <2>7, BothReceive, ZenonT(40) DEF BothAt
  <2> HIDE DEF r, S
  <2>9. Both(p, WithMacKeys(r, S), o, M, O) /\ WithMacKeys(r, S).i = r.i
    BY <2>4, <2>8, BothMacKeys, ZenonT(40)
  <2>10. ASSUME NEW n, n \in {r, WithMacKeys(r, S)},
                keys' = [keys EXCEPT ![p] = n],
                \E left \in Leftovers(p, msg) : net' = [net EXCEPT ![p] = left],
                p # "u" => state'["u"] = state["u"]
         PROVE  PeersInStep'
    <3>1. Both(p, n, o, M, O) /\ (p = "u" => n.i > 0)
      BY <2>8, <2>9, <2>10
    <3>2. net' = [net EXCEPT ![p] = M, ![Other(p)] = O]
      BY <2>7, <2>10 DEF TypeOK
    <3> HIDE DEF M, O
    <3> QED
      BY <2>10, <3>1, <3>2, StepOfPeer DEF o
  <2>11. CASE ReceiveQuiet(p, msg)
    <3>1. /\ keys' = [keys EXCEPT ![p] = WithMacKeys(r, S)]
          /\ \E left \in Leftovers(p, msg) : net' = [net EXCEPT ![p] = left]
          /\ state' = [state EXCEPT ![p] = "ENCRYPTED_MESSAGES"]
      BY <2>5, <2>11 DEF ReceiveQuiet, r
    <3>2. p # "u" => state'["u"] = state["u"]
      BY <3>1 DEF TypeOK, Peer
    <3> QED
      BY <2>10, <3>1, <3>2
  <2>12. CASE ReceiveAndReplyTlv(p, msg)
    <3>1. AnswerWith(p, msg, WithMacKeys(r, r.old_mac_keys), {msg.key})
      BY <2>3, <2>12 DEF ReceiveAndReplyTlv, r
    <3> QED
      BY <2>3, <2>4, <2>6, <3>1, AnswerInStep DEF r
  <2>13. CASE ReceiveAndHeartbeat(p, msg)
    <3>1. AnswerWith(p, msg, WithMacKeys(r, S), {})
      BY <2>5, <2>13 DEF ReceiveAndHeartbeat, r
    <3> QED
      BY <2>4, <2>6, <3>1, AnswerInStep DEF r
  <2>14. ASSUME NEW reply \in Replies, ReceiveAndFailToAnswer(p, msg, reply)
         PROVE  PeersInStep'
    <3> DEFINE n == IF reply = "tlv" THEN r ELSE WithMacKeys(r, S)
    <3>1. /\ keys' = [keys EXCEPT ![p] = n]
          /\ \E left \in Leftovers(p, msg) : net' = [net EXCEPT ![p] = left]
          /\ state' = state
      BY <2>5, <2>14 DEF ReceiveAndFailToAnswer, r
    <3>2. n \in {r, WithMacKeys(r, S)}
      OBVIOUS
    <3> HIDE DEF n
    <3> QED
      BY <2>10, <3>1, <3>2
  <2>15. ~Reject(p, msg) /\ ~Crash(p, msg)
    BY <2>7 DEF Reject, Crash, Accepts
  <2> QED
    BY <1>3, <2>11, <2>12, <2>13, <2>14, <2>15 DEF Receive
<1>4. ASSUME NEW p \in Peer, NEW msg \in net[p], Lose(p, msg)
      PROVE  PeersInStep'
  <2> DEFINE M == net[p] \ {msg}
             m == keys[p]
             o == keys[Other(p)]
             O == net[Other(p)]
  <2>1. keys' = keys /\ state' = state /\ net' = [net EXCEPT ![p] = M]
    BY <1>4 DEF Lose
  <2>2. Both(p, m, o, M, O)
    <3>1. Side(p, m, o, net[p]) /\ Side(Other(p), o, m, O)
      BY <1>1 DEF BothAt, Both
    <3>2. M \subseteq net[p]
      OBVIOUS
    <3> QED
      BY <3>1, <3>2, SideLose DEF Both
  <2>3. /\ keys' = [keys EXCEPT ![p] = m]
        /\ net' = [net EXCEPT ![p] = M, ![Other(p)] = O]
    BY <2>1 DEF TypeOK
  <2> HIDE DEF M, O, m
  <2>4. keys[p].i > 0 => m.i > 0
    BY DEF m
  <2> QED
    BY <2>1, <2>2, <2>3, <2>4, StepOfPeer DEF o
<1>5. ASSUME NEW p \in Peer, NEW msg \in net[p], Corrupt(p, msg)
      PROVE  PeersInStep'
  BY <1>5 DEF Corrupt, Benign
<1>6. CASE UNCHANGED vars
  BY <1>6 DEF vars, PeersInStep
<1> QED
  BY <1>2, <1>3, <1>4, <1>5, <1>6 DEF Next

-----------------------------------------------------------------------------
\* Both managers start level, on the empty root key.
LEMMA InStepInitially == Init => PeersInStep
<1> SUFFICES ASSUME Init PROVE PeersInStep
  OBVIOUS
<1>1. ASSUME NEW p \in Peer
      PROVE  Side(p, keys[p], keys[Other(p)], net[p])
  <2> DEFINE q == Other(p)
             m == RatchetingInit(p)
             o == RatchetingInit(q)
  <2>1. q \in Peer /\ Other(q) = p
    BY OtherOther
  <2>2. keys[p] = m /\ keys[q] = o /\ net[p] = {}
    BY <2>1 DEF Init
  <2>3. m \in Manager /\ FreshKeys(m, p)
    BY InitType, FreshInit
  <2>4. /\ m.i = 0 /\ m.j = 0 /\ m.k = 0 /\ m.root_key = <<>>
        /\ m.our_ecdh = <<p, 0>> /\ m.our_dh = <<p, 0>>
        /\ m.their_ecdh = <<q, 0>> /\ m.their_dh = <<q, 0>>
        /\ m.brace_key = ZeroBrace /\ m.skipped_keys = {}
        /\ m.chain_r = EmptyChain
    BY DEF RatchetingInit
  <2>5. m.ecdh_priv = TRUE /\ m.dh_priv = TRUE /\ m.dangling = FALSE
    BY Zenon DEF RatchetingInit
  <2>6. /\ o.i = 0 /\ o.j = 0 /\ o.root_key = <<>>
        /\ o.our_ecdh = <<q, 0>> /\ o.our_dh = <<q, 0>>
    BY DEF RatchetingInit
  <2> HIDE DEF m, o
  <2>7. Labelled(m, m.their_ecdh)
    BY <2>4 DEF Labelled, EmptyChain
  <2>8. ~(0 > 0) /\ ~(m.their_ecdh[2] > 0) /\ 0 # 0 + 1 /\ 0 <= 0 + 1
    BY <2>4
  <2>9. Healthy(m)
    BY <2>4, <2>5, <2>8, Zenon DEF Healthy
  <2>10. Even(m, o)
    BY <2>4, <2>5, <2>6, <2>8, Zenon DEF Even
  <2>11. OneBehind(p, m, o)
    BY <2>4, <2>6, <2>8, Zenon DEF OneBehind
  <2>12. Linked(m, o)
    BY <2>4, <2>6, <2>8, Zenon DEF Linked
  <2>13. OnWire(m, o, {})
    BY Zenon DEF OnWire
  <2>14. m.i <= o.i + 1 /\ {} \in SUBSET Message
    BY <2>4, <2>6, <2>8
  <2>15. Side(p, m, o, {})
    BY <2>3, <2>7, <2>9, <2>10, <2>11, <2>12, <2>13, <2>14 DEF Side
  <2> QED
    BY <2>2, <2>15
<1>2. state["u"] # "ENCRYPTED_MESSAGES"
  BY DEF Init, Peer
<1> QED
  BY <1>1, <1>2, Zenon DEF PeersInStep

\* The inductive invariant holds for every length of a conversation.
LEMMA AlwaysInStep ==
  ASSUME Benign
  PROVE  Spec => []PeersInStep
  BY InStepInitially, InStepIsKept, TypeCorrect, PTL DEF Spec

\* The peers stay in step, for every number of ratchets, messages and skipped
\* keys: in a network that loses and reorders but does not hold a message back
\* until its ratchet is over, every message that arrives decrypts with the key
\* its receiver derives, and no destroyed or freed key is used for it.  A gap
\* may be as wide as the number of messages whose keys may be stored.
THEOREM PeersStayInStep ==
  ASSUME Benign
  PROVE  Spec => []InStep
<1>1. PeersInStep => InStep
  <2> SUFFICES ASSUME PeersInStep, NEW p \in Peer, NEW msg \in Deliverable(p)
               PROVE  Accepts(p, msg)
    BY DEF InStep
  <2>1. BothAt(p, keys, net)
    BY EitherSide DEF PeersInStep
  <2> QED
    BY <2>1, Deliver, ZenonT(40)
<1> QED
  BY <1>1, AlwaysInStep, PTL

\* The ratchet counters of the peers differ by at most one, and peers with equal
\* counters hold the same root key, in the same networks.
THEOREM RatchetsDoAlternate ==
  ASSUME Benign
  PROVE  Spec => []RatchetsAlternate
<1>1. PeersInStep => RatchetsAlternate
  <2> SUFFICES ASSUME PeersInStep PROVE RatchetsAlternate
    OBVIOUS
  <2>1. "t" \in Peer /\ "u" \in Peer /\ Other("t") = "u" /\ Other("u") = "t"
    BY DEF Peer, Other
  <2>2. /\ Side("t", keys["t"], keys["u"], net["t"])
        /\ Side("u", keys["u"], keys["t"], net["u"])
    BY <2>1, Zenon DEF PeersInStep
  <2>3. Even(keys["t"], keys["u"])
    BY <2>2 DEF Side
  <2>4. keys["t"].i <= keys["u"].i + 1 /\ keys["u"].i <= keys["t"].i + 1
    BY <2>2, Zenon DEF Side
  <2> QED
    BY <2>3, <2>4, Zenon DEF RatchetsAlternate, Even
<1> QED
  BY <1>1, AlwaysInStep, PTL

-----------------------------------------------------------------------------
(***************************************************************************)
(* The two directions.  Every rotation makes the root key one secret       *)
(* longer, and the peers take turns: "t" sends on the root keys of odd     *)
(* length and "u" on those of even length, whatever the network does.      *)
(***************************************************************************)

\* A root key of length n belongs to a ratchet of p.
OwnTurn(n, p) == n % 2 = IF p = "t" THEN 1 ELSE 0

\* A manager that is sending is on a ratchet of its own, one that has to start a
\* ratchet is on one of the other peer; "u" is on none at first.
Direction(m, p) ==
  /\ m.j > 0 => OwnTurn(Len(m.chain_s.root), p) /\ OwnTurn(Len(m.root_key), p)
  /\ m.j = 0 => ~OwnTurn(Len(m.root_key), p) \/ (p = "u" /\ m.root_key = <<>>)

\* The inductive invariant: what is on the way was sent, "u" sends only when it has
\* accepted a message, and each peer's messages are sealed with keys of its ratchets.
Directed ==
  /\ \A p \in Peer : /\ Direction(keys[p], p)
                     /\ \A x \in sent[p] : OwnTurn(Len(x.root), p)
                     /\ \A msg \in net[p] : msg.key \in sent[Other(p)]
  /\ state["u"] = "ENCRYPTED_MESSAGES" => keys["u"].root_key # <<>> /\ got["u"] # {}

\* No key serves for messages in both directions.
KeysApart == \A p \in Peer : sent[p] \cap sent[Other(p)] = {}

\* The turns alternate.
LEMMA OwnTurns ==
  /\ \A n \in Nat, p \in Peer : OwnTurn(n + 1, p) <=> ~OwnTurn(n, p)
  /\ \A n \in Nat, p \in Peer : OwnTurn(n, Other(p)) <=> ~OwnTurn(n, p)
  /\ OwnTurn(0, "u")
  BY DEF OwnTurn, Peer, Other

\* Only the message counter, the sending chain and the root key matter.
LEMMA DirectionFrame ==
  ASSUME NEW m, NEW r, NEW p, Direction(m, p),
         r.j = m.j, r.chain_s = m.chain_s, r.root_key = m.root_key
  PROVE  Direction(r, p)
  BY DEF Direction

\* A message that is sent is sealed with a key of the sender's ratchet.
LEMMA DirectionSend ==
  ASSUME NEW m \in Manager, NEW p \in Peer, Direction(m, p),
         p = "t" \/ m.root_key # <<>>
  PROVE  /\ Direction(SendData(m, p), p)
         /\ SendData(m, p).root_key # <<>> \/ p = "t"
         /\ DataMessage(m, p).key \in ChainKey
         /\ OwnTurn(Len(DataMessage(m, p).key.root), p)
<1> DEFINE r == SendKeys(m, p)
           d == SendData(m, p)
<1>1. /\ r \in Manager /\ d.j = r.j + 1 /\ d.root_key = r.root_key
      /\ d.chain_s = NextChainKey(r.chain_s)
      /\ DataMessage(m, p).key = r.chain_s
  BY SendKeysType, SendDataFields DEF DataMessage
<1>2. /\ r.chain_s \in ChainKey /\ r.j \in Nat /\ m.j \in Nat
      /\ m.root_key \in Seq(Secret) /\ Len(m.root_key) \in Nat
  BY <1>1 DEF Manager
<1>3. /\ OwnTurn(Len(r.chain_s.root), p) /\ OwnTurn(Len(r.root_key), p)
      /\ r.root_key # <<>> \/ p = "t"
  <2>1. CASE m.j # 0
    <3>1. r = m
      BY <2>1 DEF SendKeys
    <3> QED
      BY <1>2, <2>1, <3>1 DEF Direction
  <2>2. CASE m.j = 0
    <3>1. r = RotateKeysSend(m, p)
      BY <2>2 DEF SendKeys
    <3>2. /\ r.root_key = Append(m.root_key, SendSecret(m, p))
          /\ r.chain_s = [root |-> r.root_key, n |-> 0]
      BY <3>1, RotateKeysSendFields, Zenon
    <3> HIDE DEF r
    <3>3. Len(r.root_key) = Len(m.root_key) + 1 /\ r.chain_s.root = r.root_key
          /\ r.root_key # <<>>
      <4>1. Append(m.root_key, SendSecret(m, p)) \in Seq(Secret \cup {SendSecret(m, p)})
        BY <1>2
      <4> QED
        BY <1>2, <3>2, <4>1
    <3>4. ~OwnTurn(Len(m.root_key), p)
      <4>1. p = "u" => p # "t"
        OBVIOUS
      <4> QED
        BY <2>2, <4>1 DEF Direction
    <3> QED
      BY <1>2, <3>3, <3>4, OwnTurns
  <2> QED
    BY <2>1, <2>2
<1> HIDE DEF r, d
<1>4. d.j > 0 /\ d.j # 0 /\ d.chain_s.root = r.chain_s.root
  BY <1>1, <1>2, NextChainKeyType
<1> QED
  BY <1>1, <1>2, <1>3, <1>4 DEF Direction, d

\* A peer that accepts a message of the other one's ratchets keeps the turns: the
\* key was derived on a ratchet of the other peer, the new one or an older one.
LEMMA DirectionReceive ==
  ASSUME NEW m \in Manager, NEW msg \in Header, NEW p \in Peer, Direction(m, p),
         NEW G \in SUBSET ChainKey, NEW S \in SUBSET ChainKey, KeysBehind(m, G, S),
         ~OwnTurn(Len(ReceiveKey(m, msg).root), p)
  PROVE  LET r == ReceiveRatchet(m, msg)
         IN Direction(r, p) /\ (p = "u" => r.root_key # <<>>)
<1> DEFINE r == ReceiveRatchet(m, msg)
           x == ReceiveKey(m, msg)
<1>0. m.root_key \in Seq(Secret) /\ Len(m.root_key) \in Nat /\ m.j \in Nat
  BY DEF Manager
<1>1. r \in Manager /\ x \in ChainKey
  BY ReceiveRatchetType, ReceiveRatchetBehind
<1>2. Len(x.root) <= Len(r.root_key)
  <2>1. KeysBehind(r, G \cup {x}, S)
    BY ReceiveRatchetBehind
  <2>2. Behind(x, r.chain_r) /\ Len(r.chain_r.root) <= Len(r.root_key)
    BY <2>1 DEF KeysBehind
  <2>3. r.chain_r \in ChainKey /\ r.root_key \in Seq(Secret)
    BY <1>1 DEF Manager
  <2> HIDE DEF r, x
  <2> QED
    BY <1>0, <1>1, <2>2, <2>3 DEF Behind, ChainKey
<1>3. p = "u" => r.root_key # <<>>
  <2> SUFFICES ASSUME p = "u", r.root_key = <<>> PROVE FALSE
    OBVIOUS
  <2>1. Len(x.root) \in Nat
    BY <1>1 DEF ChainKey
  <2> HIDE DEF r, x
  <2>2. Len(x.root) = 0
    BY <1>2, <2>1
  <2> QED
    BY <2>2, OwnTurns DEF x
<1>4. CASE ~IsNewRatchet(m, msg)
  <2>1. r.j = m.j /\ r.chain_s = m.chain_s /\ r.root_key = m.root_key
    BY <1>4, ReceiveRatchetFields, Zenon
  <2> QED
    BY <1>3, <2>1, DirectionFrame
<1>5. CASE IsNewRatchet(m, msg)
  <2>1. r.j = 0 /\ r.root_key = EnterNewRatchet(m, msg.ecdh, msg.dh)
    BY <1>5, ReceiveRatchetFields, Zenon
  <2>2. SkippedFor(m, msg) = {}
    BY <1>5 DEF IsNewRatchet
  <2>3. x.root = r.root_key
    <3> DEFINE d == DeriveDhRatchetKeys(m, msg)
               c == DeriveChainKeys(m, msg)
    <3>1. /\ d \in Manager /\ d.chain_r.root = EnterNewRatchet(m, msg.ecdh, msg.dh)
      BY <1>5, NewRatchetChain
    <3>2. c = StoreEncKeys(d, msg.message_id, d.their_ecdh) /\ x = c.chain_r
      BY <2>2 DEF DeriveChainKeys, ReceiveKey
    <3>3. msg.message_id \in Nat /\ d.their_ecdh \in PubKey
      BY <3>1 DEF Header, Manager
    <3> HIDE DEF d, c
    <3>4. c.chain_r.root = d.chain_r.root
      <4>1. \/ c = d
            \/ d.k < msg.message_id /\ c.chain_r = ChainKeyAt(d, msg.message_id)
        BY <3>1, <3>2, <3>3, StoreEncKeysFields
      <4>2. d.k \in Nat
        BY <3>1 DEF Manager
      <4>3. ASSUME d.k < msg.message_id
            PROVE  ChainKeyAt(d, msg.message_id).root = d.chain_r.root
        BY <3>1, <3>3, <4>2, <4>3, ChainKeyAtType
      <4> QED
        BY <4>1, <4>3
    <3> QED
      BY <2>1, <3>1, <3>2, <3>4
  <2> HIDE DEF r, x
  <2>4. ~OwnTurn(Len(r.root_key), p)
    BY <2>3 DEF x
  <2> QED
    BY <1>3, <2>1, <2>4 DEF Direction, r
<1> QED
  BY <1>4, <1>5

\* What a peer has derived from an accepted message.
LEMMA AcceptDirection ==
  ASSUME TypeOK, KeysInOrder, Directed, NEW p \in Peer, NEW msg \in net[p],
         Accepts(p, msg), NEW S \in SUBSET ChainKey
  PROVE  LET m == WithMacKeys(ReceiveRatchet(keys[p], msg), S)
         IN m \in Manager /\ Direction(m, p) /\ (p = "u" => m.root_key # <<>>)
<1> DEFINE r == ReceiveRatchet(keys[p], msg)
           m == WithMacKeys(r, S)
<1>1. /\ msg \in Header /\ msg.key \in ChainKey /\ keys[p] \in Manager
      /\ got[p] \in SUBSET ChainKey /\ sent[p] \in SUBSET ChainKey
      /\ KeysBehind(keys[p], got[p], sent[p])
  BY NetMessage DEF TypeOK, KeysInOrder
<1>2. ReceiveKey(keys[p], msg) = msg.key
  BY DEF Accepts, IsValid
<1>3. Direction(keys[p], p) /\ ~OwnTurn(Len(msg.key.root), p)
  <2>1. Direction(keys[p], p) /\ OwnTurn(Len(msg.key.root), Other(p))
    BY OtherPeer DEF Directed
  <2>2. Len(msg.key.root) \in Nat
    BY <1>1 DEF ChainKey
  <2> QED
    BY <2>1, <2>2, OwnTurns
<1>4. r \in Manager /\ Direction(r, p) /\ (p = "u" => r.root_key # <<>>)
  BY <1>1, <1>2, <1>3, ReceiveRatchetType, DirectionReceive
<1> HIDE DEF r
<1>5. /\ m \in Manager /\ m.j = r.j /\ m.chain_s = r.chain_s
      /\ m.root_key = r.root_key
  BY <1>4, WithMacKeysFields
<1> HIDE DEF m
<1>6. Direction(m, p) /\ (p = "u" => m.root_key # <<>>)
  BY <1>4, <1>5, DirectionFrame
<1> QED
  BY <1>5, <1>6 DEF m, r

\* A step of p that adds the keys of X to what p has sent.
LEMMA DirectedFrame ==
  ASSUME Directed, NEW p \in Peer, NEW X,
         Direction(keys'[p], p),
         p = "u" /\ state'[p] = "ENCRYPTED_MESSAGES" =>
           keys'[p].root_key # <<>> /\ got'[p] # {},
         \A q \in Peer \ {p} : /\ keys'[q] = keys[q] /\ sent'[q] = sent[q]
                               /\ got'[q] = got[q] /\ state'[q] = state[q],
         sent'[p] = sent[p] \cup X,
         \A x \in X : OwnTurn(Len(x.root), p),
         \A q \in Peer : \A x \in net'[q] :
           (\E y \in net[q] : x.key = y.key) \/ (q = Other(p) /\ x.key \in X)
  PROVE  Directed'
<1>1. \A q \in Peer : Direction(keys'[q], q)
  BY DEF Directed
<1>2. \A q \in Peer : \A x \in sent'[q] : OwnTurn(Len(x.root), q)
  BY DEF Directed
<1>3. ASSUME NEW q \in Peer, NEW x \in net'[q] PROVE x.key \in sent'[Other(q)]
  <2>1. sent[Other(q)] \subseteq sent'[Other(q)]
    BY OtherPeer
  <2>2. ASSUME q = Other(p) PROVE Other(q) = p
    BY <2>2 DEF Peer, Other
  <2>3. \A y \in net[q] : y.key \in sent[Other(q)]
    BY DEF Directed
  <2> QED
    BY <2>1, <2>2, <2>3
<1>4. state'["u"] = "ENCRYPTED_MESSAGES" => keys'["u"].root_key # <<>> /\ got'["u"] # {}
  BY DEF Directed, Peer
<1> QED
  BY <1>1, <1>2, <1>3, <1>4 DEF Directed

\* A step that sends nothing.
LEMMA DirectedQuiet ==
  ASSUME Directed, NEW p \in Peer,
         Direction(keys'[p], p),
         p = "u" /\ state'[p] = "ENCRYPTED_MESSAGES" =>
           keys'[p].root_key # <<>> /\ got'[p] # {},
         \A q \in Peer \ {p} : /\ keys'[q] = keys[q]
                               /\ got'[q] = got[q] /\ state'[q] = state[q],
         sent' = sent,
         \A q \in Peer : \A x \in net'[q] : \E y \in net[q] : x.key = y.key
  PROVE  Directed'
<1> DEFINE X == {}
<1>1. sent'[p] = sent[p] \cup X /\ \A x \in X : OwnTurn(Len(x.root), p)
  OBVIOUS
<1>2. \A q \in Peer \ {p} : /\ keys'[q] = keys[q] /\ sent'[q] = sent[q]
                            /\ got'[q] = got[q] /\ state'[q] = state[q]
  OBVIOUS
<1>3. \A q \in Peer : \A x \in net'[q] :
        (\E y \in net[q] : x.key = y.key) \/ (q = Other(p) /\ x.key \in X)
  OBVIOUS
<1> HIDE DEF X
<1> QED
  BY <1>1, <1>2, <1>3, DirectedFrame, Zenon

\* The answer to an accepted message.
LEMMA DirectedAnswer ==
  ASSUME TypeOK, KeysInOrder, Directed, NEW p \in Peer, NEW msg \in net[p],
         NEW reply, Accept(p, msg, reply),
         NEW S \in SUBSET ChainKey, NEW stored \in SUBSET ChainKey,
         AnswerWith(p, msg, WithMacKeys(ReceiveRatchet(keys[p], msg), S), stored)
  PROVE  Directed'
<1> DEFINE m == WithMacKeys(ReceiveRatchet(keys[p], msg), S)
           d == SendData(m, p)
           T == d.old_mac_keys \cup stored
           x == DataMessage(m, p)
<1>1. m \in Manager /\ Direction(m, p) /\ (p = "u" => m.root_key # <<>>)
  BY AcceptDirection DEF Accept
<1>2. p = "t" \/ p = "u"
  BY DEF Peer
<1>3. AnswerWith(p, msg, m, stored)
  OBVIOUS
<1> HIDE DEF m
<1>4. /\ d \in Manager /\ Direction(d, p) /\ (d.root_key # <<>> \/ p = "t")
      /\ OwnTurn(Len(x.key.root), p)
  BY <1>1, <1>2, SendDataType, DirectionSend
<1>5. T \in SUBSET ChainKey
  <2> HIDE DEF d
  <2> QED
    BY <1>4 DEF Manager
<1>6. /\ keys' = [keys EXCEPT ![p] = WithMacKeys(d, T)]
      /\ sent' = [sent EXCEPT ![p] = @ \cup {x.key}]
      /\ state' = state
      /\ \E left \in Leftovers(p, msg) :
           net' = [net EXCEPT ![p] = left, ![Other(p)] = @ \cup {x}]
  BY <1>3 DEF AnswerWith, WithMacKeys
<1>7. got' = [got EXCEPT ![p] = @ \cup {msg.key}]
  BY DEF Accept
<1> HIDE DEF d, T, x
<1>8. Direction(keys'[p], p) /\ (keys'[p].root_key # <<>> \/ p = "t")
  <2>1. keys'[p] = WithMacKeys(d, T)
    BY <1>6 DEF TypeOK
  <2>2. LET r == WithMacKeys(d, T)
        IN r.j = d.j /\ r.chain_s = d.chain_s /\ r.root_key = d.root_key
    BY <1>4, <1>5, WithMacKeysFields
  <2> QED
    BY <1>4, <2>1, <2>2, DirectionFrame
<1>9. got'[p] # {} /\ \A q \in Peer \ {p} : got'[q] = got[q]
  BY <1>7 DEF TypeOK
<1>10. \A q \in Peer \ {p} : keys'[q] = keys[q] /\ sent'[q] = sent[q] /\ state'[q] = state[q]
  BY <1>6 DEF TypeOK
<1>11. sent'[p] = sent[p] \cup {x.key}
  BY <1>6 DEF TypeOK
<1>12. \A q \in Peer : \A y \in net'[q] : y \in net[q] \/ (q = Other(p) /\ y = x)
  <2>1. \A left \in Leftovers(p, msg) : left \subseteq net[p]
    BY DEF Leftovers
  <2> QED
    BY <1>6, <2>1, OtherPeer DEF TypeOK
<1>13. "t" # "u"
  OBVIOUS
<1> DEFINE X == {x.key}
<1>14. \A y \in X : OwnTurn(Len(y.root), p)
  BY <1>4
<1>15. \A q \in Peer : \A y \in net'[q] :
         (\E z \in net[q] : y.key = z.key) \/ (q = Other(p) /\ y.key \in X)
  BY <1>12
<1>16. sent'[p] = sent[p] \cup X
  BY <1>11
<1> HIDE DEF X
<1>17. p = "u" /\ state'[p] = "ENCRYPTED_MESSAGES" =>
         keys'[p].root_key # <<>> /\ got'[p] # {}
  BY <1>8, <1>9, <1>13
<1>18. \A q \in Peer \ {p} : /\ keys'[q] = keys[q] /\ sent'[q] = sent[q]
                             /\ got'[q] = got[q] /\ state'[q] = state[q]
  BY <1>9, <1>10
<1> QED
  BY <1>8, <1>14, <1>15, <1>16, <1>17, <1>18, DirectedFrame, Zenon

\* Every step keeps the directions.
LEMMA DirectedStep ==
  TypeOK /\ KeysInOrder /\ Directed /\ [Next]_vars => Directed'
<1> SUFFICES ASSUME TypeOK, KeysInOrder, Directed, [Next]_vars PROVE Directed'
  OBVIOUS
<1> USE OtherPeer
<1>1. \A p \in Peer : keys[p] \in Manager /\ Direction(keys[p], p)
  BY DEF TypeOK, Directed
<1>2. \A p \in Peer : p = "t" \/ p = "u"
  BY DEF Peer
<1>3. "t" # "u" /\ "WAITING_DAKE_DATA_MESSAGE" # "ENCRYPTED_MESSAGES"
  OBVIOUS
<1>4. ASSUME NEW p \in Peer, Send(p) PROVE Directed'
  <2> DEFINE x == DataMessage(keys[p], p)
             d == SendData(keys[p], p)
             X == {x.key}
  <2>1. /\ keys' = [keys EXCEPT ![p] = d] /\ sent' = [sent EXCEPT ![p] = @ \cup X]
        /\ net' = [net EXCEPT ![Other(p)] = @ \cup {x}]
        /\ state[p] = "ENCRYPTED_MESSAGES" /\ UNCHANGED <<state, got>>
    BY <1>4 DEF Send
  <2>2. (p = "t" \/ keys[p].root_key # <<>>) /\ (p = "u" => got[p] # {})
    BY <1>2, <1>3, <2>1 DEF Directed
  <2>3. /\ Direction(d, p) /\ (d.root_key # <<>> \/ p = "t")
        /\ \A y \in X : OwnTurn(Len(y.root), p)
    BY <1>1, <2>2, DirectionSend
  <2>4. \A q \in Peer : \A y \in net'[q] :
          (\E z \in net[q] : y.key = z.key) \/ (q = Other(p) /\ y.key \in X)
    BY <2>1 DEF TypeOK
  <2> HIDE DEF x, d, X
  <2>5. keys'[p] = d /\ sent'[p] = sent[p] \cup X
        /\ \A q \in Peer \ {p} : keys'[q] = keys[q] /\ sent'[q] = sent[q]
    BY <2>1 DEF TypeOK
  <2>6. p = "u" /\ state'[p] = "ENCRYPTED_MESSAGES" =>
          keys'[p].root_key # <<>> /\ got'[p] # {}
    BY <1>3, <2>1, <2>2, <2>3, <2>5
  <2>7. \A q \in Peer \ {p} : /\ keys'[q] = keys[q] /\ sent'[q] = sent[q]
                              /\ got'[q] = got[q] /\ state'[q] = state[q]
    BY <2>1, <2>5
  <2>8. Direction(keys'[p], p)
    BY <2>3, <2>5
  <2> QED
    BY <2>3, <2>4, <2>5, <2>6, <2>7, <2>8, DirectedFrame, Zenon
<1>5. ASSUME NEW p \in Peer, NEW msg \in net[p], Receive(p, msg)
      PROVE  Directed'
  <2>1. msg \in Header /\ msg.key \in ChainKey /\ keys[p] \in Manager
    BY <1>1, NetMessage
  <2> DEFINE r == ReceiveRatchet(keys[p], msg)
             S == r.old_mac_keys \cup {msg.key}
  <2>2. r \in Manager
    BY <2>1, ReceiveRatchetType
  <2>3. r.old_mac_keys \in SUBSET ChainKey /\ WithMacKeys(r, r.old_mac_keys) = r
    BY <2>2, SameMacKeys
  <2>4. /\ S \in SUBSET ChainKey /\ {msg.key} \in SUBSET ChainKey
        /\ {} \in SUBSET ChainKey
    BY <2>1, <2>3
  <2>5. StoreOldMacKey(r, msg.key) = WithMacKeys(r, S)
    BY DEF StoreOldMacKey, WithMacKeys
  <2>6. \A left \in Leftovers(p, msg) : left \subseteq net[p]
    BY DEF Leftovers
  <2> HIDE DEF r, S
  <2>7. ASSUME NEW reply, Accept(p, msg, reply), sent' = sent,
               keys' = [keys EXCEPT ![p] = r] \/
                 keys' = [keys EXCEPT ![p] = WithMacKeys(r, S)],
               \A q \in Peer \ {p} : state'[q] = state[q],
               \E left \in Leftovers(p, msg) : net' = [net EXCEPT ![p] = left]
        PROVE  Directed'
    <3>1. PICK R \in SUBSET ChainKey : keys' = [keys EXCEPT ![p] = WithMacKeys(r, R)]
      BY <2>3, <2>4, <2>7
    <3>2. Direction(WithMacKeys(r, R), p) /\ (p = "u" => WithMacKeys(r, R).root_key # <<>>)
      BY <2>7, AcceptDirection DEF Accept, r
    <3>3. keys'[p] = WithMacKeys(r, R) /\ \A q \in Peer \ {p} : keys'[q] = keys[q]
      BY <3>1 DEF TypeOK
    <3>4. got'[p] # {} /\ \A q \in Peer \ {p} : got'[q] = got[q]
      BY <2>7 DEF Accept, TypeOK
    <3>5. \A q \in Peer : \A x \in net'[q] : \E y \in net[q] : x.key = y.key
      BY <2>6, <2>7 DEF TypeOK
    <3> QED
      BY <2>7, <3>2, <3>3, <3>4, <3>5, DirectedQuiet
  <2>8. CASE ReceiveQuiet(p, msg)
    BY <2>5, <2>7, <2>8 DEF ReceiveQuiet, r, TypeOK
  <2>9. CASE ReceiveAndReplyTlv(p, msg)
    <3>1. Accept(p, msg, "tlv") /\ AnswerWith(p, msg, WithMacKeys(r, r.old_mac_keys), {msg.key})
      BY <2>3, <2>9 DEF ReceiveAndReplyTlv, r
    <3> QED
      BY <2>3, <2>4, <3>1, DirectedAnswer DEF r
  <2>10. CASE ReceiveAndHeartbeat(p, msg)
    <3>1. Accept(p, msg, "heartbeat") /\ AnswerWith(p, msg, WithMacKeys(r, S), {})
      BY <2>5, <2>10 DEF ReceiveAndHeartbeat, r
    <3> QED
      BY <2>4, <3>1, DirectedAnswer DEF r
  <2>11. ASSUME NEW reply \in Replies, ReceiveAndFailToAnswer(p, msg, reply)
         PROVE  Directed'
    <3>1. /\ Accept(p, msg, reply) /\ sent' = sent /\ state' = state
          /\ keys' = [keys EXCEPT ![p] = IF reply = "tlv" THEN r ELSE WithMacKeys(r, S)]
          /\ \E left \in Leftovers(p, msg) : net' = [net EXCEPT ![p] = left]
      BY <2>5, <2>11 DEF ReceiveAndFailToAnswer, r
    <3> QED
      BY <2>7, <3>1
  <2>12. CASE Reject(p, msg)
    <3> DEFINE n == RejectMessage(keys[p], msg)
    <3>1. /\ n.j = keys[p].j /\ n.chain_s = keys[p].chain_s
          /\ n.root_key = keys[p].root_key
      BY <2>1, RejectMessageFields, Zenon
    <3>2. /\ keys' = [keys EXCEPT ![p] = n] /\ UNCHANGED <<state, sent, got>>
          /\ \E left \in Leftovers(p, msg) : net' = [net EXCEPT ![p] = left]
      BY <2>12 DEF Reject
    <3> HIDE DEF n
    <3>3. keys'[p] = n /\ \A q \in Peer \ {p} : keys'[q] = keys[q]
      BY <3>2 DEF TypeOK
    <3>4. Direction(n, p)
      BY <1>1, <3>1, DirectionFrame
    <3>5. \A q \in Peer : \A x \in net'[q] : \E y \in net[q] : x.key = y.key
      BY <2>6, <3>2 DEF TypeOK
    <3>6. p = "u" /\ state'[p] = "ENCRYPTED_MESSAGES" =>
            keys'[p].root_key # <<>> /\ got'[p] # {}
      BY <3>1, <3>2, <3>3 DEF Directed
    <3> QED
      BY <3>2, <3>3, <3>4, <3>5, <3>6, DirectedQuiet
  <2>13. CASE Crash(p, msg)
    BY <2>13, Zenon DEF Crash, Directed
  <2> QED
    BY <1>5, <2>8, <2>9, <2>10, <2>11, <2>12, <2>13 DEF Receive
<1>6. ASSUME NEW p \in Peer, NEW msg \in net[p], Lose(p, msg) \/ Corrupt(p, msg)
      PROVE  Directed'
  <2> DEFINE bad == [msg EXCEPT !.intact = FALSE]
  <2>1. bad.key = msg.key
    BY NetMessage DEF Message
  <2>2. \A q \in Peer : \A x \in net'[q] : \E y \in net[q] : x.key = y.key
    <3>1. net' = [net EXCEPT ![p] = @ \ {msg}] \/
            net' = [net EXCEPT ![p] = (@ \ {msg}) \cup {bad}]
      BY <1>6 DEF Lose, Corrupt
    <3> HIDE DEF bad
    <3>2. \A q \in Peer : \A x \in net'[q] : x \in net[q] \/ (q = p /\ x = bad)
      BY <3>1 DEF TypeOK
    <3> QED
      BY <2>1, <3>2
  <2>3. UNCHANGED <<keys, state, sent, got>>
    BY <1>6 DEF Lose, Corrupt
  <2> QED
    BY <1>1, <2>2, <2>3, DirectedQuiet DEF Directed
<1>7. CASE UNCHANGED vars
  BY <1>7, Zenon DEF vars, Directed
<1> QED
  BY <1>4, <1>5, <1>6, <1>7 DEF Next

\* Both peers send on ratchets of their own in every run.
LEMMA AlwaysDirected == Spec => []Directed
<1>1. Init => Directed
  <2> SUFFICES ASSUME Init PROVE Directed
    OBVIOUS
  <2>1. state["u"] = "WAITING_DAKE_DATA_MESSAGE"
    BY DEF Init, Peer
  <2>2. \A p \in Peer : Direction(keys[p], p)
    <3> TAKE p \in Peer
    <3>1. keys[p].j = 0 /\ keys[p].root_key = <<>>
      BY DEF Init, RatchetingInit
    <3>2. p = "t" \/ p = "u"
      BY DEF Peer
    <3> QED
      BY <3>1, <3>2 DEF Direction, OwnTurn
  <2> QED
    BY <2>1, <2>2 DEF Init, Directed
<1> QED
  BY <1>1, DirectedStep, TypeCorrect, KeyOrder, PTL DEF Spec

\* No message key is used in both directions, whatever the network loses, reorders,
\* duplicates, corrupts or delivers late: the two peers never derive the same chain
\* to send on, although both keep one root key and rotate it in turn.
THEOREM DirectionsAreApart == Spec => []KeysApart
<1>1. TypeOK /\ Directed => KeysApart
  <2> SUFFICES ASSUME TypeOK, Directed, NEW p \in Peer,
                      NEW x \in sent[p], x \in sent[Other(p)]
               PROVE  FALSE
    BY DEF KeysApart
  <2>1. OwnTurn(Len(x.root), p) /\ OwnTurn(Len(x.root), Other(p))
    BY OtherPeer DEF Directed
  <2>2. Len(x.root) \in Nat
    BY DEF TypeOK, ChainKey
  <2> QED
    BY <2>1, <2>2, OwnTurns
<1> QED
  BY <1>1, TypeCorrect, AlwaysDirected, PTL

-----------------------------------------------------------------------------
(***************************************************************************)
(* The channel.  Distinct messages on their way to a peer are sealed with  *)
(* distinct keys, so that the keys can stand for the messages.             *)
(***************************************************************************)
KeysDistinct == \A p \in Peer : \A x, y \in net[p] : x.key = y.key => x = y

\* p sends the message x, sealed with a key that nobody has used.
Seals(p, x) ==
  /\ p = "t" \/ got[p] # {}
  /\ \A q \in Peer : x.key \notin sent[q]
  /\ sent' = [sent EXCEPT ![p] = @ \cup {x.key}]

\* p accepts the message.
Opens(p, msg) == got' = [got EXCEPT ![p] = @ \cup {msg.key}]

\* What a step may do to the channel.
ChannelMoves(p) ==
  \/ \E x \in Message :
       /\ Seals(p, x) /\ net' = [net EXCEPT ![Other(p)] = @ \cup {x}]
       /\ UNCHANGED got
  \/ \E msg \in net[p] :
       /\ Opens(p, msg) /\ net' = [net EXCEPT ![p] = @ \ {msg}]
       /\ UNCHANGED sent
  \/ \E msg \in net[p], x \in Message :
       /\ Opens(p, msg) /\ Seals(p, x)
       /\ net' = [net EXCEPT ![p] = @ \ {msg}, ![Other(p)] = @ \cup {x}]
  \/ /\ "lose" \in Faults
     /\ \E msg \in net[p] : net' = [net EXCEPT ![p] = @ \ {msg}]
     /\ UNCHANGED <<sent, got>>

\* The key of the next message was used by nobody: it lies ahead of what the sender
\* has sent, and on a ratchet of its own.
LEMMA SentKeyIsNew ==
  ASSUME TypeOK, Directed, NEW p \in Peer, NEW m \in Manager,
         NEW G \in SUBSET ChainKey, KeysBehind(m, G, sent[p]), Direction(m, p),
         p = "t" \/ m.root_key # <<>>
  PROVE  \A q \in Peer : DataMessage(m, p).key \notin sent[q]
<1> DEFINE key == DataMessage(m, p).key
           r == SendKeys(m, p)
<1>1. key \in ChainKey /\ OwnTurn(Len(key.root), p) /\ key = r.chain_s
  BY DirectionSend DEF DataMessage
<1>2. ASSUME key \in sent[Other(p)] PROVE FALSE
  <2>1. OwnTurn(Len(key.root), Other(p)) /\ Len(key.root) \in Nat
    BY <1>1, <1>2, OtherPeer DEF Directed, ChainKey
  <2> QED
    BY <1>1, <2>1, OwnTurns
<1>3. ASSUME key \in sent[p] PROVE FALSE
  <2>1. /\ Behind(key, m.chain_s) /\ Len(m.chain_s.root) <= Len(m.root_key)
        /\ m.chain_s \in ChainKey /\ m.root_key \in Seq(Secret)
    BY <1>3 DEF KeysBehind, Manager
  <2> HIDE DEF key
  <2>2. CASE m.j # 0
    <3>1. key = m.chain_s
      BY <1>1, <2>2 DEF SendKeys
    <3> QED
      BY <2>1, <3>1 DEF Behind, ChainKey
  <2>3. CASE m.j = 0
    <3>1. r = RotateKeysSend(m, p)
      BY <2>3 DEF SendKeys
    <3>2. /\ r.root_key = Append(m.root_key, SendSecret(m, p))
          /\ r.chain_s = [root |-> r.root_key, n |-> 0]
      BY <3>1, RotateKeysSendFields, Zenon
    <3> HIDE DEF r
    <3>3. Len(key.root) = Len(m.root_key) + 1
      <4>1. Len(Append(m.root_key, SendSecret(m, p))) = Len(m.root_key) + 1
        BY <2>1
      <4>2. key.root = r.root_key
        BY <1>1, <3>2
      <4> QED
        BY <3>2, <4>1, <4>2
    <3> QED
      BY <1>1, <2>1, <3>3 DEF Behind, ChainKey
  <2> QED
    BY <2>2, <2>3
<1>4. \A q \in Peer : q = p \/ q = Other(p)
  BY DEF Peer, Other
<1> QED
  BY <1>2, <1>3, <1>4

\* The manager that sends an answer keeps the order of the keys.
LEMMA AcceptBehind ==
  ASSUME TypeOK, KeysInOrder, NEW p \in Peer, NEW msg \in net[p],
         Accepts(p, msg), NEW S \in SUBSET ChainKey
  PROVE  KeysBehind(WithMacKeys(ReceiveRatchet(keys[p], msg), S),
                    got[p] \cup {msg.key}, sent[p])
<1> DEFINE r == ReceiveRatchet(keys[p], msg)
           m == WithMacKeys(r, S)
           G == got[p] \cup {msg.key}
<1>1. /\ msg \in Header /\ msg.key \in ChainKey /\ keys[p] \in Manager
      /\ got[p] \in SUBSET ChainKey /\ sent[p] \in SUBSET ChainKey
      /\ KeysBehind(keys[p], got[p], sent[p])
  BY NetMessage DEF TypeOK, KeysInOrder
<1>2. ReceiveKey(keys[p], msg) = msg.key
  BY DEF Accepts, IsValid
<1>3. r \in Manager /\ KeysBehind(r, G, sent[p])
  BY <1>1, <1>2, ReceiveRatchetType, ReceiveRatchetBehind
<1> HIDE DEF r, G
<1>4. /\ m \in Manager /\ m.root_key = r.root_key /\ m.chain_s = r.chain_s
      /\ m.chain_r = r.chain_r /\ m.skipped_keys = r.skipped_keys
  BY <1>3, WithMacKeysFields
<1> HIDE DEF m
<1>5. KeysBehind(m, G, sent[p])
  BY <1>3, <1>4, KeysBehindFrame
<1> QED
  BY <1>5 DEF m, r, G

\* An answer opens one message and seals another one.
LEMMA AnswerMovesChannel ==
  ASSUME Benign, TypeOK, KeysInOrder, Directed, NEW p \in Peer, NEW msg \in net[p],
         NEW reply, Accept(p, msg, reply),
         NEW S \in SUBSET ChainKey, NEW stored \in SUBSET ChainKey,
         AnswerWith(p, msg, WithMacKeys(ReceiveRatchet(keys[p], msg), S), stored)
  PROVE  ChannelMoves(p)
<1> DEFINE m == WithMacKeys(ReceiveRatchet(keys[p], msg), S)
           x == DataMessage(m, p)
           G == got[p] \cup {msg.key}
<1>1. Accepts(p, msg) /\ Opens(p, msg)
  BY DEF Accept, Opens
<1>2. /\ m \in Manager /\ Direction(m, p) /\ (p = "u" => m.root_key # <<>>)
      /\ KeysBehind(m, G, sent[p]) /\ G \in SUBSET ChainKey
  BY <1>1, AcceptDirection, AcceptBehind, NetMessage DEF TypeOK
<1>3. p = "t" \/ p = "u"
  BY DEF Peer
<1>4. AnswerWith(p, msg, m, stored)
  OBVIOUS
<1> HIDE DEF m, G
<1>5. x \in Message /\ \A q \in Peer : x.key \notin sent[q]
  BY <1>2, <1>3, DataMessageType, MessageIsHeader, SentKeyIsNew
<1>6. p = "t" \/ got[p] # {}
  BY <1>3, <1>4 DEF AnswerWith, Directed
<1>7. Leftovers(p, msg) = {net[p] \ {msg}}
  BY DEF Leftovers, Benign
<1>8. /\ sent' = [sent EXCEPT ![p] = @ \cup {x.key}]
      /\ net' = [net EXCEPT ![p] = @ \ {msg}, ![Other(p)] = @ \cup {x}]
  BY <1>4, <1>7 DEF AnswerWith
<1> QED
  BY <1>1, <1>5, <1>6, <1>8 DEF ChannelMoves, Seals

\* Every step leaves the channel alone or moves it.
LEMMA StepMovesChannel ==
  ASSUME Benign, TypeOK, KeysInOrder, Directed, InStep, [Next]_vars
  PROVE  UNCHANGED <<sent, net, got>> \/ \E p \in Peer : ChannelMoves(p)
<1>1. ASSUME NEW p \in Peer, Send(p) PROVE ChannelMoves(p)
  <2> DEFINE x == DataMessage(keys[p], p)
  <2>1. /\ keys[p] \in Manager /\ got[p] \in SUBSET ChainKey
        /\ KeysBehind(keys[p], got[p], sent[p]) /\ Direction(keys[p], p)
    BY DEF TypeOK, KeysInOrder, Directed
  <2>2. (p = "t" \/ keys[p].root_key # <<>>) /\ (p = "t" \/ got[p] # {})
    BY <1>1 DEF Send, Peer, Directed
  <2>3. x \in Message /\ \A q \in Peer : x.key \notin sent[q]
    BY <2>1, <2>2, DataMessageType, MessageIsHeader, SentKeyIsNew
  <2>4. /\ sent' = [sent EXCEPT ![p] = @ \cup {x.key}] /\ got' = got
        /\ net' = [net EXCEPT ![Other(p)] = @ \cup {x}]
    BY <1>1 DEF Send
  <2> QED
    BY <2>2, <2>3, <2>4 DEF ChannelMoves, Seals
<1>2. ASSUME NEW p \in Peer, NEW msg \in net[p], Receive(p, msg)
      PROVE  ChannelMoves(p)
  <2>1. msg \in Header /\ msg.key \in ChainKey /\ keys[p] \in Manager
    BY NetMessage DEF TypeOK
  <2> DEFINE r == ReceiveRatchet(keys[p], msg)
             S == r.old_mac_keys \cup {msg.key}
  <2>2. /\ r.old_mac_keys \in SUBSET ChainKey /\ WithMacKeys(r, r.old_mac_keys) = r
    BY <2>1, ReceiveRatchetType, SameMacKeys
  <2>3. /\ S \in SUBSET ChainKey /\ {msg.key} \in SUBSET ChainKey
        /\ {} \in SUBSET ChainKey
    BY <2>1, <2>2
  <2>4. StoreOldMacKey(r, msg.key) = WithMacKeys(r, S)
    BY DEF StoreOldMacKey, WithMacKeys
  <2>5. Leftovers(p, msg) = {net[p] \ {msg}}
    BY DEF Leftovers, Benign
  <2> HIDE DEF r, S
  <2>6. ASSUME NEW reply, Accept(p, msg, reply), sent' = sent,
               \E left \in Leftovers(p, msg) : net' = [net EXCEPT ![p] = left]
        PROVE  ChannelMoves(p)
    BY <2>5, <2>6 DEF Accept, ChannelMoves, Opens
  <2>7. CASE ReceiveQuiet(p, msg)
    BY <2>6, <2>7 DEF ReceiveQuiet
  <2>8. CASE ReceiveAndReplyTlv(p, msg)
    <3>1. Accept(p, msg, "tlv") /\ AnswerWith(p, msg, WithMacKeys(r, r.old_mac_keys), {msg.key})
      BY <2>2, <2>8 DEF ReceiveAndReplyTlv, r
    <3> QED
      BY <2>2, <2>3, <3>1, AnswerMovesChannel DEF r
  <2>9. CASE ReceiveAndHeartbeat(p, msg)
    <3>1. Accept(p, msg, "heartbeat") /\ AnswerWith(p, msg, WithMacKeys(r, S), {})
      BY <2>4, <2>9 DEF ReceiveAndHeartbeat, r
    <3> QED
      BY <2>3, <3>1, AnswerMovesChannel DEF r
  <2>10. ASSUME NEW reply \in Replies, ReceiveAndFailToAnswer(p, msg, reply)
         PROVE  ChannelMoves(p)
    BY <2>6, <2>10 DEF ReceiveAndFailToAnswer
  <2>11. CASE Reject(p, msg) \/ Crash(p, msg)
    BY <2>11 DEF Reject, Crash, InStep, Accepts
  <2> QED
    BY <1>2, <2>7, <2>8, <2>9, <2>10, <2>11 DEF Receive
<1>3. ASSUME NEW p \in Peer, NEW msg \in net[p], Lose(p, msg) PROVE ChannelMoves(p)
  BY <1>3 DEF Lose, ChannelMoves
<1>4. ASSUME NEW p \in Peer, NEW msg \in net[p], Corrupt(p, msg) PROVE FALSE
  BY <1>4 DEF Corrupt, Benign
<1>5. CASE UNCHANGED vars
  BY <1>5 DEF vars
<1> QED
  BY <1>1, <1>2, <1>3, <1>4, <1>5 DEF Next

\* The keys of a set of messages.
KeysOf(M) == {msg.key : msg \in M}

LEMMA KeysOfAdd ==
  ASSUME NEW M, NEW x
  PROVE  KeysOf(M \cup {x}) = KeysOf(M) \cup {x.key}
  BY DEF KeysOf

LEMMA KeysOfTake ==
  ASSUME NEW M, NEW msg \in M, \A x, y \in M : x.key = y.key => x = y
  PROVE  KeysOf(M \ {msg}) = KeysOf(M) \ {msg.key} /\ msg.key \in KeysOf(M)
  BY DEF KeysOf

LEMMA InTransitKeys == \A p \in Peer : InTransit[p] = KeysOf(net[p])
  BY DEF InTransit, KeysOf

\* The keys stay distinct: the one that is added was sent by nobody, those on the
\* way were.
LEMMA DistinctStep ==
  ASSUME TypeOK, Directed, KeysDistinct,
         UNCHANGED <<sent, net, got>> \/ \E p \in Peer : ChannelMoves(p)
  PROVE  KeysDistinct'
<1>1. CASE UNCHANGED <<sent, net, got>>
  BY <1>1 DEF KeysDistinct
<1>2. ASSUME NEW p \in Peer, ChannelMoves(p) PROVE KeysDistinct'
  <2>1. Other(p) \in Peer /\ Other(p) # p /\ Other(Other(p)) = p
    BY OtherPeer, OtherOther DEF Peer, Other
  <2>2. net \in [Peer -> SUBSET Message]
    BY DEF TypeOK
  <2>3. ASSUME NEW x, Seals(p, x) PROVE \A y \in net[Other(p)] : y.key # x.key
    <3>1. x.key \notin sent[p]
      BY <2>3 DEF Seals
    <3>2. \A y \in net[Other(p)] : y.key \in sent[p]
      BY <2>1 DEF Directed
    <3> QED
      BY <3>1, <3>2
  <2>4. ASSUME NEW x \in Message, Seals(p, x),
               net' = [net EXCEPT ![Other(p)] = @ \cup {x}]
        PROVE  KeysDistinct'
    BY <2>1, <2>2, <2>3, <2>4 DEF KeysDistinct
  <2>5. ASSUME NEW msg \in net[p], net' = [net EXCEPT ![p] = @ \ {msg}]
        PROVE  KeysDistinct'
    BY <2>1, <2>2, <2>5 DEF KeysDistinct
  <2>6. ASSUME NEW msg \in net[p], NEW x \in Message, Seals(p, x),
               net' = [net EXCEPT ![p] = @ \ {msg}, ![Other(p)] = @ \cup {x}]
        PROVE  KeysDistinct'
    BY <2>1, <2>2, <2>3, <2>6 DEF KeysDistinct
  <2> QED
    BY <1>2, <2>4, <2>5, <2>6 DEF ChannelMoves
<1> QED
  BY <1>1, <1>2

\* What happens to the messages on their way happens to their keys.
LEMMA TransitAdd ==
  ASSUME TypeOK, NEW q \in Peer, NEW x, net' = [net EXCEPT ![q] = @ \cup {x}]
  PROVE  InTransit' = [InTransit EXCEPT ![q] = @ \cup {x.key}]
<1>1. net \in [Peer -> SUBSET Message]
  BY DEF TypeOK
<1>2. \A r \in Peer : net'[r] = IF r = q THEN net[q] \cup {x} ELSE net[r]
  BY <1>1
<1>3. KeysOf(net[q] \cup {x}) = KeysOf(net[q]) \cup {x.key}
  BY KeysOfAdd
<1>4. InTransit = [r \in Peer |-> KeysOf(net[r])]
  BY DEF InTransit, KeysOf
<1>5. InTransit' = [r \in Peer |-> KeysOf(net'[r])]
  BY DEF InTransit, KeysOf
<1> QED
  BY <1>2, <1>3, <1>4, <1>5, SMTT(30)

LEMMA TransitTake ==
  ASSUME TypeOK, KeysDistinct, NEW p \in Peer, NEW msg \in net[p],
         net' = [net EXCEPT ![p] = @ \ {msg}]
  PROVE  /\ InTransit' = [InTransit EXCEPT ![p] = @ \ {msg.key}]
         /\ msg.key \in InTransit[p]
<1>1. net \in [Peer -> SUBSET Message]
  BY DEF TypeOK
<1>2. \A r \in Peer : net'[r] = IF r = p THEN net[p] \ {msg} ELSE net[r]
  BY <1>1
<1>3. KeysOf(net[p] \ {msg}) = KeysOf(net[p]) \ {msg.key} /\ msg.key \in KeysOf(net[p])
  BY KeysOfTake DEF KeysDistinct
<1>4. InTransit = [r \in Peer |-> KeysOf(net[r])]
  BY DEF InTransit, KeysOf
<1>5. InTransit' = [r \in Peer |-> KeysOf(net'[r])]
  BY DEF InTransit, KeysOf
<1> QED
  BY <1>2, <1>3, <1>4, <1>5

LEMMA TransitTakeAndAdd ==
  ASSUME TypeOK, KeysDistinct, NEW p \in Peer, NEW msg \in net[p],
         NEW q \in Peer, q # p, NEW x,
         net' = [net EXCEPT ![p] = @ \ {msg}, ![q] = @ \cup {x}]
  PROVE  /\ InTransit' = [InTransit EXCEPT ![p] = @ \ {msg.key},
                                           ![q] = @ \cup {x.key}]
         /\ msg.key \in InTransit[p]
<1>1. net \in [Peer -> SUBSET Message]
  BY DEF TypeOK
<1>2. \A r \in Peer : net'[r] = IF r = p THEN net[p] \ {msg}
                                ELSE IF r = q THEN net[q] \cup {x} ELSE net[r]
  BY <1>1
<1>3. KeysOf(net[p] \ {msg}) = KeysOf(net[p]) \ {msg.key} /\ msg.key \in KeysOf(net[p])
  BY KeysOfTake DEF KeysDistinct
<1>4. KeysOf(net[q] \cup {x}) = KeysOf(net[q]) \cup {x.key}
  BY KeysOfAdd
<1>5. InTransit = [r \in Peer |-> KeysOf(net[r])]
  BY DEF InTransit, KeysOf
<1>6. InTransit' = [r \in Peer |-> KeysOf(net'[r])]
  BY DEF InTransit, KeysOf
<1>7. InTransit' = [r \in Peer |-> IF r = p THEN InTransit[p] \ {msg.key}
                                   ELSE IF r = q THEN InTransit[q] \cup {x.key}
                                   ELSE InTransit[r]]
  <2>1. \A r \in Peer : InTransit[r] = KeysOf(net[r])
    BY <1>5
  <2>2. \A r \in Peer : KeysOf(net'[r]) = IF r = p THEN InTransit[p] \ {msg.key}
                                          ELSE IF r = q THEN InTransit[q] \cup {x.key}
                                          ELSE InTransit[r]
    <3> TAKE r \in Peer
    <3>1. CASE r = p
      BY <1>2, <1>3, <2>1, <3>1
    <3>2. CASE r = q
      BY <1>2, <1>4, <2>1, <3>2
    <3>3. CASE r # p /\ r # q
      <4>1. net'[r] = net[r]
        BY <1>2, <3>3
      <4> QED
        BY <2>1, <3>3, <4>1
    <3> QED
      BY <3>1, <3>2, <3>3
  <2> QED
    BY <1>6, <2>2
<1>8. [InTransit EXCEPT ![p] = @ \ {msg.key}, ![q] = @ \cup {x.key}] =
        [r \in Peer |-> IF r = p THEN InTransit[p] \ {msg.key}
                        ELSE IF r = q THEN InTransit[q] \cup {x.key}
                        ELSE InTransit[r]]
  <2>1. DOMAIN InTransit = Peer
    BY <1>5
  <2> QED
    BY <2>1
<1>9. msg.key \in InTransit[p]
  BY <1>3, <1>5
<1> QED
  BY <1>7, <1>8, <1>9, Zenon

\* What the ratchets do to the channel is a step of Channel.
LEMMA ChannelStep ==
  ASSUME TypeOK, KeysDistinct,
         UNCHANGED <<sent, net, got>> \/ \E p \in Peer : ChannelMoves(p)
  PROVE  [Session!Next]_Session!vars
<1>1. CASE UNCHANGED <<sent, net, got>>
  BY <1>1 DEF Session!vars, InTransit
<1>2. ASSUME NEW p \in Peer, ChannelMoves(p) PROVE Session!Next
  <2>1. /\ Other(p) \in Peer \ {p} /\ sent \in [Peer -> SUBSET ChainKey]
        /\ got \in [Peer -> SUBSET ChainKey]
    BY OtherPeer DEF TypeOK, Peer, Other
  <2>2. ASSUME NEW x, Seals(p, x)
        PROVE  Session!Seal(p, x.key) /\ x.key \in sent'[p]
    BY <2>1, <2>2 DEF Seals, Session!Seal, Session!Used
  <2>3. ASSUME NEW x, Seals(p, x), UNCHANGED got,
               net' = [net EXCEPT ![Other(p)] = @ \cup {x}]
        PROVE  Session!Next
    <3>1. InTransit' = [InTransit EXCEPT ![Other(p)] = @ \cup {x.key}]
      BY <2>1, <2>3, TransitAdd
    <3>2. Session!Send(p, Other(p))
      BY <2>2, <2>3, <3>1 DEF Session!Send
    <3> QED
      BY <2>1, <3>2 DEF Session!Next
  <2>4. ASSUME NEW msg \in net[p], Opens(p, msg), UNCHANGED sent,
               net' = [net EXCEPT ![p] = @ \ {msg}]
        PROVE  Session!Next
    <3>1. /\ InTransit' = [InTransit EXCEPT ![p] = @ \ {msg.key}]
          /\ msg.key \in InTransit[p]
      BY <2>4, TransitTake
    <3>2. Session!Receive(p)
      BY <2>4, <3>1 DEF Session!Receive, Session!Open, Opens
    <3> QED
      BY <3>2 DEF Session!Next
  <2>5. ASSUME NEW msg \in net[p], NEW x, Opens(p, msg), Seals(p, x),
               net' = [net EXCEPT ![p] = @ \ {msg}, ![Other(p)] = @ \cup {x}]
        PROVE  Session!Next
    <3>1. /\ InTransit' = [InTransit EXCEPT ![p] = @ \ {msg.key},
                                            ![Other(p)] = @ \cup {x.key}]
          /\ msg.key \in InTransit[p]
      BY <2>1, <2>5, TransitTakeAndAdd
    <3>2. Session!ReceiveAndAnswer(p, Other(p))
      BY <2>2, <2>5, <3>1 DEF Session!ReceiveAndAnswer, Session!Open, Opens
    <3> QED
      BY <2>1, <3>2 DEF Session!Next
  <2>6. ASSUME "lose" \in Faults, NEW msg \in net[p], UNCHANGED <<sent, got>>,
               net' = [net EXCEPT ![p] = @ \ {msg}]
        PROVE  Session!Next
    <3>1. /\ InTransit' = [InTransit EXCEPT ![p] = @ \ {msg.key}]
          /\ msg.key \in InTransit[p]
      BY <2>6, TransitTake
    <3>2. Session!Lose(p)
      BY <2>6, <3>1 DEF Session!Lose
    <3> QED
      BY <3>2 DEF Session!Next
  <2> QED
    BY <1>2, <2>3, <2>4, <2>5, <2>6 DEF ChannelMoves
<1> QED
  BY <1>1, <1>2

\* The messages on their way carry distinct keys in every such run.
LEMMA AlwaysDistinct ==
  ASSUME Benign
  PROVE  Spec => []KeysDistinct
<1>1. Init => KeysDistinct
  BY DEF Init, KeysDistinct
<1>2. /\ TypeOK /\ KeysInOrder /\ Directed /\ InStep /\ KeysDistinct
      /\ [Next]_vars
      => KeysDistinct'
  BY StepMovesChannel, DistinctStep
<1> QED
  BY <1>1, <1>2, TypeCorrect, KeyOrder, AlwaysDirected, PeersStayInStep, PTL DEF Spec

\* The double ratchet implements Channel, for every number of ratchets and messages:
\* in a network that loses and reorders (Benign), every message is sealed with a key
\* nobody has used, in whichever order and while whichever answers are sent, and
\* whatever is delivered is opened once, with that key.
THEOREM RatchetsMakeAChannel ==
  ASSUME Benign
  PROVE  Spec => ImplementsChannel
<1>1. Init => Session!Init
  BY DEF Init, Session!Init, InTransit
<1>2. /\ TypeOK /\ KeysInOrder /\ Directed /\ InStep /\ KeysDistinct
      /\ [Next]_vars
      => [Session!Next]_Session!vars
  BY StepMovesChannel, ChannelStep
<1> QED
  BY <1>1, <1>2, TypeCorrect, KeyOrder, AlwaysDirected, PeersStayInStep,
     AlwaysDistinct, PTL DEF Spec, ImplementsChannel, Session!Spec

\* What the users of such a session may rely on: a peer opens only what the other one
\* has sealed, what it has opened is not on its way any more, and no key serves in
\* both directions.  It follows from the steps of Channel alone.
LEMMA ChannelOnce ==
  /\ Session!Init => Session!ExactlyOnce
  /\ TypeOK /\ Session!ExactlyOnce /\ [Session!Next]_Session!vars
     => Session!ExactlyOnce'
<1>1. Session!Init => Session!ExactlyOnce
  BY DEF Session!Init, Session!ExactlyOnce
<1>2. ASSUME TypeOK, Session!ExactlyOnce, Session!Next PROVE Session!ExactlyOnce'
  <2> DEFINE Once(s, n, g) ==
               \A p \in Peer : \A q \in Peer \ {p} :
                 /\ g[p] \cup n[p] \subseteq s[q]
                 /\ g[p] \cap n[p] = {}
                 /\ s[p] \cap s[q] = {}
  <2>1. Once(sent, InTransit, got)
    BY <1>2 DEF Session!ExactlyOnce
  <2>2. DOMAIN sent = Peer /\ DOMAIN got = Peer /\ DOMAIN InTransit = Peer
    BY <1>2 DEF TypeOK, InTransit
  <2>3. \A p, q \in Peer : \A r \in Peer : q # p => r = p \/ r = q
    BY DEF Peer
  <2> HIDE DEF Once
  <2>4. SUFFICES Once(sent', InTransit', got')
    BY DEF Session!ExactlyOnce, Once
  <2>5. ASSUME NEW p \in Peer, NEW q \in Peer \ {p}, Session!Send(p, q)
        PROVE  Once(sent', InTransit', got')
    <3>1. PICK key : /\ \A r \in Peer : key \notin sent[r]
                     /\ sent' = [sent EXCEPT ![p] = @ \cup {key}]
                     /\ InTransit' = [InTransit EXCEPT ![q] = @ \cup {key}]
                     /\ got' = got
      BY <2>5 DEF Session!Send, Session!Seal, Session!Used
    <3>2. /\ sent'[p] = sent[p] \cup {key} /\ sent'[q] = sent[q]
          /\ InTransit'[q] = InTransit[q] \cup {key} /\ InTransit'[p] = InTransit[p]
      BY <2>2, <3>1
    <3> QED
      BY <2>1, <2>3, <3>1, <3>2 DEF Once
  <2>6. ASSUME NEW p \in Peer, Session!Receive(p) PROVE Once(sent', InTransit', got')
    <3>1. PICK key \in InTransit[p] :
                     /\ got' = [got EXCEPT ![p] = @ \cup {key}]
                     /\ InTransit' = [InTransit EXCEPT ![p] = @ \ {key}]
                     /\ sent' = sent
      BY <2>6 DEF Session!Receive, Session!Open
    <3>2. \A r \in Peer :
             /\ got'[r] = IF r = p THEN got[p] \cup {key} ELSE got[r]
             /\ InTransit'[r] = IF r = p THEN InTransit[p] \ {key} ELSE InTransit[r]
      BY <2>2, <3>1
    <3> QED
      BY <2>1, <3>1, <3>2 DEF Once
  <2>7. ASSUME NEW p \in Peer, NEW q \in Peer \ {p}, Session!ReceiveAndAnswer(p, q)
        PROVE  Once(sent', InTransit', got')
    <3>1. PICK key \in InTransit[p], answer \in sent'[p] :
                 /\ got' = [got EXCEPT ![p] = @ \cup {key}]
                 /\ \A r \in Peer : answer \notin sent[r]
                 /\ sent' = [sent EXCEPT ![p] = @ \cup {answer}]
                 /\ InTransit' = [InTransit EXCEPT ![p] = @ \ {key},
                                                   ![q] = @ \cup {answer}]
      BY <2>7 DEF Session!ReceiveAndAnswer, Session!Open, Session!Seal, Session!Used
    <3>2. /\ sent'[p] = sent[p] \cup {answer} /\ sent'[q] = sent[q]
          /\ got'[p] = got[p] \cup {key} /\ got'[q] = got[q]
          /\ InTransit'[p] = InTransit[p] \ {key}
          /\ InTransit'[q] = InTransit[q] \cup {answer}
      BY <2>2, <3>1
    <3>3. /\ got[p] \cup InTransit[p] \subseteq sent[q] /\ got[p] \cap InTransit[p] = {}
          /\ got[q] \cup InTransit[q] \subseteq sent[p] /\ got[q] \cap InTransit[q] = {}
          /\ sent[p] \cap sent[q] = {}
      BY <2>1, <2>7 DEF Once
    <3>4. answer \notin sent[p] /\ answer \notin sent[q]
      BY <3>1
    <3>5. /\ got'[p] \cup InTransit'[p] \subseteq sent'[q] /\ got'[p] \cap InTransit'[p] = {}
          /\ got'[q] \cup InTransit'[q] \subseteq sent'[p] /\ got'[q] \cap InTransit'[q] = {}
          /\ sent'[p] \cap sent'[q] = {} /\ sent'[q] \cap sent'[p] = {}
      BY <3>2, <3>3, <3>4
    <3> QED
      BY <2>3, <2>7, <3>5 DEF Once
  <2>8. ASSUME NEW p \in Peer, Session!Lose(p) PROVE Once(sent', InTransit', got')
    <3>1. PICK key \in InTransit[p] :
                 InTransit' = [InTransit EXCEPT ![p] = @ \ {key}]
      BY <2>8 DEF Session!Lose
    <3>2. \A r \in Peer : InTransit'[r] \subseteq InTransit[r]
      BY <2>2, <3>1
    <3>3. sent' = sent /\ got' = got
      BY <2>8 DEF Session!Lose
    <3> QED
      BY <2>1, <3>2, <3>3 DEF Once
  <2> QED
    BY <1>2, <2>5, <2>6, <2>7, <2>8 DEF Session!Next
<1>3. ASSUME Session!ExactlyOnce, UNCHANGED Session!vars PROVE Session!ExactlyOnce'
  BY <1>3 DEF Session!vars, Session!ExactlyOnce
<1> QED
  BY <1>1, <1>2, <1>3

\* No message is opened twice or by its own sender, and no key serves for two
\* messages on their way to different peers, however many ratchets there are.
THEOREM ChannelDeliversOnce ==
  ASSUME Benign
  PROVE  Spec => []Session!ExactlyOnce
<1>1. Spec => Session!Spec
  BY RatchetsMakeAChannel DEF ImplementsChannel
<1> QED
  BY <1>1, ChannelOnce, TypeCorrect, PTL DEF Session!Spec
=============================================================================
