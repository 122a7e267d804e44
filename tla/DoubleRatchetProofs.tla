-------------------------- MODULE DoubleRatchetProofs --------------------------
(***************************************************************************)
(* Theorems about the double ratchet, for every bound, every max_skip and  *)
(* every combination of network faults.                                    *)
(***************************************************************************)
EXTENDS DoubleRatchet, KeyManagerProofs

\* The messages of the model are the headers the key manager reads.
LEMMA MessageIsHeader == Message = Header
  BY DEF Message, Header

\* The key a message was sealed with is a chain key.
LEMMA MessageKey == \A msg \in Message : msg.key \in ChainKey
  BY DEF Message

\* What the network holds is a set of messages.
LEMMA NetMessage ==
  ASSUME TypeOK, NEW p \in Peer, NEW msg \in net[p]
  PROVE  msg \in Message /\ msg \in Header /\ msg.key \in ChainKey
<1>1. msg \in Message
  BY DEF TypeOK
<1> QED
  BY <1>1, MessageIsHeader, MessageKey

\* Every variable keeps its type: the counters, keys, chains and stores of both
\* peers stay well-formed whatever is sent, lost, duplicated or rejected.
THEOREM TypeCorrect == Spec => []TypeOK
<1>1. Init => TypeOK
  <2> SUFFICES ASSUME Init PROVE TypeOK
    OBVIOUS
  <2>1. keys \in [Peer -> Manager]
    BY InitType DEF Init
  <2> QED
    BY <2>1 DEF Init, TypeOK, State
<1>2. TypeOK /\ [Next]_vars => TypeOK'
  <2> SUFFICES ASSUME TypeOK, [Next]_vars PROVE TypeOK'
    OBVIOUS
  <2> USE MessageIsHeader, OtherPeer
  <2>1. \A p \in Peer : keys[p] \in Manager
    BY DEF TypeOK
  <2>2. \A m \in Manager, p \in Peer : DataMessage(m, p) \in Message
                                       /\ DataMessage(m, p).key \in ChainKey
                                       /\ RevealedMacKeys(m) \in SUBSET ChainKey
    <3> SUFFICES ASSUME NEW m \in Manager, NEW p \in Peer
                 PROVE  DataMessage(m, p) \in Message
                        /\ DataMessage(m, p).key \in ChainKey
                        /\ RevealedMacKeys(m) \in SUBSET ChainKey
      OBVIOUS
    <3>1. DataMessage(m, p) \in Header
      BY DataMessageType
    <3>2. RevealedMacKeys(m) \in SUBSET ChainKey
      BY DEF RevealedMacKeys, Manager
    <3> QED
      BY <3>1, <3>2 DEF Header
  <2>3. ASSUME NEW p \in Peer, Send(p) PROVE TypeOK'
    <3>1. SendData(keys[p], p) \in Manager
      BY <2>1, SendDataType
    <3>2. /\ DataMessage(keys[p], p) \in Message
          /\ DataMessage(keys[p], p).key \in ChainKey
          /\ RevealedMacKeys(keys[p]) \in SUBSET ChainKey
      BY <2>1, <2>2
    <3>3. keys' \in [Peer -> Manager]
      BY <2>3, <3>1 DEF Send, TypeOK
    <3>4. net' \in [Peer -> SUBSET Message]
      BY <2>3, <3>2 DEF Send, TypeOK
    <3>5. /\ sent' \in [Peer -> SUBSET ChainKey]
          /\ revealed' \in [Peer -> SUBSET ChainKey]
      BY <2>3, <3>2 DEF Send, TypeOK
    <3> QED
      BY <2>3, <3>3, <3>4, <3>5 DEF Send, TypeOK
  <2>4. ASSUME NEW p \in Peer, NEW msg \in net[p], Receive(p, msg)
        PROVE  TypeOK'
    <3>1. msg \in Message /\ msg \in Header /\ msg.key \in ChainKey
      BY NetMessage
    <3> DEFINE r == ReceiveRatchet(keys[p], msg)
               q == StoreOldMacKey(r, msg.key)
    <3>2. r \in Manager /\ q \in Manager
      BY <2>1, <3>1, ReceiveRatchetType, StoreOldMacKeyType
    <3> HIDE DEF r, q
    <3>3. \A left \in Leftovers(p, msg) : left \in SUBSET Message
      BY DEF Leftovers, TypeOK
    <3>4. Accept(p, msg, "none") \/ Accept(p, msg, "tlv") \/
            Accept(p, msg, "heartbeat")
          => got' \in [Peer -> SUBSET ChainKey] /\ crashed' = crashed
      BY <3>1 DEF Accept, TypeOK
    <3>5. ASSUME NEW m \in Manager, NEW stored \in SUBSET ChainKey,
                 AnswerWith(p, msg, m, stored)
          PROVE  /\ keys' \in [Peer -> Manager]
                 /\ net' \in [Peer -> SUBSET Message]
                 /\ sent' \in [Peer -> SUBSET ChainKey]
                 /\ revealed' \in [Peer -> SUBSET ChainKey]
                 /\ state' = state
      <4> DEFINE d == SendData(m, p)
                 e == [d EXCEPT !.old_mac_keys = @ \cup stored]
      <4>1. d \in Manager
        BY SendDataType
      <4> HIDE DEF d
      <4>2. d.old_mac_keys \cup stored \in SUBSET ChainKey
        BY <4>1 DEF Manager
      <4>3. e \in Manager
        BY <4>1, <4>2, Zenon DEF Manager
      <4>4. keys' = [keys EXCEPT ![p] = e]
        BY <3>5 DEF AnswerWith, d
      <4> HIDE DEF e
      <4>5. keys' \in [Peer -> Manager]
        BY <4>3, <4>4 DEF TypeOK
      <4>6. net' \in [Peer -> SUBSET Message]
        BY <2>2, <3>3, <3>5 DEF AnswerWith, TypeOK
      <4> QED
        BY <2>2, <3>5, <4>5, <4>6 DEF AnswerWith, TypeOK
    <3>6. CASE ReceiveQuiet(p, msg)
      BY <3>2, <3>3, <3>4, <3>6 DEF ReceiveQuiet, TypeOK, State, r, q
    <3>7. CASE ReceiveAndReplyTlv(p, msg)
      <4>1. AnswerWith(p, msg, r, {msg.key})
        BY <3>7 DEF ReceiveAndReplyTlv, r
      <4>2. {msg.key} \in SUBSET ChainKey
        BY <3>1
      <4> QED
        BY <3>2, <3>4, <3>5, <3>7, <4>1, <4>2 DEF ReceiveAndReplyTlv, TypeOK
    <3>8. CASE ReceiveAndHeartbeat(p, msg)
      <4>1. AnswerWith(p, msg, q, {})
        BY <3>8 DEF ReceiveAndHeartbeat, r, q
      <4> QED
        BY <3>2, <3>4, <3>5, <3>8, <4>1 DEF ReceiveAndHeartbeat, TypeOK
    <3>9. ASSUME NEW reply \in Replies, ReceiveAndFailToAnswer(p, msg, reply)
          PROVE  TypeOK'
      <4>1. keys' = [keys EXCEPT ![p] = IF reply = "tlv" THEN r ELSE q]
        BY <3>9 DEF ReceiveAndFailToAnswer, r, q
      <4>2. keys' \in [Peer -> Manager]
        BY <3>2, <4>1 DEF TypeOK
      <4>3. got' \in [Peer -> SUBSET ChainKey] /\ crashed' = crashed
        BY <3>1, <3>9 DEF ReceiveAndFailToAnswer, Accept, TypeOK
      <4>4. net' \in [Peer -> SUBSET Message]
        BY <3>3, <3>9 DEF ReceiveAndFailToAnswer, TypeOK
      <4> QED
        BY <3>9, <4>2, <4>3, <4>4 DEF ReceiveAndFailToAnswer, TypeOK
    <3>10. CASE Reject(p, msg)
      <4>1. RejectMessage(keys[p], msg) \in Manager
        BY <2>1, <3>1, RejectMessageType
      <4> QED
        BY <3>3, <3>10, <4>1 DEF Reject, TypeOK
    <3>11. CASE Crash(p, msg)
      BY <3>11 DEF Crash, TypeOK
    <3> QED
      BY <2>4, <3>6, <3>7, <3>8, <3>9, <3>10, <3>11 DEF Receive
  <2>5. ASSUME NEW p \in Peer, NEW msg \in net[p],
               Lose(p, msg) \/ Corrupt(p, msg)
        PROVE  TypeOK'
    <3>1. [msg EXCEPT !.intact = FALSE] \in Message
      <4>1. msg \in Message
        BY DEF TypeOK
      <4> QED
        BY <4>1, Zenon DEF Message
    <3>2. UNCHANGED <<keys, state, crashed, sent, got, revealed>>
      BY <2>5, Zenon DEF Lose, Corrupt
    <3>3. PICK S \in SUBSET Message : net' = [net EXCEPT ![p] = S]
      <4>1. net[p] \in SUBSET Message
        BY DEF TypeOK
      <4> QED
        BY <2>5, <3>1, <4>1, Zenon DEF Lose, Corrupt
    <3>4. net' \in [Peer -> SUBSET Message]
      BY <3>3, Zenon DEF TypeOK
    <3> QED
      BY <3>2, <3>4, Zenon DEF TypeOK
  <2>6. CASE UNCHANGED vars
    BY <2>6 DEF vars, TypeOK
  <2> QED
    BY <2>3, <2>4, <2>5, <2>6 DEF Next
<1> QED
  BY <1>1, <1>2, PTL DEF Spec

-----------------------------------------------------------------------------
\* The order of message keys is an invariant: no chain is ever moved back behind
\* a key that was used, and the store of skipped keys holds unused keys only.
THEOREM KeyOrder == Spec => []KeysInOrder
<1>1. Init => KeysInOrder
  <2> SUFFICES ASSUME Init, NEW p \in Peer
               PROVE  KeysBehind(keys[p], got[p], sent[p])
    BY DEF KeysInOrder
  <2> QED
    BY DEF Init, KeysBehind, RatchetingInit, EmptyChain
<1>2. TypeOK /\ KeysInOrder /\ [Next]_vars => KeysInOrder'
  <2> SUFFICES ASSUME TypeOK, KeysInOrder, [Next]_vars PROVE KeysInOrder'
    OBVIOUS
  <2> USE MessageIsHeader, OtherPeer
  <2>1. \A p \in Peer : /\ keys[p] \in Manager
                        /\ got[p] \in SUBSET ChainKey
                        /\ sent[p] \in SUBSET ChainKey
                        /\ KeysBehind(keys[p], got[p], sent[p])
    BY DEF TypeOK, KeysInOrder
  <2>2. ASSUME NEW p \in Peer,
               KeysBehind(keys'[p], got'[p], sent'[p]),
               \A q \in Peer \ {p} :
                 keys'[q] = keys[q] /\ got'[q] = got[q] /\ sent'[q] = sent[q]
        PROVE  KeysInOrder'
    BY <2>1, <2>2 DEF KeysInOrder
  <2>3. ASSUME NEW p \in Peer, Send(p) PROVE KeysInOrder'
    <3>1. KeysBehind(SendData(keys[p], p), got[p],
                     sent[p] \cup {DataMessage(keys[p], p).key})
      BY <2>1, SendDataBehind
    <3>2. /\ keys'[p] = SendData(keys[p], p)
          /\ sent'[p] = sent[p] \cup {DataMessage(keys[p], p).key}
          /\ got' = got
      BY <2>3 DEF Send, TypeOK
    <3>3. \A q \in Peer \ {p} : keys'[q] = keys[q] /\ sent'[q] = sent[q]
      BY <2>3 DEF Send, TypeOK
    <3> QED
      BY <2>2, <3>1, <3>2, <3>3
  <2>4. ASSUME NEW p \in Peer, NEW msg \in net[p], Receive(p, msg)
        PROVE  KeysInOrder'
    <3>1. msg \in Header /\ msg.key \in ChainKey
      BY NetMessage
    <3> DEFINE r == ReceiveRatchet(keys[p], msg)
               q == StoreOldMacKey(r, msg.key)
               G == got[p] \cup {msg.key}
    <3>2. r \in Manager
      BY <2>1, <3>1, ReceiveRatchetType
    <3>3. /\ q \in Manager /\ q.root_key = r.root_key
          /\ q.chain_s = r.chain_s /\ q.chain_r = r.chain_r
          /\ q.skipped_keys = r.skipped_keys
      BY <3>1, <3>2, StoreOldMacKeyType
    <3>4. ReceiveKey(keys[p], msg) = msg.key =>
            KeysBehind(r, G, sent[p]) /\ KeysBehind(q, G, sent[p])
      <4>1. KeysBehind(r, got[p] \cup {ReceiveKey(keys[p], msg)}, sent[p])
        BY <2>1, <3>1, ReceiveRatchetBehind
      <4> HIDE DEF r, q
      <4> QED
        BY <3>2, <3>3, <4>1, KeysBehindFrame
    <3> HIDE DEF r, q
    <3>5. \A reply : Accept(p, msg, reply) =>
            /\ ReceiveKey(keys[p], msg) = msg.key
            /\ got'[p] = G
            /\ \A o \in Peer \ {p} : got'[o] = got[o]
      BY DEF Accept, Accepts, IsValid, TypeOK
    <3>6. G \in SUBSET ChainKey
      BY <2>1, <3>1
    <3> HIDE DEF G
    <3>7. ASSUME NEW m \in Manager, NEW stored \in SUBSET ChainKey,
                 KeysBehind(m, G, sent[p]), got'[p] = G,
                 \A o \in Peer \ {p} : got'[o] = got[o],
                 AnswerWith(p, msg, m, stored)
          PROVE  KeysInOrder'
      <4> DEFINE d == SendData(m, p)
                 e == [d EXCEPT !.old_mac_keys = @ \cup stored]
                 x == DataMessage(m, p).key
      <4>1. d \in Manager /\ KeysBehind(d, G, sent[p] \cup {x})
        BY <2>1, <3>6, <3>7, SendDataType, SendDataBehind
      <4>2. /\ keys' = [keys EXCEPT ![p] = e]
            /\ sent' = [sent EXCEPT ![p] = @ \cup {x}]
        BY <3>7 DEF AnswerWith
      <4> HIDE DEF d, x
      <4>3. d.old_mac_keys \cup stored \in SUBSET ChainKey
        BY <4>1 DEF Manager
      <4>4. e \in Manager
        BY <4>1, <4>3, Zenon DEF Manager
      <4>5. /\ e.root_key = d.root_key /\ e.chain_s = d.chain_s
            /\ e.chain_r = d.chain_r /\ e.skipped_keys = d.skipped_keys
        BY <4>1 DEF Manager
      <4> HIDE DEF e
      <4>6. KeysBehind(e, G, sent[p] \cup {x})
        BY <4>1, <4>4, <4>5, KeysBehindFrame
      <4>7. keys'[p] = e /\ sent'[p] = sent[p] \cup {x}
        BY <4>2 DEF TypeOK
      <4>8. \A o \in Peer \ {p} : keys'[o] = keys[o] /\ sent'[o] = sent[o]
        BY <4>2 DEF TypeOK
      <4> QED
        BY <2>2, <3>7, <4>6, <4>7, <4>8
    <3>8. CASE ReceiveQuiet(p, msg)
      <4>1. Accept(p, msg, "none") /\ keys' = [keys EXCEPT ![p] = q]
            /\ sent' = sent
        BY <3>8 DEF ReceiveQuiet, q, r
      <4>2. keys'[p] = q /\ \A o \in Peer \ {p} : keys'[o] = keys[o]
        BY <4>1 DEF TypeOK
      <4> QED
        BY <2>2, <3>4, <3>5, <4>1, <4>2
    <3>9. CASE ReceiveAndReplyTlv(p, msg)
      <4>1. Accept(p, msg, "tlv") /\ AnswerWith(p, msg, r, {msg.key})
        BY <3>9 DEF ReceiveAndReplyTlv, r
      <4>2. {msg.key} \in SUBSET ChainKey
        BY <3>1
      <4> QED
        BY <3>2, <3>4, <3>5, <3>7, <4>1, <4>2
    <3>10. CASE ReceiveAndHeartbeat(p, msg)
      <4>1. Accept(p, msg, "heartbeat") /\ AnswerWith(p, msg, q, {})
        BY <3>10 DEF ReceiveAndHeartbeat, q, r
      <4> QED
        BY <3>3, <3>4, <3>5, <3>7, <4>1
    <3>11. ASSUME NEW reply \in Replies, ReceiveAndFailToAnswer(p, msg, reply)
           PROVE  KeysInOrder'
      <4>1. /\ Accept(p, msg, reply)
            /\ keys' = [keys EXCEPT ![p] = IF reply = "tlv" THEN r ELSE q]
            /\ sent' = sent
        BY <3>11 DEF ReceiveAndFailToAnswer, r, q
      <4>2. keys'[p] \in {r, q} /\ \A o \in Peer \ {p} : keys'[o] = keys[o]
        BY <4>1 DEF TypeOK
      <4> QED
        BY <2>2, <3>4, <3>5, <4>1, <4>2
    <3>12. CASE Reject(p, msg)
      <4> DEFINE x == RejectMessage(keys[p], msg)
      <4>1. /\ x \in Manager /\ x.root_key = keys[p].root_key
            /\ x.chain_s = keys[p].chain_s /\ x.chain_r = keys[p].chain_r
            /\ x.skipped_keys = keys[p].skipped_keys
        BY <2>1, <3>1, RejectMessageType
      <4>2. keys' = [keys EXCEPT ![p] = x] /\ got' = got /\ sent' = sent
        BY <3>12 DEF Reject
      <4> HIDE DEF x
      <4>3. KeysBehind(x, got[p], sent[p])
        BY <2>1, <4>1, KeysBehindFrame
      <4>4. keys'[p] = x /\ \A o \in Peer \ {p} : keys'[o] = keys[o]
        BY <4>2 DEF TypeOK
      <4> QED
        BY <2>2, <4>2, <4>3, <4>4
    <3>13. CASE Crash(p, msg)
      BY <3>13 DEF Crash, KeysInOrder
    <3> QED
      BY <2>4, <3>8, <3>9, <3>10, <3>11, <3>12, <3>13 DEF Receive
  <2>5. ASSUME NEW p \in Peer, NEW msg \in net[p],
               Lose(p, msg) \/ Corrupt(p, msg)
        PROVE  KeysInOrder'
    BY <2>5 DEF Lose, Corrupt, KeysInOrder
  <2>6. CASE UNCHANGED vars
    BY <2>6 DEF vars, KeysInOrder
  <2> QED
    BY <2>3, <2>4, <2>5, <2>6 DEF Next
<1> QED
  BY <1>1, <1>2, TypeCorrect, PTL DEF Spec

\* No replay, for every network: a message that was decrypted is never accepted
\* again, because the key it is checked with is always one that was never used.
THEOREM ReplaySafety == Spec => []NoReplay
<1>1. TypeOK /\ KeysInOrder => NoReplay
  <2> SUFFICES ASSUME TypeOK, KeysInOrder, NEW p \in Peer, NEW msg \in net[p],
                      msg.key \in got[p]
               PROVE  ~IsValid(p, msg)
    BY DEF NoReplay
  <2>1. msg \in Header
    BY MessageIsHeader DEF TypeOK
  <2>2. /\ keys[p] \in Manager /\ got[p] \in SUBSET ChainKey
        /\ sent[p] \in SUBSET ChainKey
        /\ KeysBehind(keys[p], got[p], sent[p])
    BY DEF TypeOK, KeysInOrder
  <2>3. ReceiveKey(keys[p], msg) \notin got[p]
    BY <2>1, <2>2, ReceiveRatchetBehind
  <2> QED
    BY <2>3 DEF IsValid
<1> QED
  BY <1>1, TypeCorrect, KeyOrder, PTL

\* Forward secrecy within a ratchet, for every network: the state of a peer does
\* not yield the key of a message it has decrypted or sent.
THEOREM ForwardSecrecyHolds == Spec => []ForwardSecrecy
<1>1. TypeOK /\ KeysInOrder => ForwardSecrecy
  <2> SUFFICES ASSUME TypeOK, KeysInOrder, NEW p \in Peer
               PROVE  /\ \A x \in got[p] : Forgotten(keys[p], x)
                      /\ \A x \in sent[p] :
                           ~(x.root = keys[p].chain_s.root
                               /\ keys[p].chain_s.n <= x.n)
    BY DEF ForwardSecrecy
  <2>1. KeysBehind(keys[p], got[p], sent[p])
    BY DEF KeysInOrder
  <2>2. keys[p].chain_r \in ChainKey /\ keys[p].chain_s \in ChainKey
        /\ got[p] \in SUBSET ChainKey /\ sent[p] \in SUBSET ChainKey
    BY DEF TypeOK, Manager
  <2>3. \A x, c \in ChainKey : Behind(x, c) => ~(x.root = c.root /\ c.n <= x.n)
    BY DEF Behind, ChainKey
  <2> QED
    BY <2>1, <2>2, <2>3 DEF KeysBehind, Forgotten
<1> QED
  BY <1>1, TypeCorrect, KeyOrder, PTL

-----------------------------------------------------------------------------
(***************************************************************************)
(* The MAC keys: kept once, revealed once.                                 *)
(***************************************************************************)

\* The inductive invariant: every kept or revealed MAC key belongs to a message
\* that was decrypted, and no key is both kept and revealed.
MacKeysOnce ==
  \A p \in Peer :
    /\ keys[p].old_mac_keys \cup revealed[p] \subseteq got[p]
    /\ keys[p].old_mac_keys \cap revealed[p] = {}

\* The key of an accepted message is one that was never used before.
LEMMA AcceptedKeyIsNew ==
  ASSUME TypeOK, KeysInOrder, NEW p \in Peer, NEW msg \in net[p],
         Accepts(p, msg)
  PROVE  msg.key \in ChainKey \ got[p]
<1>1. msg \in Header /\ msg.key \in ChainKey
  BY NetMessage
<1>2. /\ keys[p] \in Manager /\ got[p] \in SUBSET ChainKey
      /\ sent[p] \in SUBSET ChainKey
      /\ KeysBehind(keys[p], got[p], sent[p])
  BY DEF TypeOK, KeysInOrder
<1>3. ReceiveKey(keys[p], msg) \notin got[p]
  BY <1>1, <1>2, ReceiveRatchetBehind
<1> QED
  BY <1>1, <1>3 DEF Accepts, IsValid

\* The ways in which a step may treat the MAC keys of a peer.
MacEffect(p) ==
  LET old  == keys[p].old_mac_keys
      old2 == keys'[p].old_mac_keys
      rev  == revealed[p]
      rev2 == revealed'[p]
  IN \/ old2 = old /\ rev2 = rev /\ got'[p] = got[p]
     \/ old2 = {} /\ rev2 = rev \cup old /\ got'[p] = got[p]
     \/ \E x \in ChainKey \ got[p] :
          /\ got'[p] = got[p] \cup {x}
          /\ \/ old2 = old \cup {x} /\ rev2 = rev
             \/ old2 = {x} /\ rev2 = rev \cup old
             \/ old2 = {} /\ rev2 = rev \cup old \cup {x}
             \/ old2 = old /\ rev2 = rev /\ state[p] # "ENCRYPTED_MESSAGES"

\* An answer that is sent while a message is handled reveals what the manager
\* held when the answer was sent and keeps what is stored afterwards.
LEMMA AnswerMacKeys ==
  ASSUME TypeOK, NEW p \in Peer, NEW msg \in net[p],
         NEW m \in Manager, NEW stored \in SUBSET ChainKey,
         AnswerWith(p, msg, m, stored)
  PROVE  /\ keys'[p].old_mac_keys =
              (IF m.j = 0 THEN {} ELSE m.old_mac_keys) \cup stored
         /\ revealed'[p] = revealed[p] \cup (IF m.j = 0 THEN m.old_mac_keys ELSE {})
         /\ \A q \in Peer \ {p} : keys'[q] = keys[q] /\ revealed'[q] = revealed[q]
<1> DEFINE d == SendData(m, p)
           e == [d EXCEPT !.old_mac_keys = @ \cup stored]
<1>1. d \in Manager
  BY SendDataType
<1>2. d.old_mac_keys = IF m.j = 0 THEN {} ELSE m.old_mac_keys
  <2>1. SendKeys(m, p).old_mac_keys = m.old_mac_keys
    BY RotateKeysSendFields DEF SendKeys
  <2> QED
    BY <2>1, SendDataFields
<1>3. keys' = [keys EXCEPT ![p] = e]
  BY DEF AnswerWith
<1>4. revealed' = [revealed EXCEPT ![p] = @ \cup RevealedMacKeys(m)]
  BY DEF AnswerWith
<1> HIDE DEF d
<1>5. e.old_mac_keys = d.old_mac_keys \cup stored
  BY <1>1, Zenon DEF Manager
<1> HIDE DEF e
<1>6. keys'[p] = e /\ \A q \in Peer \ {p} : keys'[q] = keys[q]
  BY <1>3 DEF TypeOK
<1>7. /\ revealed'[p] = revealed[p] \cup RevealedMacKeys(m)
      /\ \A q \in Peer \ {p} : revealed'[q] = revealed[q]
  BY <1>4 DEF TypeOK
<1> QED
  BY <1>2, <1>5, <1>6, <1>7 DEF RevealedMacKeys

\* Every step treats the MAC keys of both peers in one of those ways.
LEMMA StepMacEffect ==
  ASSUME TypeOK, KeysInOrder, [Next]_vars, NEW o \in Peer
  PROVE  MacEffect(o)
<1> USE OtherPeer
<1>1. \A p \in Peer : keys[p] \in Manager
  BY DEF TypeOK
<1>2. ASSUME NEW p \in Peer, Send(p) PROVE MacEffect(o)
  <2>1. SendData(keys[p], p).old_mac_keys =
          IF keys[p].j = 0 THEN {} ELSE keys[p].old_mac_keys
    <3>1. SendKeys(keys[p], p).old_mac_keys = keys[p].old_mac_keys
      BY <1>1, RotateKeysSendFields DEF SendKeys
    <3> QED
      BY <1>1, <3>1, SendDataFields
  <2>2. /\ keys' = [keys EXCEPT ![p] = SendData(keys[p], p)]
        /\ revealed' = [revealed EXCEPT ![p] = @ \cup RevealedMacKeys(keys[p])]
        /\ got' = got
    BY <1>2 DEF Send
  <2>3. /\ keys'[p] = SendData(keys[p], p)
        /\ \A q \in Peer \ {p} : keys'[q] = keys[q]
    BY <2>2 DEF TypeOK
  <2>4. /\ revealed'[p] = revealed[p] \cup RevealedMacKeys(keys[p])
        /\ \A q \in Peer \ {p} : revealed'[q] = revealed[q]
    BY <2>2 DEF TypeOK
  <2> QED
    BY <2>1, <2>2, <2>3, <2>4 DEF MacEffect, RevealedMacKeys
<1>3. ASSUME NEW p \in Peer, NEW msg \in net[p], Receive(p, msg)
      PROVE  MacEffect(o)
  <2>1. msg \in Header /\ msg.key \in ChainKey
    BY NetMessage
  <2> DEFINE r == ReceiveRatchet(keys[p], msg)
             q == StoreOldMacKey(r, msg.key)
             x == msg.key
  <2>2. r \in Manager /\ r.old_mac_keys = keys[p].old_mac_keys
    BY <1>1, <2>1, ReceiveRatchetType, ReceiveRatchetFields
  <2>3. q \in Manager /\ q.old_mac_keys = r.old_mac_keys \cup {x} /\ q.j = r.j
    <3>1. q \in Manager
      BY <2>1, <2>2, StoreOldMacKeyType
    <3> HIDE DEF r
    <3> QED
      BY <2>2, <3>1, Zenon DEF StoreOldMacKey, Manager
  <2>4. \A reply : Accept(p, msg, reply) =>
          /\ x \in ChainKey \ got[p]
          /\ got'[p] = got[p] \cup {x}
          /\ \A s \in Peer \ {p} : got'[s] = got[s]
    BY AcceptedKeyIsNew DEF Accept, TypeOK
  <2> HIDE DEF r, q, x
  <2>5. CASE ReceiveQuiet(p, msg)
    <3>1. Accept(p, msg, "none") /\ keys' = [keys EXCEPT ![p] = q]
          /\ revealed' = revealed
      BY <2>5 DEF ReceiveQuiet, q, r, x
    <3>2. keys'[p] = q /\ \A s \in Peer \ {p} : keys'[s] = keys[s]
      BY <3>1 DEF TypeOK
    <3> QED
      BY <2>2, <2>3, <2>4, <3>1, <3>2 DEF MacEffect
  <2>6. CASE ReceiveAndReplyTlv(p, msg)
    <3>1. Accept(p, msg, "tlv") /\ AnswerWith(p, msg, r, {x})
      BY <2>6 DEF ReceiveAndReplyTlv, r, x
    <3>2. {x} \in SUBSET ChainKey
      BY <2>1 DEF x
    <3>3. /\ keys'[p].old_mac_keys = (IF r.j = 0 THEN {} ELSE r.old_mac_keys) \cup {x}
          /\ revealed'[p] = revealed[p] \cup (IF r.j = 0 THEN r.old_mac_keys ELSE {})
          /\ \A s \in Peer \ {p} : keys'[s] = keys[s] /\ revealed'[s] = revealed[s]
      BY <2>2, <3>1, <3>2, AnswerMacKeys
    <3> QED
      BY <2>2, <2>4, <3>1, <3>3 DEF MacEffect
  <2>7. CASE ReceiveAndHeartbeat(p, msg)
    <3>1. Accept(p, msg, "heartbeat") /\ AnswerWith(p, msg, q, {})
      BY <2>7 DEF ReceiveAndHeartbeat, q, r, x
    <3>2. /\ keys'[p].old_mac_keys = (IF q.j = 0 THEN {} ELSE q.old_mac_keys) \cup {}
          /\ revealed'[p] = revealed[p] \cup (IF q.j = 0 THEN q.old_mac_keys ELSE {})
          /\ \A s \in Peer \ {p} : keys'[s] = keys[s] /\ revealed'[s] = revealed[s]
      <4>1. {} \in SUBSET ChainKey
        OBVIOUS
      <4> QED
        BY <2>3, <3>1, <4>1, AnswerMacKeys
    <3> QED
      BY <2>2, <2>3, <2>4, <3>1, <3>2, ZenonT(40) DEF MacEffect
  <2>8. ASSUME NEW reply \in Replies, ReceiveAndFailToAnswer(p, msg, reply)
        PROVE  MacEffect(o)
    <3>1. /\ Accept(p, msg, reply)
          /\ state[p] = "WAITING_DAKE_DATA_MESSAGE"
          /\ keys' = [keys EXCEPT ![p] = IF reply = "tlv" THEN r ELSE q]
          /\ revealed' = revealed
      BY <2>8 DEF ReceiveAndFailToAnswer, r, q, x
    <3>2. keys'[p] \in {r, q} /\ \A s \in Peer \ {p} : keys'[s] = keys[s]
      BY <3>1 DEF TypeOK
    <3> QED
      BY <2>2, <2>3, <2>4, <3>1, <3>2 DEF MacEffect
  <2>9. CASE Reject(p, msg)
    <3>1. RejectMessage(keys[p], msg).old_mac_keys = keys[p].old_mac_keys
      BY <1>1, <2>1, RejectMessageFields
    <3>2. /\ keys' = [keys EXCEPT ![p] = RejectMessage(keys[p], msg)]
          /\ got' = got /\ revealed' = revealed
      BY <2>9 DEF Reject
    <3>3. /\ keys'[p] = RejectMessage(keys[p], msg)
          /\ \A s \in Peer \ {p} : keys'[s] = keys[s]
      BY <3>2 DEF TypeOK
    <3> QED
      BY <3>1, <3>2, <3>3 DEF MacEffect
  <2>10. CASE Crash(p, msg)
    BY <2>10 DEF Crash, MacEffect
  <2> QED
    BY <1>3, <2>5, <2>6, <2>7, <2>8, <2>9, <2>10 DEF Receive
<1>4. ASSUME NEW p \in Peer, NEW msg \in net[p], Lose(p, msg) \/ Corrupt(p, msg)
      PROVE  MacEffect(o)
  BY <1>4 DEF Lose, Corrupt, MacEffect
<1>5. CASE UNCHANGED vars
  BY <1>5 DEF vars, MacEffect
<1> QED
  BY <1>2, <1>3, <1>4, <1>5 DEF Next

\* MAC keys are published once and never forgotten, for every network and every
\* way of answering: no step drops the MAC key of a decrypted message before
\* send_data_message reveals it, and none keeps a revealed key again.
THEOREM MacKeysAreKept == Spec => MacKeysKept
<1>1. Init => MacKeysOnce
  BY DEF Init, MacKeysOnce, RatchetingInit
<1>2. TypeOK /\ KeysInOrder /\ MacKeysOnce /\ [Next]_vars
        => MacKeysOnce' /\ MacKeysStep
  <2> SUFFICES ASSUME TypeOK, KeysInOrder, MacKeysOnce, [Next]_vars,
                      NEW p \in Peer
               PROVE  LET known == keys[p].old_mac_keys \cup revealed[p]
                          new   == IF state[p] = "ENCRYPTED_MESSAGES"
                                     THEN got'[p] \ got[p] ELSE {}
                          kept  == keys'[p].old_mac_keys
                      IN /\ kept \cup revealed'[p] \subseteq got'[p]
                         /\ kept \cap revealed'[p] = {}
                         /\ known \cup new \subseteq kept \cup revealed'[p]
    BY DEF MacKeysOnce, MacKeysStep
  <2>1. MacEffect(p)
    BY StepMacEffect
  <2>2. /\ keys[p].old_mac_keys \cup revealed[p] \subseteq got[p]
        /\ keys[p].old_mac_keys \cap revealed[p] = {}
    BY DEF MacKeysOnce
  <2> QED
    BY <2>1, <2>2 DEF MacEffect
<1> QED
  BY <1>1, <1>2, TypeCorrect, KeyOrder, PTL DEF Spec, MacKeysKept

-----------------------------------------------------------------------------
(***************************************************************************)
(* What a step may do to one peer, whatever the action: the frame of the   *)
(* theorems about one manager.                                             *)
(***************************************************************************)

\* A manager that differs in the MAC keys it keeps.
WithMacKeys(m, S) == [m EXCEPT !.old_mac_keys = S]

\* Changing the kept MAC keys leaves everything else.
LEMMA WithMacKeysFields ==
  ASSUME NEW m \in Manager, NEW S \in SUBSET ChainKey
  PROVE  LET r == WithMacKeys(m, S)
         IN /\ r \in Manager
            /\ r.k = m.k /\ r.chain_r = m.chain_r
            /\ r.skipped_keys = m.skipped_keys
            /\ r.i = m.i /\ r.j = m.j /\ r.pn = m.pn
            /\ r.our_ecdh = m.our_ecdh /\ r.ecdh_priv = m.ecdh_priv
            /\ r.our_dh = m.our_dh /\ r.dh_priv = m.dh_priv
            /\ r.their_ecdh = m.their_ecdh /\ r.their_dh = m.their_dh
            /\ r.brace_key = m.brace_key /\ r.root_key = m.root_key
            /\ r.chain_s = m.chain_s /\ r.dangling = m.dangling
  BY Zenon DEF WithMacKeys, Manager

\* Writing the kept MAC keys back changes nothing.
LEMMA SameMacKeys ==
  ASSUME NEW m \in Manager
  PROVE  m.old_mac_keys \in SUBSET ChainKey /\ WithMacKeys(m, m.old_mac_keys) = m
  BY DEF WithMacKeys, Manager

\* What a step makes of the manager of p: nothing, a sent message, a rejected
\* message, or an accepted one that may be answered at once.
Moves(p, n) ==
  \/ n = keys[p]
  \/ n = SendData(keys[p], p)
  \/ \E msg \in Deliverable(p) :
       \/ n = RejectMessage(keys[p], msg)
       \/ /\ Accepts(p, msg)
          /\ \E S1, S2 \in SUBSET ChainKey :
               LET r == WithMacKeys(ReceiveRatchet(keys[p], msg), S1)
               IN n = r \/ n = WithMacKeys(SendData(r, p), S2)

\* An answer sent while a message is handled is such a move, and what it adds to
\* the network is the message that the new manager sent last.
LEMMA AnswerMoves ==
  ASSUME TypeOK, NEW p \in Peer, NEW msg \in net[p],
         msg \in Deliverable(p), Accepts(p, msg),
         NEW S \in SUBSET ChainKey, NEW stored \in SUBSET ChainKey,
         AnswerWith(p, msg, WithMacKeys(ReceiveRatchet(keys[p], msg), S), stored)
  PROVE  /\ Moves(p, keys'[p])
         /\ \A q \in Peer \ {p} : keys'[q] = keys[q]
<1> DEFINE m == WithMacKeys(ReceiveRatchet(keys[p], msg), S)
           d == SendData(m, p)
           T == d.old_mac_keys \cup stored
<1>1. m \in Manager
  BY NetMessage, ReceiveRatchetType, WithMacKeysFields DEF TypeOK
<1>2. d \in Manager
  BY <1>1, SendDataType
<1>3. T \in SUBSET ChainKey
  <2> HIDE DEF d
  <2> QED
    BY <1>2 DEF Manager
<1>4. keys' = [keys EXCEPT ![p] = WithMacKeys(d, T)]
  BY DEF AnswerWith, WithMacKeys
<1> HIDE DEF T
<1>5. /\ keys'[p] = WithMacKeys(d, T)
      /\ \A q \in Peer \ {p} : keys'[q] = keys[q]
  BY <1>4 DEF TypeOK
<1> QED
  BY <1>3, <1>5 DEF Moves

\* Every step moves every peer in one of these ways.
LEMMA PeerMoves ==
  ASSUME TypeOK, [Next]_vars, NEW o \in Peer
  PROVE  Moves(o, keys'[o])
<1> USE OtherPeer
<1>1. \A p \in Peer : keys[p] \in Manager
  BY DEF TypeOK
<1>2. ASSUME NEW p \in Peer, Moves(p, keys'[p]),
             \A q \in Peer \ {p} : keys'[q] = keys[q]
      PROVE  Moves(o, keys'[o])
  BY <1>2 DEF Moves
<1>3. ASSUME NEW p \in Peer, Send(p) PROVE Moves(o, keys'[o])
  <2>1. keys' = [keys EXCEPT ![p] = SendData(keys[p], p)]
    BY <1>3 DEF Send
  <2>2. keys'[p] = SendData(keys[p], p) /\ \A q \in Peer \ {p} : keys'[q] = keys[q]
    BY <2>1 DEF TypeOK
  <2> QED
    BY <1>2, <2>2 DEF Moves
<1>4. ASSUME NEW p \in Peer, NEW msg \in net[p], Receive(p, msg)
      PROVE  Moves(o, keys'[o])
  <2>1. msg \in Header /\ msg.key \in ChainKey
    BY NetMessage
  <2> DEFINE r == ReceiveRatchet(keys[p], msg)
             S == r.old_mac_keys \cup {msg.key}
  <2>2. r \in Manager
    BY <1>1, <2>1, ReceiveRatchetType
  <2>3. r.old_mac_keys \in SUBSET ChainKey /\ WithMacKeys(r, r.old_mac_keys) = r
    BY <2>2, SameMacKeys
  <2>4. S \in SUBSET ChainKey /\ {msg.key} \in SUBSET ChainKey
        /\ {} \in SUBSET ChainKey
    BY <2>1, <2>3
  <2>5. StoreOldMacKey(r, msg.key) = WithMacKeys(r, S)
    BY DEF StoreOldMacKey, WithMacKeys
  <2> HIDE DEF r, S
  <2>6. ASSUME msg \in Deliverable(p), Accepts(p, msg),
               keys' = [keys EXCEPT ![p] = r] \/
                 keys' = [keys EXCEPT ![p] = WithMacKeys(r, S)]
        PROVE  Moves(o, keys'[o])
    <3>1. keys'[p] \in {r, WithMacKeys(r, S)} /\ \A q \in Peer \ {p} : keys'[q] = keys[q]
      BY <2>6 DEF TypeOK
    <3>2. \E S1 \in SUBSET ChainKey : keys'[p] = WithMacKeys(r, S1)
      BY <2>3, <2>4, <3>1
    <3>3. Moves(p, keys'[p])
      BY <2>4, <2>6, <3>2 DEF Moves, r
    <3> QED
      BY <1>2, <3>1, <3>3
  <2>7. CASE ReceiveQuiet(p, msg)
    BY <2>5, <2>6, <2>7 DEF ReceiveQuiet, Accept, r
  <2>8. CASE ReceiveAndReplyTlv(p, msg)
    <3>1. /\ msg \in Deliverable(p) /\ Accepts(p, msg)
          /\ AnswerWith(p, msg, WithMacKeys(r, r.old_mac_keys), {msg.key})
      BY <2>3, <2>8 DEF ReceiveAndReplyTlv, Accept, r
    <3> QED
      BY <1>2, <2>3, <2>4, <3>1, AnswerMoves DEF r
  <2>9. CASE ReceiveAndHeartbeat(p, msg)
    <3>1. /\ msg \in Deliverable(p) /\ Accepts(p, msg)
          /\ AnswerWith(p, msg, WithMacKeys(r, S), {})
      BY <2>5, <2>9 DEF ReceiveAndHeartbeat, Accept, r
    <3> QED
      BY <1>2, <2>4, <3>1, AnswerMoves DEF r
  <2>10. ASSUME NEW reply \in Replies, ReceiveAndFailToAnswer(p, msg, reply)
         PROVE  Moves(o, keys'[o])
    <3>1. /\ msg \in Deliverable(p) /\ Accepts(p, msg)
          /\ keys' = [keys EXCEPT ![p] = IF reply = "tlv" THEN r ELSE WithMacKeys(r, S)]
      BY <2>5, <2>10 DEF ReceiveAndFailToAnswer, Accept, r
    <3> QED
      BY <2>6, <3>1
  <2>11. CASE Reject(p, msg)
    <3>1. /\ keys' = [keys EXCEPT ![p] = RejectMessage(keys[p], msg)]
          /\ msg \in Deliverable(p)
      BY <2>11 DEF Reject
    <3>2. /\ keys'[p] = RejectMessage(keys[p], msg)
          /\ \A q \in Peer \ {p} : keys'[q] = keys[q]
      BY <3>1 DEF TypeOK
    <3> QED
      BY <1>2, <3>1, <3>2 DEF Moves
  <2>12. CASE Crash(p, msg)
    BY <2>12 DEF Crash, Moves
  <2> QED
    BY <1>4, <2>7, <2>8, <2>9, <2>10, <2>11, <2>12 DEF Receive
<1>5. ASSUME NEW p \in Peer, NEW msg \in net[p], Lose(p, msg) \/ Corrupt(p, msg)
      PROVE  Moves(o, keys'[o])
  BY <1>5 DEF Lose, Corrupt, Moves
<1>6. CASE UNCHANGED vars
  BY <1>6 DEF vars, Moves
<1> QED
  BY <1>3, <1>4, <1>5, <1>6 DEF Next

\* A message that sending from m puts on the wire carries the ECDH key that the
\* manager holds afterwards.
LEMMA SentWithOurKey ==
  ASSUME NEW m \in Manager, NEW p \in Peer
  PROVE  DataMessage(m, p).ecdh = SendData(m, p).our_ecdh
<1>1. SendData(m, p).our_ecdh = SendKeys(m, p).our_ecdh
  BY SendDataFields
<1> QED
  BY <1>1 DEF DataMessage

\* The keys on the wire: what a step adds to a peer's network is what the other
\* peer sent with its current ECDH key.
LEMMA NetMoves ==
  ASSUME TypeOK, [Next]_vars, NEW o \in Peer, NEW x \in net'[o]
  PROVE  \/ \E y \in net[o] : x.ecdh = y.ecdh
         \/ x.ecdh = keys'[Other(o)].our_ecdh
<1> USE OtherPeer
<1>0. Other(Other(o)) = o /\ \A p \in Peer : Other(p) = o => p = Other(o)
  BY DEF Other, Peer
<1>1. \A p \in Peer : keys[p] \in Manager
  BY DEF TypeOK
<1>2. ASSUME NEW p \in Peer, Send(p)
      PROVE  \/ \E y \in net[o] : x.ecdh = y.ecdh
             \/ x.ecdh = keys'[Other(o)].our_ecdh
  <2>1. keys'[p] = SendData(keys[p], p)
    BY <1>2 DEF Send, TypeOK
  <2>2. DataMessage(keys[p], p).ecdh = keys'[p].our_ecdh
    BY <1>1, <2>1, SentWithOurKey
  <2>3. x \in net[o] \/ (o = Other(p) /\ x = DataMessage(keys[p], p))
    BY <1>2 DEF Send, TypeOK
  <2> QED
    BY <1>0, <2>2, <2>3
<1>3. ASSUME NEW p \in Peer, NEW msg \in net[p], Receive(p, msg)
      PROVE  \/ \E y \in net[o] : x.ecdh = y.ecdh
             \/ x.ecdh = keys'[Other(o)].our_ecdh
  <2>1. msg \in Header /\ msg.key \in ChainKey
    BY NetMessage
  <2> DEFINE r == ReceiveRatchet(keys[p], msg)
             q == StoreOldMacKey(r, msg.key)
  <2>2. r \in Manager /\ q \in Manager
    BY <1>1, <2>1, ReceiveRatchetType, StoreOldMacKeyType
  <2>3. \A left \in Leftovers(p, msg) : left \subseteq net[p]
    BY DEF Leftovers
  <2> HIDE DEF r, q
  <2>4. ASSUME NEW m \in Manager, NEW stored \in SUBSET ChainKey,
               AnswerWith(p, msg, m, stored)
        PROVE  \/ \E y \in net[o] : x.ecdh = y.ecdh
               \/ x.ecdh = keys'[Other(o)].our_ecdh
    <3> DEFINE d == SendData(m, p)
               e == [d EXCEPT !.old_mac_keys = @ \cup stored]
    <3>1. d \in Manager /\ DataMessage(m, p).ecdh = d.our_ecdh
      BY SendDataType, SentWithOurKey
    <3>2. keys' = [keys EXCEPT ![p] = e]
      BY <2>4 DEF AnswerWith
    <3> HIDE DEF d
    <3>3. e.our_ecdh = d.our_ecdh
      BY <3>1, Zenon DEF Manager
    <3> HIDE DEF e
    <3>4. keys'[p] = e
      BY <3>2 DEF TypeOK
    <3>5. x \in net[o] \/ (o = Other(p) /\ x = DataMessage(m, p))
      BY <2>3, <2>4 DEF AnswerWith, TypeOK
    <3> QED
      BY <1>0, <3>1, <3>3, <3>4, <3>5
  <2>5. CASE ReceiveQuiet(p, msg)
    <3>1. x \in net[o]
      BY <2>3, <2>5 DEF ReceiveQuiet, TypeOK
    <3> QED
      BY <3>1
  <2>6. CASE ReceiveAndReplyTlv(p, msg)
    <3>1. {msg.key} \in SUBSET ChainKey /\ AnswerWith(p, msg, r, {msg.key})
      BY <2>1, <2>6 DEF ReceiveAndReplyTlv, r
    <3> QED
      BY <2>2, <2>4, <3>1
  <2>7. CASE ReceiveAndHeartbeat(p, msg)
    <3>1. {} \in SUBSET ChainKey /\ AnswerWith(p, msg, q, {})
      BY <2>7 DEF ReceiveAndHeartbeat, q, r
    <3> QED
      BY <2>2, <2>4, <3>1
  <2>8. ASSUME NEW reply \in Replies, ReceiveAndFailToAnswer(p, msg, reply)
        PROVE  \/ \E y \in net[o] : x.ecdh = y.ecdh
               \/ x.ecdh = keys'[Other(o)].our_ecdh
    <3>1. x \in net[o]
      BY <2>3, <2>8 DEF ReceiveAndFailToAnswer, TypeOK
    <3> QED
      BY <3>1
  <2>9. CASE Reject(p, msg) \/ Crash(p, msg)
    <3>1. x \in net[o]
      BY <2>3, <2>9 DEF Reject, Crash, TypeOK
    <3> QED
      BY <3>1
  <2> QED
    BY <1>3, <2>5, <2>6, <2>7, <2>8, <2>9 DEF Receive
<1>4. ASSUME NEW p \in Peer, NEW msg \in net[p], Lose(p, msg) \/ Corrupt(p, msg)
      PROVE  \E y \in net[o] : x.ecdh = y.ecdh
  <2>1. msg \in Message /\ [msg EXCEPT !.intact = FALSE].ecdh = msg.ecdh
    BY DEF TypeOK, Message
  <2>2. x \in net[o] \/ (o = p /\ x = [msg EXCEPT !.intact = FALSE])
    BY <1>4 DEF Lose, Corrupt, TypeOK
  <2> QED
    BY <2>1, <2>2
<1>5. CASE UNCHANGED vars
  BY <1>5 DEF vars
<1> QED
  BY <1>2, <1>3, <1>4, <1>5 DEF Next

-----------------------------------------------------------------------------
(***************************************************************************)
(* Erased private keys.                                                    *)
(***************************************************************************)

\* The inductive invariant of one manager: it holds its own and the other peer's
\* key in their places, no key pair is numbered above the ratchet counter, so a
\* new one is a key that no shared secret has seen, and a key pair whose private
\* half is still there occurs in the last shared secret only.
FreshKeys(m, p) ==
  /\ m.our_ecdh[1] = p /\ m.our_ecdh[2] <= m.i
  /\ m.their_ecdh[1] = Other(p)
  /\ \A n \in 1 .. Len(m.root_key) : \A e \in m.root_key[n].ecdh :
       e[1] = p => e[2] <= m.i
  /\ \A n \in 1 .. Len(m.root_key) :
       m.ecdh_priv /\ m.our_ecdh \in m.root_key[n].ecdh
         => n = Len(m.root_key)

\* Both managers are fresh and every message carries a key of its sender.
KeysFresh ==
  \A p \in Peer : /\ FreshKeys(keys[p], p)
                  /\ \A msg \in net[p] : msg.ecdh[1] = Other(p)

\* The initial keys are fresh: no secret was mixed yet.
LEMMA FreshInit == \A p \in Peer : FreshKeys(RatchetingInit(p), p)
  BY DEF FreshKeys, RatchetingInit

\* Only the ECDH keys, the counter and the root key matter.
LEMMA FreshFrame ==
  ASSUME NEW m, NEW r, NEW p, FreshKeys(m, p),
         r.our_ecdh = m.our_ecdh, r.their_ecdh = m.their_ecdh, r.i = m.i,
         r.root_key = m.root_key, r.ecdh_priv = m.ecdh_priv
  PROVE  FreshKeys(r, p)
  BY DEF FreshKeys

\* The secrets of an extended root key are the earlier ones and the last.
LEMMA AppendedSecrets ==
  ASSUME NEW root \in Seq(Secret), NEW x \in Secret
  PROVE  LET r == Append(root, x)
         IN /\ Len(r) = Len(root) + 1
            /\ \A n \in 1 .. Len(r) : n = Len(r) \/ n \in 1 .. Len(root)
            /\ \A n \in 1 .. Len(root) : r[n] = root[n]
            /\ r[Len(r)] = x
  OBVIOUS

\* The keys of a shared secret are public keys.
LEMMA SecretKeys ==
  ASSUME NEW root \in Seq(Secret), NEW n \in 1 .. Len(root)
  PROVE  \A e \in root[n].ecdh : e \in PubKey /\ e[2] \in Nat
<1>1. root[n] \in Secret
  OBVIOUS
<1>2. root[n].ecdh \in SUBSET PubKey
  BY <1>1 DEF Secret
<1> QED
  BY <1>2 DEF PubKey

\* What SendSecret builds is a secret.
LEMMA SendSecretType ==
  ASSUME NEW m \in Manager, NEW p \in Peer
  PROVE  SendSecret(m, p) \in Secret
<1>1. <<p, m.i + 1>> \in PubKey /\ m.their_ecdh \in PubKey /\ m.their_dh \in PubKey
      /\ m.brace_key \in BraceKey
  BY DEF Manager, PubKey
<1>2. [m.brace_key EXCEPT !.kdfs = @ + 1] \in BraceKey
  BY <1>1 DEF BraceKey
<1>3. [dh |-> {<<p, m.i + 1>>, m.their_dh}, kdfs |-> 0] \in BraceKey
  BY <1>1 DEF BraceKey
<1> QED
  BY <1>1, <1>2, <1>3 DEF SendSecret, Secret

\* Sending keeps the keys fresh: the new key pair is numbered above every key of
\* the root key.
LEMMA FreshSend ==
  ASSUME NEW m \in Manager, NEW p \in Peer, FreshKeys(m, p)
  PROVE  FreshKeys(SendData(m, p), p)
<1> DEFINE r == SendKeys(m, p)
           d == SendData(m, p)
<1>1. FreshKeys(r, p)
  <2>1. CASE m.j = 0
    <3> DEFINE s == SendSecret(m, p)
               new == <<p, m.i + 1>>
    <3>1. /\ r.i = m.i + 1 /\ r.our_ecdh = new /\ r.their_ecdh = m.their_ecdh
          /\ r.root_key = Append(m.root_key, s)
      BY <2>1, RotateKeysSendFields DEF SendKeys
    <3>2. s \in Secret /\ s.ecdh = {new, m.their_ecdh}
      BY SendSecretType DEF SendSecret
    <3>3. m.i \in Nat /\ m.root_key \in Seq(Secret) /\ m.their_ecdh \in PubKey
      BY DEF Manager
    <3> HIDE DEF s, r
    <3>4. /\ Len(r.root_key) = Len(m.root_key) + 1
          /\ \A n \in 1 .. Len(r.root_key) :
                n = Len(r.root_key) \/ n \in 1 .. Len(m.root_key)
          /\ \A n \in 1 .. Len(m.root_key) : r.root_key[n] = m.root_key[n]
          /\ r.root_key[Len(r.root_key)] = s
      BY <3>1, <3>2, <3>3, AppendedSecrets
    <3>5. Other(p) # p
      BY OtherPeer
    <3>6. \A n \in 1 .. Len(m.root_key) : \A e \in m.root_key[n].ecdh :
             e[2] \in Nat /\ (e[1] = p => e[2] <= m.i)
      BY <3>3, SecretKeys DEF FreshKeys
    <3>7. \A n \in 1 .. Len(r.root_key) : \A e \in r.root_key[n].ecdh :
             e[1] = p => e[2] <= r.i
      <4> SUFFICES ASSUME NEW n \in 1 .. Len(r.root_key),
                          NEW e \in r.root_key[n].ecdh, e[1] = p
                   PROVE  e[2] <= m.i + 1
        BY <3>1
      <4>1. CASE n \in 1 .. Len(m.root_key)
        BY <3>3, <3>4, <3>6, <4>1, SMTT(30)
      <4>2. CASE n = Len(r.root_key)
        BY <3>2, <3>3, <3>4, <3>5, <4>2 DEF FreshKeys
      <4> QED
        BY <3>4, <4>1, <4>2
    <3>8. \A n \in 1 .. Len(m.root_key) : new \notin m.root_key[n].ecdh
      BY <3>3, <3>6
    <3>9. \A n \in 1 .. Len(r.root_key) :
             r.our_ecdh \in r.root_key[n].ecdh => n = Len(r.root_key)
      BY <3>1, <3>4, <3>8
    <3>10. r.our_ecdh[1] = p /\ r.our_ecdh[2] <= r.i /\ r.their_ecdh[1] = Other(p)
      BY <3>1, <3>3 DEF FreshKeys
    <3> QED
      BY <3>7, <3>9, <3>10, Zenon DEF FreshKeys
  <2>2. CASE m.j # 0
    BY <2>2 DEF SendKeys
  <2> QED
    BY <2>1, <2>2
<1>2. /\ d.our_ecdh = r.our_ecdh /\ d.their_ecdh = r.their_ecdh /\ d.i = r.i
      /\ d.root_key = r.root_key /\ d.ecdh_priv = r.ecdh_priv
  BY SendDataFields, Zenon
<1> HIDE DEF r, d
<1>3. FreshKeys(d, p)
  BY <1>1, <1>2, FreshFrame
<1> QED
  BY <1>3 DEF d

\* Receiving keeps the keys fresh: a rotation uses the private key for the last
\* time and erases it.
LEMMA FreshReceive ==
  ASSUME NEW m \in Manager, NEW p \in Peer, NEW msg \in Header,
         FreshKeys(m, p), msg.ecdh[1] = Other(p)
  PROVE  FreshKeys(ReceiveRatchet(m, msg), p)
<1> DEFINE r == ReceiveRatchet(m, msg)
<1>1. CASE IsNewRatchet(m, msg)
  <2> DEFINE s == [ecdh  |-> EcdhSharedSecret(m, msg.ecdh),
                   brace |-> CalculateBraceKey(m, msg.dh)]
  <2>1. /\ r.i = m.i + 1 /\ r.our_ecdh = m.our_ecdh /\ r.their_ecdh = msg.ecdh
        /\ r.ecdh_priv = FALSE
        /\ r.root_key = Append(m.root_key, s)
    BY <1>1, ReceiveRatchetFields DEF EnterNewRatchet
  <2>2. msg.ecdh \in PubKey /\ msg.dh \in PubKey
    BY DEF Header
  <2>3. s \in Secret /\ s.ecdh \subseteq {m.our_ecdh, msg.ecdh}
    <3>1. EcdhSharedSecret(m, msg.ecdh) \in SUBSET PubKey
      BY <2>2 DEF EcdhSharedSecret, Manager
    <3>2. CalculateBraceKey(m, msg.dh) \in BraceKey
      BY <2>2 DEF CalculateBraceKey, Manager, BraceKey
    <3>3. EcdhSharedSecret(m, msg.ecdh) \subseteq {m.our_ecdh, msg.ecdh}
      BY DEF EcdhSharedSecret
    <3> QED
      BY <3>1, <3>2, <3>3 DEF Secret
  <2>4. m.i \in Nat /\ m.root_key \in Seq(Secret) /\ m.our_ecdh \in PubKey
    BY DEF Manager
  <2> HIDE DEF s, r
  <2>5. /\ Len(r.root_key) = Len(m.root_key) + 1
        /\ \A n \in 1 .. Len(r.root_key) :
              n = Len(r.root_key) \/ n \in 1 .. Len(m.root_key)
        /\ \A n \in 1 .. Len(m.root_key) : r.root_key[n] = m.root_key[n]
        /\ r.root_key[Len(r.root_key)] = s
    BY <2>1, <2>3, <2>4, AppendedSecrets
  <2>6. Other(p) # p
    BY OtherPeer
  <2>7. \A n \in 1 .. Len(m.root_key) : \A e \in m.root_key[n].ecdh :
           e[2] \in Nat /\ (e[1] = p => e[2] <= m.i)
    BY <2>4, SecretKeys DEF FreshKeys
  <2>8. \A n \in 1 .. Len(r.root_key) : \A e \in r.root_key[n].ecdh :
           e[1] = p => e[2] <= r.i
    <3> SUFFICES ASSUME NEW n \in 1 .. Len(r.root_key),
                        NEW e \in r.root_key[n].ecdh, e[1] = p
                 PROVE  e[2] <= m.i + 1
      BY <2>1
    <3>1. CASE n \in 1 .. Len(m.root_key)
      BY <2>4, <2>5, <2>7, <3>1
    <3>2. CASE n = Len(r.root_key)
      <4>1. e = m.our_ecdh \/ e = msg.ecdh
        BY <2>3, <2>5, <3>2
      <4>2. e = m.our_ecdh
        BY <2>6, <4>1
      <4> QED
        BY <2>4, <4>2 DEF FreshKeys, PubKey
    <3> QED
      BY <2>5, <3>1, <3>2
  <2>9. r.our_ecdh[1] = p /\ r.our_ecdh[2] <= r.i /\ r.their_ecdh[1] = Other(p)
    BY <2>1, <2>4 DEF FreshKeys, PubKey
  <2>10. FreshKeys(r, p)
    BY <2>1, <2>8, <2>9 DEF FreshKeys
  <2> QED
    BY <2>10 DEF r
<1>2. CASE ~IsNewRatchet(m, msg)
  <2>1. /\ r.i = m.i /\ r.our_ecdh = m.our_ecdh /\ r.their_ecdh = msg.ecdh
        /\ r.ecdh_priv = m.ecdh_priv /\ r.root_key = m.root_key
    BY <1>2, ReceiveRatchetFields, Zenon
  <2> HIDE DEF r
  <2>2. FreshKeys(r, p)
    BY <2>1 DEF FreshKeys
  <2> QED
    BY <2>2 DEF r
<1> QED
  BY <1>1, <1>2

\* Every step keeps the keys of both peers fresh.
LEMMA FreshStep == TypeOK /\ KeysFresh /\ [Next]_vars => KeysFresh'
<1> SUFFICES ASSUME TypeOK, KeysFresh, [Next]_vars
             PROVE  KeysFresh'
  OBVIOUS
<1>1. ASSUME NEW p \in Peer PROVE FreshKeys(keys'[p], p)
  <2>1. keys[p] \in Manager /\ FreshKeys(keys[p], p)
    BY DEF TypeOK, KeysFresh
  <2>2. Moves(p, keys'[p])
    BY PeerMoves
  <2>3. CASE keys'[p] = keys[p]
    BY <2>1, <2>3
  <2>4. CASE keys'[p] = SendData(keys[p], p)
    BY <2>1, <2>4, FreshSend
  <2>5. ASSUME NEW msg \in Deliverable(p), keys'[p] = RejectMessage(keys[p], msg)
        PROVE  FreshKeys(keys'[p], p)
    <3>1. msg \in net[p]
      BY DEF Deliverable
    <3>2. msg \in Header
      BY <3>1, NetMessage
    <3> DEFINE r == RejectMessage(keys[p], msg)
               m == keys[p]
    <3>3. /\ r.our_ecdh = m.our_ecdh /\ r.their_ecdh = m.their_ecdh /\ r.i = m.i
          /\ r.root_key = m.root_key /\ r.ecdh_priv = m.ecdh_priv
      BY <2>1, <3>2, RejectMessageFields, Zenon
    <3> HIDE DEF r
    <3>4. FreshKeys(r, p)
      BY <2>1, <3>3, FreshFrame
    <3> QED
      BY <2>5, <3>4 DEF r
  <2>6. ASSUME NEW msg \in Deliverable(p), NEW S1 \in SUBSET ChainKey,
               NEW S2 \in SUBSET ChainKey,
               LET r == WithMacKeys(ReceiveRatchet(keys[p], msg), S1)
               IN keys'[p] = r \/ keys'[p] = WithMacKeys(SendData(r, p), S2)
        PROVE  FreshKeys(keys'[p], p)
    <3>1. msg \in net[p]
      BY DEF Deliverable
    <3>2. msg \in Header /\ msg.ecdh[1] = Other(p)
      BY <3>1, NetMessage DEF KeysFresh
    <3> DEFINE a == ReceiveRatchet(keys[p], msg)
               b == WithMacKeys(a, S1)
               c == SendData(b, p)
               d == WithMacKeys(c, S2)
    <3>3. a \in Manager /\ FreshKeys(a, p)
      BY <2>1, <3>2, ReceiveRatchetType, FreshReceive
    <3> HIDE DEF a
    <3>4. b \in Manager /\ FreshKeys(b, p)
      BY <3>3, WithMacKeysFields, FreshFrame
    <3> HIDE DEF b
    <3>5. c \in Manager /\ FreshKeys(c, p)
      BY <3>4, SendDataType, FreshSend
    <3> HIDE DEF c
    <3>6. FreshKeys(d, p)
      BY <3>5, WithMacKeysFields, FreshFrame
    <3> HIDE DEF d
    <3>7. keys'[p] = b \/ keys'[p] = d
      BY <2>6 DEF a, b, c, d
    <3> QED
      BY <3>4, <3>6, <3>7
  <2> QED
    BY <2>2, <2>3, <2>4, <2>5, <2>6 DEF Moves
<1>2. ASSUME NEW p \in Peer, NEW x \in net'[p] PROVE x.ecdh[1] = Other(p)
  <2>1. keys'[Other(p)].our_ecdh[1] = Other(p)
    BY <1>1, OtherPeer DEF FreshKeys
  <2>2. \A y \in net[p] : y.ecdh[1] = Other(p)
    BY DEF KeysFresh
  <2>3. \/ \E y \in net[p] : x.ecdh = y.ecdh
        \/ x.ecdh = keys'[Other(p)].our_ecdh
    BY NetMoves
  <2> QED
    BY <2>1, <2>2, <2>3
<1> QED
  BY <1>1, <1>2 DEF KeysFresh

\* The keys stay fresh in every run.
LEMMA KeysStayFresh == Spec => []KeysFresh
<1>1. Init => KeysFresh
  BY FreshInit DEF Init, KeysFresh
<1> QED
  BY <1>1, FreshStep, TypeCorrect, PTL DEF Spec

\* Erased private keys, for every network: a peer that still holds the private
\* half of its ECDH key has used it for the newest shared secret at most, so
\* rotate_keys leaves no way to compute an older one again.
THEOREM PrivateKeysAreErased == Spec => []PrivateKeysErased
<1>1. KeysFresh => PrivateKeysErased
  BY DEF KeysFresh, FreshKeys, PrivateKeysErased
<1> QED
  BY <1>1, KeysStayFresh, PTL

-----------------------------------------------------------------------------
(***************************************************************************)
(* The labels of skipped keys, in a network that delivers no message of an *)
(* older ratchet.                                                          *)
(***************************************************************************)

\* The inductive invariant, for the label that the current receiving chain is
\* filed under: the chain's position is the message id, a stored key's position
\* is its message id, and one label stands for one chain.
Labelled(m, label) ==
  /\ m.chain_r.n = m.k
  /\ \A s \in m.skipped_keys :
       /\ s.ecdh[1] = label[1] /\ s.ecdh[2] <= label[2]
       /\ s.key.n = s.k
       /\ s.ecdh = label => s.key.root = m.chain_r.root
  /\ \A s1, s2 \in m.skipped_keys :
       s1.ecdh = s2.ecdh => s1.key.root = s2.key.root

\* Both managers file their current chain under the other peer's current key.
KeysLabelled == \A p \in Peer : Labelled(keys[p], keys[p].their_ecdh)

\* The keys of a gap carry the label, their message ids and the chain's root.
LEMMA GapKeysFields ==
  ASSUME NEW m \in Manager, NEW until \in Nat, NEW label \in PubKey,
         NEW s \in GapKeys(m, until, label)
  PROVE  /\ s.ecdh = label /\ s.k \in m.k .. (until - 1)
         /\ s.key = ChainKeyAt(m, s.k)
         /\ s.key \in ChainKey
         /\ s.key.root = m.chain_r.root /\ s.key.n = m.chain_r.n + (s.k - m.k)
<1>1. PICK n \in m.k .. (until - 1) :
         s = [ecdh |-> label, k |-> n, key |-> ChainKeyAt(m, n)]
  BY DEF GapKeys
<1>2. m.k \in Nat /\ n \in Nat /\ m.k <= n
  BY DEF Manager
<1>3. /\ ChainKeyAt(m, n) \in ChainKey
      /\ ChainKeyAt(m, n).root = m.chain_r.root
      /\ ChainKeyAt(m, n).n = m.chain_r.n + (n - m.k)
  BY <1>2, ChainKeyAtType
<1> QED
  BY <1>1, <1>3

\* Storing a gap under the label keeps the labels apart.
LEMMA LabelledStore ==
  ASSUME NEW m \in Manager, NEW until \in Nat, NEW label \in PubKey,
         Labelled(m, label)
  PROVE  Labelled(StoreEncKeys(m, until, label), label)
<1> DEFINE r == StoreEncKeys(m, until, label)
           gap == GapKeys(m, until, label)
<1>1. CASE r = m
  BY <1>1
<1>2. CASE /\ m.k < until /\ r.skipped_keys = m.skipped_keys \cup gap
           /\ r.chain_r = ChainKeyAt(m, until) /\ r.k = until
  <2>1. m.k \in Nat /\ m.chain_r \in ChainKey /\ m.chain_r.n = m.k
    BY DEF Manager, Labelled
  <2>2. r.chain_r.root = m.chain_r.root /\ r.chain_r.n = r.k
    <3>1. /\ r.chain_r.root = m.chain_r.root
          /\ r.chain_r.n = m.chain_r.n + (until - m.k)
      BY <1>2, <2>1, ChainKeyAtType
    <3> QED
      BY <1>2, <2>1, <3>1
  <2>3. \A s \in gap : /\ s.ecdh = label /\ s.key.root = m.chain_r.root
                       /\ s.key.n = s.k
    <3> SUFFICES ASSUME NEW s \in gap
                 PROVE  s.ecdh = label /\ s.key.root = m.chain_r.root /\ s.key.n = s.k
      OBVIOUS
    <3>1. /\ s.ecdh = label /\ s.k \in m.k .. (until - 1)
          /\ s.key.root = m.chain_r.root /\ s.key.n = m.chain_r.n + (s.k - m.k)
      BY GapKeysFields
    <3> HIDE DEF gap
    <3> QED
      BY <2>1, <3>1
  <2>4. label[2] \in Nat
    BY DEF PubKey
  <2> HIDE DEF r, gap
  <2>5. Labelled(r, label)
    BY <1>2, <2>2, <2>3, <2>4 DEF Labelled
  <2> QED
    BY <2>5 DEF r
<1> QED
  BY <1>1, <1>2, StoreEncKeysFields

\* Only the receiving chain, its position and the store matter.
LEMMA LabelledFrame ==
  ASSUME NEW m, NEW r, NEW label, Labelled(m, label),
         r.k = m.k, r.chain_r = m.chain_r, r.skipped_keys = m.skipped_keys
  PROVE  Labelled(r, label)
  BY DEF Labelled

\* Receiving keeps the labels apart when the message's key is the current one or
\* a newer one: a new ratchet starts with a label above all labels in the store.
LEMMA LabelledReceive ==
  ASSUME NEW m \in Manager, NEW msg \in Header,
         Labelled(m, m.their_ecdh),
         msg.ecdh[1] = m.their_ecdh[1], m.their_ecdh[2] <= msg.ecdh[2]
  PROVE  Labelled(ReceiveRatchet(m, msg), msg.ecdh)
<1> DEFINE tmp == ReceivingRatchet(m, msg)
           gap == StoreEncKeys(tmp, msg.previous_chain_n, m.their_ecdh)
           rot == RotateKeysReceive(m, gap)
           d   == DeriveDhRatchetKeys(m, msg)
           c   == DeriveChainKeys(m, msg)
           r   == ReceiveRatchet(m, msg)
<1>1. /\ msg.ecdh \in PubKey /\ m.their_ecdh \in PubKey
      /\ msg.previous_chain_n \in Nat /\ msg.message_id \in Nat
  BY DEF Header, Manager
<1>2. tmp \in Manager /\ Labelled(tmp, m.their_ecdh)
  BY ReceivingRatchetType, ReceivingRatchetFields, LabelledFrame
<1>3. CASE SkippedFor(m, msg) # {}
  <2> DEFINE old == CHOOSE s \in SkippedFor(m, msg) : TRUE
  <2>1. old \in m.skipped_keys /\ old.ecdh = msg.ecdh
    BY <1>3 DEF SkippedFor
  <2>2. msg.ecdh = m.their_ecdh
    <3>1. old.ecdh[2] <= m.their_ecdh[2]
      BY <2>1 DEF Labelled
    <3> HIDE DEF old
    <3> QED
      BY <1>1, <2>1, <3>1 DEF PubKey
  <2>3. r.chain_r = m.chain_r /\ r.k = m.k /\ r.skipped_keys \subseteq m.skipped_keys
    BY <1>3, ReceiveRatchetChain
  <2> HIDE DEF r
  <2>4. Labelled(r, msg.ecdh)
    BY <2>2, <2>3 DEF Labelled
  <2> QED
    BY <2>4 DEF r
<1>4. CASE SkippedFor(m, msg) = {}
  <2>1. d \in Manager /\ Labelled(d, msg.ecdh)
    <3>1. CASE msg.ecdh # m.their_ecdh
      <4>1. IsNewRatchet(m, msg)
        BY <1>4, <3>1 DEF IsNewRatchet
      <4>2. gap \in Manager /\ Labelled(gap, m.their_ecdh)
        BY <1>1, <1>2, StoreEncKeysType, LabelledStore
      <4>3. d = rot
        BY <4>1, Zenon DEF DeriveDhRatchetKeys
      <4> HIDE DEF gap
      <4>4. /\ rot \in Manager /\ rot.k = 0 /\ rot.chain_r.n = 0
            /\ rot.skipped_keys = gap.skipped_keys
        <5> DEFINE root == EnterNewRatchet(m, gap.their_ecdh, gap.their_dh)
        <5>1. /\ rot.k = 0 /\ rot.chain_r = [root |-> root, n |-> 0]
              /\ rot.skipped_keys = gap.skipped_keys
          BY <4>2, RotateKeysReceiveFields, Zenon
        <5> HIDE DEF root
        <5>2. rot \in Manager
          BY <4>2, RotateKeysReceiveType
        <5> HIDE DEF rot
        <5> QED
          BY <5>1, <5>2
      <4>5. m.their_ecdh[2] < msg.ecdh[2]
        BY <1>1, <3>1 DEF PubKey
      <4>6. m.their_ecdh[2] \in Nat /\ msg.ecdh[2] \in Nat
            /\ \A s \in gap.skipped_keys : s.ecdh[2] \in Nat
        <5>1. gap.skipped_keys \in SUBSET SkippedKey
          BY <4>2 DEF Manager
        <5> QED
          BY <1>1, <5>1 DEF PubKey, SkippedKey
      <4> HIDE DEF rot
      <4>7. \A s \in gap.skipped_keys :
               /\ s.ecdh[1] = msg.ecdh[1] /\ s.ecdh[2] <= msg.ecdh[2]
               /\ s.ecdh # msg.ecdh /\ s.key.n = s.k
        BY <4>2, <4>5, <4>6 DEF Labelled
      <4>8. Labelled(rot, msg.ecdh)
        BY <4>2, <4>4, <4>7 DEF Labelled
      <4> QED
        BY <4>3, <4>4, <4>8
    <3>2. CASE msg.ecdh = m.their_ecdh
      <4>1. d = tmp
        BY <3>2, Zenon DEF DeriveDhRatchetKeys, IsNewRatchet
      <4> QED
        BY <1>2, <3>2, <4>1
    <3> QED
      BY <3>1, <3>2
  <2>2. c \in Manager /\ Labelled(c, msg.ecdh)
    <3>1. d.their_ecdh = msg.ecdh
      <4>1. c.their_ecdh = msg.ecdh
        BY DeriveChainKeysFields
      <4>2. d.their_ecdh \in PubKey
        BY <2>1 DEF Manager
      <4>3. SameRatchet(c, d)
        BY <1>1, <2>1, <4>2, StoreEncKeysFields DEF DeriveChainKeys
      <4> QED
        BY <4>1, <4>3 DEF SameRatchet
    <3>2. c = StoreEncKeys(d, msg.message_id, msg.ecdh)
      BY <3>1 DEF DeriveChainKeys
    <3> HIDE DEF d
    <3> QED
      BY <1>1, <2>1, <3>2, DeriveChainKeysType, LabelledStore
  <2>3. /\ r.chain_r = NextChainKey(c.chain_r) /\ r.k = c.k + 1
        /\ r.skipped_keys = c.skipped_keys
    BY <1>4, ReceiveRatchetChain
  <2> HIDE DEF c, r
  <2>4. c.chain_r \in ChainKey
    BY <2>2 DEF Manager
  <2>5. r.chain_r.root = c.chain_r.root /\ r.chain_r.n = c.chain_r.n + 1
    BY <2>3, <2>4, NextChainKeyType
  <2>6. Labelled(r, msg.ecdh)
    BY <2>2, <2>3, <2>5 DEF Labelled
  <2> QED
    BY <2>6 DEF r
<1> QED
  BY <1>3, <1>4

\* Every step keeps the labels of both peers.
LEMMA LabelledStep ==
  ASSUME "late" \notin Faults
  PROVE  TypeOK /\ KeysFresh /\ KeysLabelled /\ [Next]_vars => KeysLabelled'
<1> SUFFICES ASSUME TypeOK, KeysFresh, KeysLabelled, [Next]_vars, NEW p \in Peer
             PROVE  Labelled(keys'[p], keys'[p].their_ecdh)
  BY DEF KeysLabelled
<1>1. /\ keys[p] \in Manager /\ Labelled(keys[p], keys[p].their_ecdh)
      /\ keys[p].their_ecdh[1] = Other(p)
      /\ keys[p].their_ecdh \in PubKey
  BY DEF TypeOK, KeysLabelled, KeysFresh, FreshKeys, Manager
<1>2. Moves(p, keys'[p])
  BY PeerMoves
<1>3. ASSUME NEW m \in Manager, Labelled(m, m.their_ecdh)
      PROVE  Labelled(SendData(m, p), SendData(m, p).their_ecdh)
  <2> DEFINE d == SendData(m, p)
             r == SendKeys(m, p)
  <2>1. /\ r.k = m.k /\ r.chain_r = m.chain_r /\ r.skipped_keys = m.skipped_keys
        /\ r.their_ecdh = m.their_ecdh
    BY RotateKeysSendFields DEF SendKeys
  <2>2. /\ d.k = r.k /\ d.chain_r = r.chain_r /\ d.skipped_keys = r.skipped_keys
        /\ d.their_ecdh = r.their_ecdh
    BY SendDataFields
  <2> HIDE DEF r, d
  <2>3. Labelled(d, d.their_ecdh)
    BY <1>3, <2>1, <2>2, LabelledFrame
  <2> QED
    BY <2>3 DEF d
<1>4. CASE keys'[p] = keys[p]
  BY <1>1, <1>4
<1>5. CASE keys'[p] = SendData(keys[p], p)
  BY <1>1, <1>3, <1>5
<1>6. ASSUME NEW msg \in Deliverable(p)
      PROVE  /\ msg \in Header /\ msg.ecdh[1] = Other(p)
             /\ keys[p].their_ecdh[2] <= msg.ecdh[2]
  <2>1. msg \in net[p] /\ ~IsLate(p, msg)
    BY DEF Deliverable
  <2>2. msg \in Header /\ msg.ecdh[1] = Other(p)
    BY <2>1, NetMessage DEF KeysFresh
  <2> QED
    BY <1>1, <2>1, <2>2 DEF IsLate, Header, PubKey
<1>7. ASSUME NEW msg \in Deliverable(p), keys'[p] = RejectMessage(keys[p], msg)
      PROVE  Labelled(keys'[p], keys'[p].their_ecdh)
  <2> DEFINE r == RejectMessage(keys[p], msg)
  <2>1. /\ r.k = keys[p].k /\ r.chain_r = keys[p].chain_r
        /\ r.skipped_keys = keys[p].skipped_keys
        /\ r.their_ecdh = keys[p].their_ecdh
    BY <1>1, <1>6, RejectMessageFields
  <2> HIDE DEF r
  <2>2. Labelled(r, r.their_ecdh)
    BY <1>1, <2>1, LabelledFrame
  <2> QED
    BY <1>7, <2>2 DEF r
<1>8. ASSUME NEW msg \in Deliverable(p), NEW S1 \in SUBSET ChainKey,
             NEW S2 \in SUBSET ChainKey,
             LET r == WithMacKeys(ReceiveRatchet(keys[p], msg), S1)
             IN keys'[p] = r \/ keys'[p] = WithMacKeys(SendData(r, p), S2)
      PROVE  Labelled(keys'[p], keys'[p].their_ecdh)
  <2> DEFINE a == ReceiveRatchet(keys[p], msg)
             b == WithMacKeys(a, S1)
             c == SendData(b, p)
             d == WithMacKeys(c, S2)
  <2>1. a \in Manager /\ Labelled(a, a.their_ecdh)
    <3>1. msg \in Header /\ msg.ecdh[1] = keys[p].their_ecdh[1]
          /\ keys[p].their_ecdh[2] <= msg.ecdh[2]
      BY <1>1, <1>6
    <3>2. a \in Manager /\ a.their_ecdh = msg.ecdh
      BY <1>1, <3>1, ReceiveRatchetType, ReceiveRatchetFields
    <3>3. Labelled(a, msg.ecdh)
      BY <1>1, <3>1, LabelledReceive
    <3> QED
      BY <3>2, <3>3
  <2> HIDE DEF a
  <2>2. b \in Manager /\ Labelled(b, b.their_ecdh)
    BY <2>1, WithMacKeysFields, LabelledFrame
  <2> HIDE DEF b
  <2>3. c \in Manager /\ Labelled(c, c.their_ecdh)
    BY <1>3, <2>2, SendDataType
  <2> HIDE DEF c
  <2>4. Labelled(d, d.their_ecdh)
    BY <2>3, WithMacKeysFields, LabelledFrame
  <2> HIDE DEF d
  <2>5. keys'[p] = b \/ keys'[p] = d
    BY <1>8 DEF a, b, c, d
  <2> QED
    BY <2>2, <2>4, <2>5
<1> QED
  BY <1>2, <1>4, <1>5, <1>7, <1>8 DEF Moves

\* One stored key answers for one message, unless the network delivers messages
\* of older ratchets: such a message makes its own key the current one, and the
\* next gap would be filed under it.
THEOREM SkippedKeysAreUnambiguous ==
  ASSUME "late" \notin Faults
  PROVE  Spec => []SkippedKeysUnambiguous
<1>1. Init => KeysLabelled
  BY DEF Init, KeysLabelled, Labelled, RatchetingInit, EmptyChain
<1>2. Spec => []KeysLabelled
  BY <1>1, LabelledStep, TypeCorrect, KeysStayFresh, PTL DEF Spec
<1>3. TypeOK /\ KeysLabelled => SkippedKeysUnambiguous
  <2> SUFFICES ASSUME TypeOK, KeysLabelled, NEW p \in Peer,
                      NEW s1 \in keys[p].skipped_keys,
                      NEW s2 \in keys[p].skipped_keys,
                      s1.ecdh = s2.ecdh, s1.k = s2.k
               PROVE  s1 = s2
    BY DEF SkippedKeysUnambiguous
  <2>1. s1 \in SkippedKey /\ s2 \in SkippedKey
    BY DEF TypeOK, Manager
  <2>2. s1.key.root = s2.key.root /\ s1.key.n = s2.key.n
    BY DEF KeysLabelled, Labelled
  <2>3. s1.key \in ChainKey /\ s2.key \in ChainKey
    BY <2>1 DEF SkippedKey
  <2>4. s1.key = s2.key
    BY <2>2, <2>3 DEF ChainKey
  <2> QED
    BY <2>1, <2>4 DEF SkippedKey
<1> QED
  BY <1>2, <1>3, TypeCorrect, PTL
=============================================================================
