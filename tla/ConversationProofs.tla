--------------------------- MODULE ConversationProofs ---------------------------
(***************************************************************************)
(* Theorems about Conversation, with their proofs: the type invariant, the *)
(* agreement of the DAKEs, the freshness of the sessions, what the         *)
(* encrypted state means and how it is reached, for any number of DAKEs,   *)
(* key generations, messages in flight, losses, duplicates, reorderings    *)
(* and restarts.                                                           *)
(***************************************************************************)
EXTENDS Conversation, QueueProofs

\* The other peer.
LEMMA OtherPeer ==
  \A p \in Peer : /\ Other(p) \in Peer /\ Other(p) # p /\ Other(Other(p)) = p
                  /\ \A q \in Peer : q = p \/ q = Other(p)
  BY DEF Peer, Other

-----------------------------------------------------------------------------
(***************************************************************************)
(* What a step does to the queues.                                         *)
(***************************************************************************)

\* Nothing but the messages of out is new in a queue, and only in the other's.
Adds(p, out) ==
  \A q \in Peer : \A m \in Elems(net'[q]) :
    m \in Elems(net[q]) \/ (q = Other(p) /\ m \in Elems(out))

\* p sends out.
LEMMA PostAdds ==
  ASSUME NEW p \in Peer, NEW out \in Seq(Message), Post(p, out),
         net \in [Peer -> Seq(Message)]
  PROVE  net' \in [Peer -> Seq(Message)] /\ Adds(p, out)
<1> DEFINE s == net[Other(p)]
<1>1. s \in Seq(Message) /\ Other(p) \in Peer
  BY OtherPeer
<1>2. s \o out \in Seq(Message) /\ Elems(s \o out) \subseteq Elems(s) \cup Elems(out)
  BY <1>1, ConcatElems
<1>3. net' = [net EXCEPT ![Other(p)] = s \o out]
  BY DEF Post
<1>4. \A q \in Peer : net'[q] = IF q = Other(p) THEN s \o out ELSE net[q]
  BY <1>3
<1>5. net' \in [Peer -> Seq(Message)]
  BY <1>1, <1>2, <1>3
<1> QED
  BY <1>2, <1>4, <1>5 DEF Adds

\* p handles message n, which may come again, and answers with out.
LEMMA HandleAdds ==
  ASSUME NEW p \in Peer, NEW n \in DOMAIN net[p], NEW out \in Seq(Message),
         Handle(p, n, out), net \in [Peer -> Seq(Message)]
  PROVE  net' \in [Peer -> Seq(Message)] /\ Adds(p, out)
<1> DEFINE s == net[Other(p)]
<1>1. /\ s \in Seq(Message) /\ net[p] \in Seq(Message)
      /\ Other(p) \in Peer /\ Other(p) # p /\ n \in 1 .. Len(net[p])
  BY OtherPeer
<1>2. s \o out \in Seq(Message) /\ Elems(s \o out) \subseteq Elems(s) \cup Elems(out)
  BY <1>1, ConcatElems
<1>3. PICK t \in Leftovers(p, n) : net' = [net EXCEPT ![p] = t, ![Other(p)] = s \o out]
  BY <1>1 DEF Handle
<1>4. t \in Seq(Message) /\ Elems(t) \subseteq Elems(net[p])
  <2>1. CASE t = Without(net[p], n)
    BY <1>1, <2>1, WithoutElems DEF Without
  <2>2. CASE t = net[p]
    BY <1>1, <2>2
  <2> QED
    BY <1>3, <2>1, <2>2 DEF Leftovers
<1>5. \A q \in Peer : net'[q] = IF q = Other(p) THEN s \o out
                               ELSE IF q = p THEN t ELSE net[q]
  BY <1>1, <1>3
<1>6. net' \in [Peer -> Seq(Message)]
  BY <1>1, <1>2, <1>3, <1>4
<1> QED
  BY <1>1, <1>2, <1>4, <1>5, <1>6 DEF Adds

-----------------------------------------------------------------------------
(***************************************************************************)
(* Keys.  The numbers that were drawn so far name the keys in use.         *)
(***************************************************************************)

DrawnKeys == {NoKey} \cup 1 .. drawn \cup (MaxKeys + 1) .. (MaxKeys + drawn)

\* A new number was not drawn before.
LEMMA FreshKeys ==
  ASSUME drawn \in 0 .. MaxKeys, NEW v \in Fresh
  PROVE  /\ v \in Key /\ v # NoKey /\ v \notin DrawnKeys
         /\ drawn' = drawn + 1 =>
              /\ v \in DrawnKeys' /\ DrawnKeys \subseteq DrawnKeys'
              /\ drawn' \in 0 .. MaxKeys
<1>1. drawn < MaxKeys /\ MaxKeys \in Nat /\ drawn \in Nat
  BY BoundsAssumption DEF Fresh
<1>2. PICK d \in Draws : v = drawn + 1 + d * MaxKeys
  BY <1>1 DEF Fresh
<1>3. v = drawn + 1 \/ v = drawn + 1 + MaxKeys
  BY <1>1, <1>2, DrawsAssumption
<1> QED
  BY <1>1, <1>3 DEF DrawnKeys, Key, NoKey

\* What the steps that need keys only sometimes draw.
LEMMA FreshOrNot ==
  ASSUME NEW b \in BOOLEAN, NEW v \in FreshIf(b)
  PROVE  IF b THEN v \in Fresh ELSE v = NoKey
  BY DEF FreshIf

\* The keys that a message carries from one peer to the other.
MessageKeys(m) ==
  IF m.type \in {"identity", "auth_r", "non_int_auth"} THEN {m.ecdh} ELSE {}

\* The keys that p has generated, as far as a peer or the network has them.
Owned(p) ==
  {conn[p].ecdh, conn[Other(p)].their_ecdh} \cup prekeys[p] \cup published[p]
    \cup UNION {MessageKeys(m) : m \in Elems(net[Other(p)])}

LEMMA NoKeyIsKey == NoKey \in Key /\ NoSecret \in Secret
  BY BoundsAssumption DEF NoKey, Key, NoSecret, Secret

-----------------------------------------------------------------------------
(***************************************************************************)
(* What the operators on a conversation do to the fields that matter.      *)
(***************************************************************************)

LEMMA ConnFields ==
  ASSUME NEW c \in Conn
  PROVE  /\ c.state \in State /\ c.i \in Nat /\ c.j \in Nat /\ c.our_r \in Nat
         /\ c.their_r \in Nat /\ c.ecdh \in Key /\ c.dh \in Key
         /\ c.their_ecdh \in Key /\ c.their_dh \in Key
         /\ c.shared_secret \in Secret /\ c.session \in Secret
         /\ c.profile \in BOOLEAN /\ c.idle \in BOOLEAN
  BY DEF Conn

LEMMA NewConnType == NewConn \in Conn /\ NewConn.state = "START"
                     /\ NewConn.ecdh = NoKey /\ NewConn.their_ecdh = NoKey
  BY NoKeyIsKey DEF NewConn, Conn, State

\* A new state of the conversation.
LEMMA StateType ==
  ASSUME NEW c \in Conn, NEW st \in State
  PROVE  LET d == [c EXCEPT !.state = st]
         IN /\ d \in Conn /\ d.state = st /\ d.ecdh = c.ecdh
            /\ d.their_ecdh = c.their_ecdh /\ d.session = c.session
            /\ d.shared_secret = c.shared_secret
  BY Zenon DEF Conn

LEMMA GenerateType ==
  ASSUME NEW c \in Conn, NEW v \in Key
  PROVE  LET d == GenerateEphemeralKeys(c, v)
         IN /\ d \in Conn /\ d.state = c.state /\ d.ecdh = v
            /\ d.their_ecdh = c.their_ecdh /\ d.session = c.session
            /\ d.shared_secret = c.shared_secret
<1> DEFINE k == IF c.i % 3 = 0 THEN v ELSE c.dh
<1>1. k \in Key
  BY ConnFields
<1> HIDE DEF k
<1>2. GenerateEphemeralKeys(c, v) = [c EXCEPT !.ecdh = v, !.dh = k]
  BY DEF GenerateEphemeralKeys, k
<1> QED
  BY <1>1, <1>2, Zenon DEF Conn

LEMMA SharedSecretType ==
  ASSUME NEW c \in Conn
  PROVE  LET d == GenerateSharedSecret(c)
         IN /\ d \in Conn /\ d.state = c.state /\ d.ecdh = c.ecdh
            /\ d.their_ecdh = c.their_ecdh
            /\ d.shared_secret.ecdh = {c.ecdh, c.their_ecdh}
<1> DEFINE k == IF c.i % 3 = 0 THEN {c.dh, c.their_dh} ELSE {}
           x == [ecdh |-> {c.ecdh, c.their_ecdh}, dh |-> k]
<1>1. x \in Secret /\ x.ecdh = {c.ecdh, c.their_ecdh}
  BY ConnFields DEF Secret
<1>2. GenerateSharedSecret(c) = [c EXCEPT !.shared_secret = x]
  BY DEF GenerateSharedSecret
<1> HIDE DEF x
<1> QED
  BY <1>1, <1>2, Zenon DEF Conn

LEMMA OfflineSecretType ==
  ASSUME NEW c \in Conn
  PROVE  LET d == OfflineSecret(c)
         IN /\ d \in Conn /\ d.state = c.state /\ d.ecdh = c.ecdh
            /\ d.their_ecdh = c.their_ecdh
            /\ d.shared_secret.ecdh = {c.ecdh, c.their_ecdh}
<1> DEFINE x == [ecdh |-> {c.ecdh, c.their_ecdh}, dh |-> {c.dh, c.their_dh}]
<1>1. x \in Secret /\ x.ecdh = {c.ecdh, c.their_ecdh}
  BY ConnFields DEF Secret
<1>2. OfflineSecret(c) = [c EXCEPT !.shared_secret = x]
  BY DEF OfflineSecret
<1> HIDE DEF x
<1> QED
  BY <1>1, <1>2, Zenon DEF Conn

LEMMA RatchetingInitType ==
  ASSUME NEW c \in Conn, NEW role, NEW v \in Key
  PROVE  LET d == RatchetingInit(c, role, v)
         IN /\ d \in Conn /\ d.state = c.state /\ d.ecdh = c.ecdh
            /\ d.their_ecdh = c.their_ecdh /\ d.session = c.shared_secret
            /\ d.j = 0 /\ d.i = 0 /\ d.their_dh = c.their_dh
            /\ role # "u" => d.dh = c.dh
<1> DEFINE k == IF role = "u" THEN v ELSE c.dh
<1>1. k \in Key /\ c.shared_secret \in Secret /\ NoSecret \in Secret /\ 0 \in Nat
  BY ConnFields, NoKeyIsKey
<1>2. role # "u" => k = c.dh
  OBVIOUS
<1> HIDE DEF k
<1> DEFINE a == [c EXCEPT !.i = 0, !.j = 0, !.our_r = 0, !.their_r = 0]
           d == [a EXCEPT !.session = c.shared_secret, !.shared_secret = NoSecret,
                          !.dh = k]
<1>3. RatchetingInit(c, role, v) = d
  BY DEF RatchetingInit, k
<1>4. /\ a \in Conn /\ a.state = c.state /\ a.ecdh = c.ecdh
      /\ a.their_ecdh = c.their_ecdh /\ a.their_dh = c.their_dh /\ a.j = 0 /\ a.i = 0
  BY <1>1, Zenon DEF Conn
<1> HIDE DEF a
<1>5. /\ d \in Conn /\ d.state = a.state /\ d.ecdh = a.ecdh
      /\ d.their_ecdh = a.their_ecdh /\ d.their_dh = a.their_dh
      /\ d.j = a.j /\ d.i = a.i /\ d.session = c.shared_secret /\ d.dh = k
  BY <1>1, <1>4, Zenon DEF Conn
<1> HIDE DEF d
<1> QED
  BY <1>2, <1>3, <1>4, <1>5

\* The keys of the first message of a ratchet are new.
LEMMA SendKeysType ==
  ASSUME NEW c \in Conn, NEW v \in Key
  PROVE  LET d == SendKeys(c, v)
         IN /\ d \in Conn /\ d.state = c.state
            /\ d.ecdh = IF c.j = 0 THEN v ELSE c.ecdh
            /\ d.their_ecdh = c.their_ecdh /\ d.session = c.session
            /\ d.shared_secret = c.shared_secret
<1> DEFINE g == GenerateEphemeralKeys(c, v)
           h == [g EXCEPT !.i = c.i + 1, !.our_r = c.i + 1]
           r == IF c.j = 0 THEN h ELSE c
<1>1. /\ g \in Conn /\ g.state = c.state /\ g.ecdh = v
      /\ g.their_ecdh = c.their_ecdh /\ g.session = c.session
      /\ g.shared_secret = c.shared_secret
  BY GenerateType
<1>2. c.i + 1 \in Nat
  BY ConnFields
<1> HIDE DEF g
<1>3. /\ h \in Conn /\ h.state = c.state /\ h.ecdh = v
      /\ h.their_ecdh = c.their_ecdh /\ h.session = c.session
      /\ h.shared_secret = c.shared_secret
  BY <1>1, <1>2, Zenon DEF Conn
<1> HIDE DEF h
<1>4. /\ r \in Conn /\ r.state = c.state /\ r.ecdh = IF c.j = 0 THEN v ELSE c.ecdh
      /\ r.their_ecdh = c.their_ecdh /\ r.session = c.session
      /\ r.shared_secret = c.shared_secret
  BY <1>3
<1> HIDE DEF r
<1>5. r.j + 1 \in Nat
  BY <1>4, ConnFields
<1>6. SendKeys(c, v) = [r EXCEPT !.j = r.j + 1, !.idle = FALSE]
  BY DEF SendKeys, r, h, g
<1> DEFINE e == IF c.j = 0 THEN v ELSE c.ecdh
<1> HIDE DEF e
<1>7. r.ecdh = e
  BY <1>4 DEF e
<1> QED
  BY <1>4, <1>5, <1>6, <1>7, Zenon DEF Conn, e

LEMMA ForgetType ==
  ASSUME NEW c \in Conn, NEW st \in State
  PROVE  LET d == [ForgetOurKeys(c) EXCEPT !.state = st]
         IN d \in Conn /\ d.state = st /\ d.ecdh = NoKey /\ d.their_ecdh = NoKey
<1>1. /\ c.state \in State /\ c.profile \in BOOLEAN /\ c.idle \in BOOLEAN
      /\ NewConn \in Conn /\ NewConn.ecdh = NoKey /\ NewConn.their_ecdh = NoKey
  BY ConnFields, NewConnType
<1> QED
  BY <1>1, Zenon DEF Conn, ForgetOurKeys

LEMMA ReceiveKeysType ==
  ASSUME NEW c \in Conn, NEW m, m.r \in Nat
  PROVE  LET d == ReceiveKeys(c, m)
         IN /\ d \in Conn /\ d.state = c.state /\ d.ecdh = c.ecdh
            /\ d.their_ecdh = c.their_ecdh /\ d.session = c.session
            /\ d.shared_secret = c.shared_secret
<1>1. CASE m.r = c.their_r
  BY <1>1 DEF ReceiveKeys
<1>2. CASE m.r # c.their_r
  <2>1. ReceiveKeys(c, m) = [c EXCEPT !.i = m.r, !.their_r = m.r, !.j = 0]
    BY <1>2 DEF ReceiveKeys
  <2>2. 0 \in Nat
    OBVIOUS
  <2> QED
    BY <2>1, <2>2, Zenon DEF Conn
<1> QED
  BY <1>1, <1>2

\* Their keys, from a message or a prekey.
LEMMA TheirKeysType ==
  ASSUME NEW c \in Conn, NEW e \in Key, NEW d \in Key
  PROVE  LET t == [c EXCEPT !.their_ecdh = e, !.their_dh = d, !.profile = TRUE]
         IN /\ t \in Conn /\ t.state = c.state /\ t.ecdh = c.ecdh /\ t.dh = c.dh
            /\ t.their_ecdh = e /\ t.their_dh = d
            /\ t.session = c.session /\ t.shared_secret = c.shared_secret
  BY Zenon DEF Conn

LEMMA StartDakeType ==
  ASSUME NEW c \in Conn, NEW v \in Key
  PROVE  LET d == StartDake(c, v)
         IN /\ d \in Conn /\ d.state = "WAITING_AUTH_R" /\ d.ecdh = v
            /\ d.their_ecdh = c.their_ecdh
<1> DEFINE g == GenerateEphemeralKeys(c, v)
<1>1. g \in Conn /\ g.ecdh = v /\ g.their_ecdh = c.their_ecdh
  BY GenerateType
<1>2. "WAITING_AUTH_R" \in State
  BY DEF State
<1> HIDE DEF g
<1> QED
  BY <1>1, <1>2, StateType DEF StartDake, g

LEMMA AcceptIdentityType ==
  ASSUME NEW c \in Conn, NEW v \in Key, NEW m, m.ecdh \in Key, m.dh \in Key
  PROVE  LET d == AcceptIdentity(c, m, v)
         IN /\ d \in Conn /\ d.state = "WAITING_AUTH_I" /\ d.ecdh = v
            /\ d.their_ecdh = m.ecdh /\ d.shared_secret.ecdh = {v, m.ecdh}
<1> DEFINE t == [c EXCEPT !.their_ecdh = m.ecdh, !.their_dh = m.dh, !.profile = TRUE]
           g == GenerateEphemeralKeys(t, v)
           h == GenerateSharedSecret(g)
<1>1. t \in Conn /\ t.their_ecdh = m.ecdh
  BY TheirKeysType, ZenonT(40)
<1> HIDE DEF t
<1>2. g \in Conn /\ g.ecdh = v /\ g.their_ecdh = m.ecdh
  BY <1>1, GenerateType
<1> HIDE DEF g
<1>3. /\ h \in Conn /\ h.ecdh = v /\ h.their_ecdh = m.ecdh
      /\ h.shared_secret.ecdh = {v, m.ecdh}
  BY <1>2, SharedSecretType
<1> HIDE DEF h
<1>4. AcceptIdentity(c, m, v) = [h EXCEPT !.state = "WAITING_AUTH_I"]
  BY DEF AcceptIdentity, h, g, t
<1>5. "WAITING_AUTH_I" \in State
  BY DEF State
<1> QED
  BY <1>3, <1>4, <1>5, StateType

LEMMA AcceptAuthRType ==
  ASSUME NEW c \in Conn, NEW v \in Key, NEW m, m.ecdh \in Key, m.dh \in Key
  PROVE  LET d == AcceptAuthR(c, m, v)
         IN /\ d \in Conn /\ d.state = "WAITING_DAKE_DATA_MESSAGE"
            /\ d.ecdh = c.ecdh /\ d.their_ecdh = m.ecdh
            /\ d.session.ecdh = {c.ecdh, m.ecdh}
<1> DEFINE t == [c EXCEPT !.their_ecdh = m.ecdh, !.their_dh = m.dh, !.profile = TRUE]
           h == GenerateSharedSecret(t)
           r == RatchetingInit(h, "u", v)
<1>1. t \in Conn /\ t.their_ecdh = m.ecdh /\ t.ecdh = c.ecdh
  BY Zenon DEF Conn
<1> HIDE DEF t
<1>2. /\ h \in Conn /\ h.ecdh = c.ecdh /\ h.their_ecdh = m.ecdh
      /\ h.shared_secret.ecdh = {c.ecdh, m.ecdh}
  BY <1>1, SharedSecretType
<1> HIDE DEF h
<1>3. /\ r \in Conn /\ r.ecdh = c.ecdh /\ r.their_ecdh = m.ecdh
      /\ r.session = h.shared_secret
  BY <1>2, RatchetingInitType
<1> HIDE DEF r
<1>4. AcceptAuthR(c, m, v) = [r EXCEPT !.state = "WAITING_DAKE_DATA_MESSAGE"]
  BY DEF AcceptAuthR, r, h, t
<1>5. "WAITING_DAKE_DATA_MESSAGE" \in State
  BY DEF State
<1> QED
  BY <1>2, <1>3, <1>4, <1>5, StateType

\* The offline DAKE: x is the own key and e the other peer's.
LEMMA OfflineType ==
  ASSUME NEW k \in Conn, NEW role, NEW v \in Key, NEW st \in State
  PROVE  LET d == [RatchetingInit(OfflineSecret(k), role, v) EXCEPT !.state = st]
         IN /\ d \in Conn /\ d.state = st /\ d.ecdh = k.ecdh
            /\ d.their_ecdh = k.their_ecdh
            /\ d.session.ecdh = {k.ecdh, k.their_ecdh}
<1> DEFINE h == OfflineSecret(k)
           r == RatchetingInit(h, role, v)
<1>1. /\ h \in Conn /\ h.ecdh = k.ecdh /\ h.their_ecdh = k.their_ecdh
      /\ h.shared_secret.ecdh = {k.ecdh, k.their_ecdh}
  BY OfflineSecretType
<1> HIDE DEF h
<1>2. /\ r \in Conn /\ r.ecdh = k.ecdh /\ r.their_ecdh = k.their_ecdh
      /\ r.session = h.shared_secret
  BY <1>1, RatchetingInitType
<1> HIDE DEF r
<1> QED
  BY <1>1, <1>2, StateType DEF r, h

LEMMA AcceptAuthIType ==
  ASSUME NEW c \in Conn
  PROVE  LET d == AcceptAuthI(c)
         IN /\ d \in Conn /\ d.state = "ENCRYPTED_MESSAGES"
            /\ d.ecdh = c.ecdh /\ d.their_ecdh = c.their_ecdh
            /\ d.dh = c.dh /\ d.their_dh = c.their_dh
            /\ d.session = c.shared_secret /\ d.j = 0
<1> DEFINE r == RatchetingInit(c, "t", NoKey)
<1>1. /\ r \in Conn /\ r.ecdh = c.ecdh /\ r.their_ecdh = c.their_ecdh
      /\ r.session = c.shared_secret /\ r.j = 0 /\ r.their_dh = c.their_dh
      /\ r.dh = c.dh
  BY RatchetingInitType, NoKeyIsKey
<1>2. "ENCRYPTED_MESSAGES" \in State
  BY DEF State
<1> HIDE DEF r
<1>3. AcceptAuthI(c) = [r EXCEPT !.state = "ENCRYPTED_MESSAGES"]
  BY DEF AcceptAuthI, r
<1> QED
  BY <1>1, <1>2, <1>3, Zenon DEF Conn

-----------------------------------------------------------------------------
(***************************************************************************)
(* Messages.                                                               *)
(***************************************************************************)

LEMMA MessageFields ==
  ASSUME NEW m \in Message
  PROVE  /\ m.type \in {"query", "error", "identity", "auth_r", "auth_i",
                        "non_int_auth", "data"}
         /\ m.type \in {"identity", "auth_r", "non_int_auth"} =>
              m.ecdh \in Key /\ m.dh \in Key
         /\ m.type \in {"auth_r", "auth_i"} => m.of \in Transcript
         /\ m.type = "non_int_auth" => m.prekey \in Key
         /\ m.type = "data" => m.session \in Secret /\ m.r \in Nat /\ m.id \in Nat
  BY DEF Message

LEMMA MessageTypes ==
  /\ [type |-> "query"] \in Message
  /\ [type |-> "error"] \in Message
  /\ \A c \in Conn : IdentityMessage(c) \in Message /\ AuthRMessage(c) \in Message
  /\ \A of \in Transcript : AuthIMessage(of) \in Message
  /\ \A c \in Conn, k \in Key : NonInteractiveAuthMessage(c, k) \in Message
<1>1. [type |-> "query"] \in Message /\ [type |-> "error"] \in Message
  BY DEF Message
<1>2. \A of \in Transcript : AuthIMessage(of) \in Message
  BY DEF Message, AuthIMessage
<1>3. ASSUME NEW c \in Conn
      PROVE  IdentityMessage(c) \in Message /\ AuthRMessage(c) \in Message
             /\ \A k \in Key : NonInteractiveAuthMessage(c, k) \in Message
  <2>1. /\ c.ecdh \in Key /\ c.dh \in Key /\ c.their_ecdh \in Key /\ c.their_dh \in Key
        /\ <<c.their_ecdh, c.their_dh, c.ecdh, c.dh>> \in Transcript
    BY ConnFields DEF Transcript
  <2>2. IdentityMessage(c) \in Message
    BY <2>1 DEF Message, IdentityMessage
  <2>3. AuthRMessage(c) \in Message
    BY <2>1 DEF Message, AuthRMessage, InteractiveTag
  <2>4. \A k \in Key : NonInteractiveAuthMessage(c, k) \in Message
    BY <2>1 DEF Message, NonInteractiveAuthMessage
  <2> QED
    BY <2>2, <2>3, <2>4
<1> QED
  BY <1>1, <1>2, <1>3

LEMMA DataMessageType ==
  ASSUME NEW c \in Conn, NEW v \in Key, NEW kind \in {"empty", "text", "smp", "disconnected"}
  PROVE  LET m == DataMessage(c, v, kind)
         IN m \in Message /\ m.type = "data" /\ m.kind = kind /\ m.ours = TRUE
<1> DEFINE r == SendKeys(c, v).our_r
<1>1. r \in Nat /\ c.session \in Secret /\ c.j \in Nat
  BY SendKeysType, ConnFields
<1> HIDE DEF r
<1>2. DataMessage(c, v, kind) =
        [type |-> "data", session |-> c.session, r |-> r, id |-> c.j, kind |-> kind,
         ours |-> TRUE]
  BY DEF DataMessage, r
<1> DEFINE m == [type |-> "data", session |-> c.session, r |-> r, id |-> c.j,
                 kind |-> kind, ours |-> TRUE]
<1>3. m.type = "data" /\ m.kind = kind /\ m.ours = TRUE
  BY Zenon
<1>4. m \in [type : {"data"}, session : Secret, r : Nat, id : Nat,
             kind : {"empty", "text", "smp", "disconnected"}, ours : BOOLEAN]
  BY <1>1, Zenon
<1> HIDE DEF m
<1>5. m \in Message
  BY <1>4, Zenon DEF Message
<1> QED
  BY <1>2, <1>3, <1>5, Zenon DEF m

\* One message is a queue.
LEMMA OneMessage ==
  /\ <<>> \in Seq(Message)
  /\ \A m \in Message : <<m>> \in Seq(Message)
  OBVIOUS

-----------------------------------------------------------------------------
(***************************************************************************)
(* The steps.  Many actions change the same few things; the proofs need to *)
(* know which of a few kinds a step is of.                                 *)
(***************************************************************************)

CountType ==
  [starts : 0 .. MaxStarts, texts : 0 .. MaxTexts, faults : 0 .. MaxFaults]

Decryption == Secret \X Nat \X Nat

\* The type invariant, with the types of net, got and established as functions.
TypeInv ==
  /\ conn \in [Peer -> Conn]
  /\ net \in [Peer -> Seq(Message)]
  /\ secure \in [Peer -> BOOLEAN]
  /\ prekeys \in [Peer -> SUBSET Key]
  /\ published \in [Peer -> SUBSET Key]
  /\ drawn \in 0 .. MaxKeys
  /\ count \in CountType
  /\ got \in [Peer -> SUBSET Decryption]
  /\ established \in [Peer -> Seq(Session)]

\* Data messages for another instance, and those that end a conversation.
Expected(m) ==
  m.type = "data" => /\ m.ours \/ "other_instance" \in Faults
                     /\ m.kind # "disconnected" \/ "close" \in Uses

\* p draws v, or nothing, and sends out; the other peer keeps its state.
Local(p, v, out) ==
  /\ TypeInv'
  /\ Adds(p, out)
  /\ \A m \in Elems(out) : Expected(m)
  /\ \/ v = NoKey /\ drawn' = drawn
     \/ v \in Fresh /\ drawn' = drawn + 1
  /\ LET q == Other(p)
     IN /\ conn'[q] = conn[q] /\ secure'[q] = secure[q]
        /\ prekeys'[q] = prekeys[q] /\ published'[q] = published[q]
        /\ got'[q] = got[q] /\ established'[q] = established[q]

LEMMA CountsType ==
  ASSUME TypeInv,
         \/ count' = count
         \/ Counts("starts", MaxStarts)
         \/ Counts("texts", MaxTexts)
         \/ Counts("faults", MaxFaults)
  PROVE  count' \in CountType
<1>1. /\ count \in CountType /\ MaxStarts \in Nat /\ MaxTexts \in Nat
      /\ MaxFaults \in Nat
  BY BoundsAssumption DEF TypeInv
<1>2. CASE count' = count
  BY <1>1, <1>2
<1>3. CASE Counts("starts", MaxStarts)
  BY <1>1, <1>3 DEF CountType, Counts
<1>4. CASE Counts("texts", MaxTexts)
  BY <1>1, <1>4 DEF CountType, Counts
<1>5. CASE Counts("faults", MaxFaults)
  BY <1>1, <1>5 DEF CountType, Counts
<1> QED
  BY <1>2, <1>3, <1>4, <1>5

\* p takes the state d, draws v and sends out, and changes nothing of the other.
Shape(p, d, v, out) ==
  /\ Become(p, d, v)
  /\ \/ Post(p, out)
     \/ \E n \in DOMAIN net[p] : Handle(p, n, out)
     \/ net' \in [Peer -> Seq(Message)] /\ Adds(p, out)
  /\ \/ count' = count
     \/ Counts("starts", MaxStarts)
     \/ Counts("texts", MaxTexts)
     \/ Counts("faults", MaxFaults)
  /\ \/ secure' = secure
     \/ \E b \in BOOLEAN : secure' = [secure EXCEPT ![p] = b]
  /\ \/ prekeys' = prekeys
     \/ \E s \in SUBSET Key : prekeys' = [prekeys EXCEPT ![p] = s]
  /\ \/ published' = published
     \/ \E s \in SUBSET Key : published' = [published EXCEPT ![p] = s]
  /\ \/ got' = got
     \/ \E s \in SUBSET Decryption : got' = [got EXCEPT ![p] = s]
  /\ \/ established' = established
     \/ \E s \in Session :
          established' = [established EXCEPT ![p] = Append(established[p], s)]

\* What follows from the shape of a step.
LEMMA LocalStep ==
  ASSUME TypeInv, NEW p \in Peer, NEW d \in Conn, NEW v \in Fresh \cup {NoKey},
         NEW out \in Seq(Message), \A m \in Elems(out) : Expected(m),
         Shape(p, d, v, out)
  PROVE  Local(p, v, out) /\ conn'[p] = d
<1>0. Other(p) \in Peer /\ Other(p) # p
  BY OtherPeer
<1>1. net' \in [Peer -> Seq(Message)] /\ Adds(p, out)
  BY PostAdds, HandleAdds DEF TypeInv, Shape
<1>2. conn' \in [Peer -> Conn] /\ conn'[p] = d /\ conn'[Other(p)] = conn[Other(p)]
  BY <1>0 DEF TypeInv, Become, Shape
<1>3. /\ drawn' \in 0 .. MaxKeys
      /\ \/ v = NoKey /\ drawn' = drawn
         \/ v \in Fresh /\ drawn' = drawn + 1
  <2>1. CASE v = NoKey
    BY <2>1 DEF TypeInv, Become, Shape
  <2>2. CASE v # NoKey
    <3>1. v \in Fresh /\ drawn' = drawn + 1
      BY <2>2 DEF Become, Shape
    <3> QED
      BY <3>1, FreshKeys DEF TypeInv
  <2> QED
    BY <2>1, <2>2 DEF Shape
<1>4. secure' \in [Peer -> BOOLEAN] /\ secure'[Other(p)] = secure[Other(p)]
  BY <1>0, Zenon DEF TypeInv, Shape
<1>5. prekeys' \in [Peer -> SUBSET Key] /\ prekeys'[Other(p)] = prekeys[Other(p)]
  BY <1>0, ZenonT(40) DEF TypeInv, Shape
<1>6. published' \in [Peer -> SUBSET Key] /\ published'[Other(p)] = published[Other(p)]
  BY <1>0, ZenonT(40) DEF TypeInv, Shape
<1>7. got' \in [Peer -> SUBSET Decryption] /\ got'[Other(p)] = got[Other(p)]
  BY <1>0, ZenonT(40) DEF TypeInv, Shape
<1>8. /\ established' \in [Peer -> Seq(Session)]
      /\ established'[Other(p)] = established[Other(p)]
  <2>1. CASE established' = established
    BY <2>1 DEF TypeInv
  <2>2. ASSUME NEW s \in Session,
               established' = [established EXCEPT ![p] = Append(established[p], s)]
        PROVE  /\ established' \in [Peer -> Seq(Session)]
               /\ established'[Other(p)] = established[Other(p)]
    <3>1. Append(established[p], s) \in Seq(Session)
      BY DEF TypeInv
    <3> QED
      BY <1>0, <2>2, <3>1, Zenon DEF TypeInv
  <2> QED
    BY <2>1, <2>2 DEF Shape
<1>9. count' \in CountType
  BY CountsType DEF Shape
<1>10. TypeInv'
  BY <1>1, <1>2, <1>3, <1>4, <1>5, <1>6, <1>7, <1>8, <1>9, Zenon DEF TypeInv
<1> QED
  BY <1>1, <1>2, <1>3, <1>4, <1>5, <1>6, <1>7, <1>8, <1>10, Zenon DEF Local

\* A step that leaves the conversation as it is.
LEMMA StayingBecomes ==
  ASSUME TypeInv, NEW p \in Peer, conn' = conn, drawn' = drawn
  PROVE  Become(p, conn[p], NoKey) /\ conn[p] \in Conn
  BY DEF TypeInv, Become

\* Sessions and prekey messages are as they were.
KeepsSessions(p) ==
  /\ established'[p] = established[p]
  /\ prekeys'[p] = prekeys[p] /\ published'[p] = published[p]

\* The messages that carry no keys and prove nothing.
Plain(out) == \A m \in Elems(out) : m.type \in {"query", "error", "data"}

\* p starts an interactive DAKE.
StartsDake(p, v, out) ==
  /\ KeepsSessions(p) /\ v \in Fresh
  /\ conn'[p].state = "WAITING_AUTH_R" /\ conn'[p].ecdh = v
  /\ conn'[p].their_ecdh = conn[p].their_ecdh
  /\ \A m \in Elems(out) : m.type = "identity" /\ m.ecdh = v

\* p answers the other peer's.
AnswersIdentity(p, v, out) ==
  /\ KeepsSessions(p) /\ v \in Fresh
  /\ conn'[p].state = "WAITING_AUTH_I" /\ conn'[p].ecdh = v
  /\ \E m \in Elems(net[p]) : m.type = "identity" /\ conn'[p].their_ecdh = m.ecdh
  /\ conn'[p].shared_secret.ecdh = {v, conn'[p].their_ecdh}
  /\ \A m \in Elems(out) : /\ m.type = "auth_r" /\ m.ecdh = v
                           /\ m.of[1] = conn'[p].their_ecdh

\* p publishes a prekey message.
Publishes(p, v, out) ==
  /\ established'[p] = established[p] /\ v \in Fresh
  /\ prekeys'[p] = prekeys[p] \cup {v} /\ published'[p] = published[p] \cup {v}
  /\ conn'[p] = conn[p] /\ secure'[p] = secure[p] /\ got'[p] = got[p]
  /\ Elems(out) = {}

\* p stays in its session, if it is in one.  The wait for a first data message
\* ends with a decrypted one, or with one for another instance.
GoesOn(p, v, out) ==
  LET c == conn[p]
      d == conn'[p]
  IN /\ KeepsSessions(p) /\ Plain(out)
     /\ d.session = c.session /\ d.their_ecdh = c.their_ecdh
     /\ d.shared_secret = c.shared_secret
     /\ d.ecdh = c.ecdh \/ (v \in Fresh /\ d.ecdh = v /\ c.state = "ENCRYPTED_MESSAGES")
     /\ secure'[p] = secure[p] /\ got[p] \subseteq got'[p]
     /\ \/ d.state = c.state
        \/ c.state = "ENCRYPTED_MESSAGES" /\ d.state = "CRASHED"
        \/ /\ c.state = "WAITING_DAKE_DATA_MESSAGE" /\ d.state = "ENCRYPTED_MESSAGES"
           /\ \/ \E m \in Elems(net[p]) : m.type = "data" /\ ~m.ours
              \/ \E x \in got'[p] : x[1] = c.session

\* p forgets its keys.
Resets(p, out) ==
  LET d == conn'[p]
  IN /\ KeepsSessions(p) /\ Plain(out)
     /\ d.ecdh = NoKey /\ d.their_ecdh = NoKey
     /\ \/ d.state \in {"START", "FINISHED"}
        \/ \E m \in Elems(net[p]) : m.type = "data" /\ m.kind = "disconnected"
     /\ d.state \in {"START", "FINISHED", "ENCRYPTED_MESSAGES"}

\* p initialises session s with the other peer's key.
Establishes(p, s) ==
  LET d == conn'[p]
  IN /\ established'[p] = Append(established[p], s)
     /\ d.session = s.secret /\ published'[p] = published[p]
     /\ secure'[p] = TRUE /\ got'[p] = got[p]
     /\ d.state = IF s.role = "t" THEN "ENCRYPTED_MESSAGES"
                                  ELSE "WAITING_DAKE_DATA_MESSAGE"

FinishesAsU(p, s, out) ==
  /\ Establishes(p, s) /\ prekeys'[p] = prekeys[p]
  /\ s.role = "u" /\ ~s.offline /\ conn[p].state = "WAITING_AUTH_R"
  /\ conn'[p].ecdh = conn[p].ecdh
  /\ \E m \in Elems(net[p]) : /\ m.type = "auth_r" /\ conn'[p].their_ecdh = m.ecdh
                              /\ m.of[1] = conn[p].ecdh
  /\ s.secret.ecdh = {conn[p].ecdh, conn'[p].their_ecdh}
  /\ \A m \in Elems(out) : m.type = "auth_i" /\ m.of = s.of

FinishesAsT(p, s, v, out) ==
  /\ Establishes(p, s) /\ prekeys'[p] = prekeys[p]
  /\ s.role = "t" /\ ~s.offline /\ conn[p].state = "WAITING_AUTH_I"
  /\ v \in Fresh /\ conn'[p].ecdh = v /\ conn'[p].their_ecdh = conn[p].their_ecdh
  /\ s.secret = conn[p].shared_secret
  /\ \E m \in Elems(net[p]) : m.type = "auth_i" /\ m.of = s.of
  /\ Plain(out)

FinishesOfflineT(p, s, v, out) ==
  /\ Establishes(p, s) /\ prekeys'[p] = prekeys[p]
  /\ s.role = "t" /\ s.offline /\ v \in Fresh /\ conn'[p].ecdh = v
  /\ conn'[p].their_ecdh \in published[Other(p)]
  /\ s.secret.ecdh = {v, conn'[p].their_ecdh}
  /\ \A m \in Elems(out) : /\ m.type = "non_int_auth" /\ m.ecdh = v
                           /\ s.of = <<m.prekey, m.prekey, m.ecdh, m.dh>>

FinishesOfflineU(p, s, out) ==
  /\ Establishes(p, s) /\ s.role = "u" /\ s.offline /\ Elems(out) = {}
  /\ \E m \in Elems(net[p]) :
       /\ m.type = "non_int_auth" /\ m.prekey \in prekeys[p]
       /\ prekeys'[p] = prekeys[p] \ {m.prekey}
       /\ conn'[p].ecdh = m.prekey /\ conn'[p].their_ecdh = m.ecdh
       /\ s.secret.ecdh = {m.prekey, m.ecdh}
       /\ s.of = <<m.prekey, m.prekey, m.ecdh, m.dh>>

Does(p) ==
  \E v \in Fresh \cup {NoKey}, out \in Seq(Message) :
    /\ Local(p, v, out)
    /\ \/ StartsDake(p, v, out) \/ AnswersIdentity(p, v, out)
       \/ Publishes(p, v, out) \/ GoesOn(p, v, out) \/ Resets(p, out)
       \/ \E s \in Session :
            \/ FinishesAsU(p, s, out) \/ FinishesAsT(p, s, v, out)
            \/ FinishesOfflineT(p, s, v, out) \/ FinishesOfflineU(p, s, out)

-----------------------------------------------------------------------------
(***************************************************************************)
(* Which kind each action is of.                                           *)
(***************************************************************************)

\* The message that is handled.
LEMMA InQueue ==
  ASSUME TypeInv, NEW p \in Peer, NEW n \in DOMAIN net[p]
  PROVE  net[p][n] \in Message /\ net[p][n] \in Elems(net[p])
<1>1. net[p] \in Seq(Message)
  BY DEF TypeInv
<1>2. n \in 1 .. Len(net[p]) /\ net[p][n] \in Message
  BY <1>1
<1> QED
  BY <1>2 DEF Elems

\* start_dake, by the user or for a query.
LEMMA StartDakeDoes ==
  ASSUME TypeInv, NEW p \in Peer,
         SendIdentity(p) \/ \E n \in DOMAIN net[p] : ReceiveQuery(p, n)
  PROVE  Does(p)
<1> DEFINE d(v) == StartDake(conn[p], v)
           out(v) == <<IdentityMessage(d(v))>>
<1>1. PICK v \in Fresh :
        /\ Become(p, d(v), v)
        /\ Post(p, out(v)) \/ \E n \in DOMAIN net[p] : Handle(p, n, out(v))
        /\ Counts("starts", MaxStarts) \/ count' = count
        /\ UNCHANGED <<secure, prekeys, published, got, established>>
  BY DEF SendIdentity, ReceiveQuery
<1>2. conn[p] \in Conn /\ v \in Key
  BY FreshKeys DEF TypeInv
<1>3. /\ d(v) \in Conn /\ d(v).state = "WAITING_AUTH_R" /\ d(v).ecdh = v
      /\ d(v).their_ecdh = conn[p].their_ecdh
  BY <1>2, StartDakeType
<1>4. /\ out(v) \in Seq(Message)
      /\ \A m \in Elems(out(v)) : m.type = "identity" /\ m.ecdh = v
  BY <1>3, MessageTypes, OneMessage, FewElems DEF IdentityMessage
<1> HIDE DEF out, d
<1>5. Shape(p, d(v), v, out(v))
  BY <1>1, Zenon DEF Shape
<1>6. \A m \in Elems(out(v)) : Expected(m)
  BY <1>4 DEF Expected
<1>7. Local(p, v, out(v)) /\ conn'[p] = d(v)
  BY <1>3, <1>4, <1>5, <1>6, LocalStep
<1>8. StartsDake(p, v, out(v))
  BY <1>1, <1>3, <1>4, <1>7 DEF StartsDake, KeepsSessions
<1> QED
  BY <1>4, <1>7, <1>8 DEF Does

LEMMA IdentityDoes ==
  ASSUME TypeInv, NEW p \in Peer, NEW n \in DOMAIN net[p], ReceiveIdentity(p, n)
  PROVE  Does(p)
<1> DEFINE m0 == net[p][n]
           d(v) == AcceptIdentity(conn[p], m0, v)
           out(v) == <<AuthRMessage(d(v))>>
<1>1. PICK v \in Fresh :
        /\ m0.type = "identity"
        /\ Become(p, d(v), v) /\ Handle(p, n, out(v))
        /\ UNCHANGED <<secure, prekeys, published, count, got, established>>
  BY DEF ReceiveIdentity
<1>2. /\ conn[p] \in Conn /\ v \in Key /\ m0 \in Message /\ m0 \in Elems(net[p])
      /\ m0.ecdh \in Key /\ m0.dh \in Key
  <2>1. m0 \in Message /\ m0 \in Elems(net[p])
    BY InQueue
  <2> QED
    BY <1>1, <2>1, FreshKeys, MessageFields DEF TypeInv
<1> HIDE DEF m0
<1>3. /\ d(v) \in Conn /\ d(v).state = "WAITING_AUTH_I" /\ d(v).ecdh = v
      /\ d(v).their_ecdh = m0.ecdh /\ d(v).shared_secret.ecdh = {v, m0.ecdh}
  BY <1>2, AcceptIdentityType
<1>4. /\ out(v) \in Seq(Message)
      /\ \A m \in Elems(out(v)) : /\ m.type = "auth_r" /\ m.ecdh = v
                                  /\ m.of[1] = m0.ecdh
  BY <1>3, MessageTypes, OneMessage, FewElems DEF AuthRMessage, InteractiveTag
<1> HIDE DEF out, d
<1>5. Shape(p, d(v), v, out(v))
  BY <1>1, Zenon DEF Shape
<1>6. \A m \in Elems(out(v)) : Expected(m)
  BY <1>4 DEF Expected
<1>7. Local(p, v, out(v)) /\ conn'[p] = d(v)
  BY <1>3, <1>4, <1>5, <1>6, LocalStep
<1>8. AnswersIdentity(p, v, out(v))
  BY <1>1, <1>2, <1>3, <1>4, <1>7 DEF AnswersIdentity, KeepsSessions
<1> QED
  BY <1>4, <1>7, <1>8 DEF Does

\* The steps that change nothing but the queues.
LEMMA SilentDoes ==
  ASSUME TypeInv, NEW p \in Peer, NEW out \in Seq(Message), Plain(out),
         \A m \in Elems(out) : Expected(m),
         \/ Post(p, out)
         \/ \E n \in DOMAIN net[p] : Handle(p, n, out)
         \/ net' \in [Peer -> Seq(Message)] /\ Adds(p, out),
         count' = count \/ Counts("starts", MaxStarts) \/ Counts("faults", MaxFaults),
         UNCHANGED <<conn, secure, prekeys, published, drawn, got, established>>
  PROVE  Does(p)
<1>1. Shape(p, conn[p], NoKey, out) /\ conn[p] \in Conn
  BY StayingBecomes, Zenon DEF Shape
<1>2. Local(p, NoKey, out) /\ conn'[p] = conn[p]
  BY <1>1, LocalStep
<1>3. GoesOn(p, NoKey, out)
  BY DEF GoesOn, KeepsSessions
<1> QED
  BY <1>2, <1>3 DEF Does

\* The answers that carry nothing.
LEMMA PlainAnswers ==
  /\ <<>> \in Seq(Message) /\ Plain(<<>>) /\ \A m \in Elems(<<>>) : Expected(m)
  /\ \A t \in {"query", "error"} :
       /\ <<[type |-> t]>> \in Seq(Message) /\ Plain(<<[type |-> t]>>)
       /\ \A m \in Elems(<<[type |-> t]>>) : Expected(m)
<1>1. <<>> \in Seq(Message) /\ Plain(<<>>) /\ \A m \in Elems(<<>>) : Expected(m)
  BY FewElems DEF Plain
<1>2. ASSUME NEW t \in {"query", "error"}
      PROVE  /\ <<[type |-> t]>> \in Seq(Message) /\ Plain(<<[type |-> t]>>)
             /\ \A m \in Elems(<<[type |-> t]>>) : Expected(m)
  <2>1. <<[type |-> t]>> \in Seq(Message)
    BY MessageTypes, OneMessage
  <2>2. Elems(<<[type |-> t]>>) = {[type |-> t]}
    BY FewElems
  <2> QED
    BY <2>1, <2>2 DEF Plain, Expected
<1> QED
  BY <1>1, <1>2

LEMMA QueryDoes ==
  ASSUME TypeInv, NEW p \in Peer, SendQuery(p)
  PROVE  Does(p)
<1>1. /\ Post(p, <<[type |-> "query"]>>) /\ Counts("starts", MaxStarts)
      /\ UNCHANGED <<conn, secure, prekeys, published, drawn, got, established>>
  BY DEF SendQuery
<1> QED
  BY <1>1, PlainAnswers, SilentDoes

LEMMA IgnoringDoes ==
  ASSUME TypeInv, NEW p \in Peer, NEW n \in DOMAIN net[p],
         \/ IgnoreDake(p, n) \/ IgnoreNonInteractiveAuth(p, n)
         \/ ReceiveDataNotPrivate(p, n) \/ RejectData(p, n) \/ Lose(p, n)
  PROVE  Does(p)
<1>1. UNCHANGED <<conn, secure, prekeys, published, drawn, count, got, established>>
  BY DEF IgnoreDake, IgnoreNonInteractiveAuth, ReceiveDataNotPrivate, RejectData, Lose
<1>2. CASE IgnoreDake(p, n) \/ IgnoreNonInteractiveAuth(p, n) \/ RejectData(p, n)
  <2>1. Handle(p, n, <<>>)
    BY <1>2 DEF IgnoreDake, IgnoreNonInteractiveAuth, RejectData
  <2> QED
    BY <1>1, <2>1, PlainAnswers, SilentDoes
<1>3. CASE ReceiveDataNotPrivate(p, n)
  <2>1. Handle(p, n, <<[type |-> "error"]>>)
    BY <1>3 DEF ReceiveDataNotPrivate
  <2> QED
    BY <1>1, <2>1, PlainAnswers, SilentDoes
<1>4. CASE Lose(p, n)
  <2> DEFINE t == Without(net[p], n)
  <2>1. net[p] \in Seq(Message) /\ n \in 1 .. Len(net[p])
    BY DEF TypeInv
  <2>2. t \in Seq(Message) /\ Elems(t) \subseteq Elems(net[p])
    BY <2>1, WithoutElems DEF Without
  <2> HIDE DEF t
  <2>3. net' = [net EXCEPT ![p] = t] /\ net \in [Peer -> Seq(Message)]
    BY <1>4 DEF Lose, TypeInv, t
  <2>4. net' \in [Peer -> Seq(Message)]
    BY <2>2, <2>3
  <2>5. \A q \in Peer : net'[q] = IF q = p THEN t ELSE net[q]
    BY <2>3
  <2>6. Adds(p, <<>>)
    BY <2>2, <2>5 DEF Adds
  <2> QED
    BY <1>1, <2>4, <2>6, PlainAnswers, SilentDoes
<1> QED
  BY <1>2, <1>3, <1>4

LEMMA OtherInstanceDoes ==
  ASSUME TypeInv, NEW p \in Peer, MessageForOtherInstance(p)
  PROVE  Does(Other(p))
<1> DEFINE m == [type |-> "data", session |-> NoSecret, r |-> 1, id |-> 0,
                 kind |-> "text", ours |-> FALSE]
<1>1. /\ Post(Other(p), <<m>>) /\ Counts("faults", MaxFaults)
      /\ "other_instance" \in Faults
      /\ UNCHANGED <<conn, secure, prekeys, published, drawn, got, established>>
  BY DEF MessageForOtherInstance
<1>2. m.type = "data" /\ m.kind = "text"
  BY Zenon
<1>3. m \in Message
  <2>1. 1 \in Nat /\ 0 \in Nat /\ NoSecret \in Secret
    BY NoKeyIsKey
  <2>2. m \in [type : {"data"}, session : Secret, r : Nat, id : Nat,
               kind : {"empty", "text", "smp", "disconnected"}, ours : BOOLEAN]
    BY <2>1, Zenon
  <2> HIDE DEF m
  <2> QED
    BY <2>2, Zenon DEF Message
<1>4. /\ <<m>> \in Seq(Message) /\ Plain(<<m>>) /\ Other(p) \in Peer
      /\ \A x \in Elems(<<m>>) : Expected(x)
  <2> HIDE DEF m
  <2>1. Expected(m)
    BY <1>1, <1>2 DEF Expected
  <2>2. \A x \in Elems(<<m>>) : x = m
    BY FewElems
  <2> QED
    BY <1>2, <1>3, <2>1, <2>2, OneMessage, OtherPeer DEF Plain
<1> HIDE DEF m
<1> QED
  BY <1>1, <1>4, SilentDoes

\* The state of p changes while its session goes on.
LEMMA SessionDoes ==
  ASSUME TypeInv, NEW p \in Peer, NEW d \in Conn, NEW v \in Fresh \cup {NoKey},
         NEW out \in Seq(Message), Plain(out), \A m \in Elems(out) : Expected(m),
         Shape(p, d, v, out), UNCHANGED <<secure, prekeys, published, established>>,
         d.session = conn[p].session, d.their_ecdh = conn[p].their_ecdh,
         d.shared_secret = conn[p].shared_secret,
         \/ d.ecdh = conn[p].ecdh
         \/ v \in Fresh /\ d.ecdh = v /\ conn[p].state = "ENCRYPTED_MESSAGES",
         got[p] \subseteq got'[p],
         \/ d.state = conn[p].state
         \/ conn[p].state = "ENCRYPTED_MESSAGES" /\ d.state = "CRASHED"
         \/ /\ conn[p].state = "WAITING_DAKE_DATA_MESSAGE"
            /\ d.state = "ENCRYPTED_MESSAGES"
            /\ \/ \E m \in Elems(net[p]) : m.type = "data" /\ ~m.ours
               \/ \E x \in got'[p] : x[1] = conn[p].session
  PROVE  Does(p)
<1>1. Local(p, v, out) /\ conn'[p] = d
  BY LocalStep
<1>2. GoesOn(p, v, out)
  BY <1>1, Zenon DEF GoesOn, KeepsSessions
<1> QED
  BY <1>1, <1>2 DEF Does

\* What is known of a data message that is decrypted.
LEMMA DecryptedFacts ==
  ASSUME TypeInv, NEW p \in Peer, NEW n \in DOMAIN net[p], Decrypted(p, n)
  PROVE  /\ net[p][n].type = "data" /\ net[p][n].r \in Nat
         /\ InDataPhase(conn[p])
         /\ \E s \in SUBSET Decryption : got' = [got EXCEPT ![p] = s]
         /\ got[p] \subseteq got'[p]
         /\ \E x \in got'[p] : x[1] = conn[p].session
         /\ UNCHANGED <<prekeys, published, count, established>>
<1> DEFINE m == net[p][n]
           x == <<m.session, m.r, m.id>>
<1>1. /\ m.type = "data" /\ InDataPhase(conn[p]) /\ m.session = conn[p].session
      /\ got' = [got EXCEPT ![p] = got[p] \cup {x}]
      /\ UNCHANGED <<prekeys, published, count, established>>
  BY DEF Decrypted, IsForUs, Decrypts
<1>2. m \in Message
  BY InQueue
<1>3. m.session \in Secret /\ m.r \in Nat /\ m.id \in Nat
  BY <1>1, <1>2, MessageFields
<1>4. x \in Decryption /\ x[1] = conn[p].session
  BY <1>1, <1>3 DEF Decryption
<1> HIDE DEF x
<1>5. got[p] \cup {x} \in SUBSET Decryption
  BY <1>4 DEF TypeInv
<1>6. got'[p] = got[p] \cup {x}
  BY <1>1 DEF TypeInv
<1> QED
  BY <1>1, <1>3, <1>4, <1>5, <1>6

\* A data message that is sent.
LEMMA DataOut ==
  ASSUME NEW c \in Conn, NEW v \in Key, NEW kind \in {"empty", "text", "smp", "disconnected"},
         kind # "disconnected" \/ "close" \in Uses
  PROVE  LET out == <<DataMessage(c, v, kind)>>
         IN /\ out \in Seq(Message) /\ Plain(out)
            /\ \A m \in Elems(out) : Expected(m)
<1> DEFINE m == DataMessage(c, v, kind)
<1>1. m \in Message /\ m.type = "data" /\ m.kind = kind /\ m.ours = TRUE
  BY DataMessageType
<1> HIDE DEF m
<1>2. Elems(<<m>>) = {m} /\ <<m>> \in Seq(Message)
  BY <1>1, FewElems, OneMessage
<1>3. Expected(m)
  BY <1>1, Zenon DEF Expected
<1>4. Plain(<<m>>) /\ \A x \in Elems(<<m>>) : Expected(x)
  BY <1>1, <1>2, <1>3 DEF Plain
<1> QED
  BY <1>2, <1>4 DEF m

LEMMA FreshOrNoKey ==
  ASSUME TypeInv, NEW b \in BOOLEAN, NEW v \in FreshIf(b)
  PROVE  v \in Fresh \cup {NoKey} /\ v \in Key /\ (b => v \in Fresh)
  BY FreshKeys, NoKeyIsKey DEF FreshIf, TypeInv

LEMMA TextDoes ==
  ASSUME TypeInv, NEW p \in Peer, SendText(p) \/ SendSmp(p)
  PROVE  Does(p)
<1> DEFINE c == conn[p]
<1>0. PICK kind \in {"text", "smp"} : SendUserMessage(p, kind)
  BY DEF SendText, SendSmp
<1>1. PICK v \in FreshIf(c.j = 0) :
        /\ Become(p, SendKeys(c, v), v) /\ Post(p, <<DataMessage(c, v, kind)>>)
  BY <1>0 DEF SendUserMessage
<1>2. /\ c.state = "ENCRYPTED_MESSAGES" /\ Counts("texts", MaxTexts)
      /\ UNCHANGED <<secure, prekeys, published, got, established>>
  BY <1>0 DEF SendUserMessage
<1>3. c \in Conn /\ v \in Fresh \cup {NoKey} /\ v \in Key /\ (c.j = 0 => v \in Fresh)
  BY FreshOrNoKey DEF TypeInv
<1> DEFINE d == SendKeys(c, v)
           out == <<DataMessage(c, v, kind)>>
<1>4. /\ d \in Conn /\ d.state = c.state /\ d.ecdh = IF c.j = 0 THEN v ELSE c.ecdh
      /\ d.their_ecdh = c.their_ecdh /\ d.session = c.session
      /\ d.shared_secret = c.shared_secret
  BY <1>3, SendKeysType
<1>5. out \in Seq(Message) /\ Plain(out) /\ \A m \in Elems(out) : Expected(m)
  BY <1>3, DataOut
<1> HIDE DEF c, d, out
<1>6. Shape(p, d, v, out)
  BY <1>1, <1>2, Zenon DEF Shape, d, out
<1>7. d.ecdh = c.ecdh \/ (v \in Fresh /\ d.ecdh = v)
  BY <1>3, <1>4
<1>8. got[p] \subseteq got'[p]
  BY <1>2
<1> QED
  BY <1>2, <1>3, <1>4, <1>5, <1>6, <1>7, <1>8, SessionDoes DEF c

LEMMA ReplyDoes ==
  ASSUME TypeInv, NEW p \in Peer, NEW n \in DOMAIN net[p], ReceiveDataAndReply(p, n)
  PROVE  Does(p)
<1> DEFINE c == ReceiveKeys(conn[p], net[p][n])
           kind == ReplyKind(net[p][n])
<1>0. kind \in {"smp", "empty"}
  BY DEF ReplyKind
<1>1. PICK v \in FreshIf(c.j = 0) :
        /\ Become(p, SendKeys(c, v), v) /\ Handle(p, n, <<DataMessage(c, v, kind)>>)
  BY DEF ReceiveDataAndReply
<1>2. Decrypted(p, n) /\ conn[p].state = "ENCRYPTED_MESSAGES" /\ secure' = secure
  BY DEF ReceiveDataAndReply
<1>3. /\ net[p][n].r \in Nat
      /\ \E s \in SUBSET Decryption : got' = [got EXCEPT ![p] = s]
      /\ got[p] \subseteq got'[p]
      /\ UNCHANGED <<prekeys, published, count, established>>
  BY <1>2, DecryptedFacts
<1>4. /\ c \in Conn /\ c.state = conn[p].state /\ c.ecdh = conn[p].ecdh
      /\ c.their_ecdh = conn[p].their_ecdh /\ c.session = conn[p].session
      /\ c.shared_secret = conn[p].shared_secret
  BY <1>3, ReceiveKeysType DEF TypeInv
<1>5. v \in Fresh \cup {NoKey} /\ v \in Key /\ (c.j = 0 => v \in Fresh)
  BY FreshOrNoKey
<1> HIDE DEF c, kind
<1> DEFINE d == SendKeys(c, v)
           out == <<DataMessage(c, v, kind)>>
<1>6. /\ d \in Conn /\ d.state = c.state /\ d.ecdh = IF c.j = 0 THEN v ELSE c.ecdh
      /\ d.their_ecdh = c.their_ecdh /\ d.session = c.session
      /\ d.shared_secret = c.shared_secret
  BY <1>4, <1>5, SendKeysType
<1>7. out \in Seq(Message) /\ Plain(out) /\ \A m \in Elems(out) : Expected(m)
  BY <1>0, <1>4, <1>5, DataOut
<1> HIDE DEF d, out
<1>8. Shape(p, d, v, out)
  BY <1>1, <1>2, <1>3, Zenon DEF Shape, d, out
<1>9. d.ecdh = conn[p].ecdh \/ (v \in Fresh /\ d.ecdh = v)
  BY <1>4, <1>5, <1>6
<1> QED
  BY <1>2, <1>3, <1>4, <1>5, <1>6, <1>7, <1>8, <1>9, SessionDoes

LEMMA DataDoes ==
  ASSUME TypeInv, NEW p \in Peer, NEW n \in DOMAIN net[p],
         ReceiveQuietData(p, n) \/ ReceiveDataTooEarly(p, n)
  PROVE  Does(p)
<1> DEFINE c == ReceiveKeys(conn[p], net[p][n])
<1>1. Decrypted(p, n) /\ secure' = secure /\ Handle(p, n, <<>>)
  BY DEF ReceiveQuietData, ReceiveDataTooEarly
<1>2. /\ net[p][n].r \in Nat /\ InDataPhase(conn[p])
      /\ \E s \in SUBSET Decryption : got' = [got EXCEPT ![p] = s]
      /\ got[p] \subseteq got'[p]
      /\ \E x \in got'[p] : x[1] = conn[p].session
      /\ UNCHANGED <<prekeys, published, count, established>>
  BY <1>1, DecryptedFacts
<1>3. /\ c \in Conn /\ c.state = conn[p].state /\ c.ecdh = conn[p].ecdh
      /\ c.their_ecdh = conn[p].their_ecdh /\ c.session = conn[p].session
      /\ c.shared_secret = conn[p].shared_secret
  BY <1>2, ReceiveKeysType DEF TypeInv
<1> HIDE DEF c
<1> DEFINE e == [c EXCEPT !.state = "ENCRYPTED_MESSAGES"]
<1>4. /\ e \in Conn /\ e.state = "ENCRYPTED_MESSAGES" /\ e.ecdh = c.ecdh
      /\ e.their_ecdh = c.their_ecdh /\ e.session = c.session
      /\ e.shared_secret = c.shared_secret
  <2>1. "ENCRYPTED_MESSAGES" \in State
    BY DEF State
  <2> QED
    BY <1>3, <2>1, StateType
<1> HIDE DEF e
<1>5. PICK d \in {c, e} : Become(p, d, NoKey)
  BY DEF ReceiveQuietData, ReceiveDataTooEarly, c, e
<1>6. /\ d \in Conn /\ d.state \in {conn[p].state, "ENCRYPTED_MESSAGES"}
      /\ d.ecdh = conn[p].ecdh /\ d.their_ecdh = conn[p].their_ecdh
      /\ d.session = conn[p].session /\ d.shared_secret = conn[p].shared_secret
  BY <1>3, <1>4, <1>5
<1>7. Shape(p, d, NoKey, <<>>)
  BY <1>1, <1>2, <1>5, Zenon DEF Shape
<1>8. \/ d.state = conn[p].state
      \/ /\ conn[p].state = "WAITING_DAKE_DATA_MESSAGE" /\ d.state = "ENCRYPTED_MESSAGES"
         /\ \E x \in got'[p] : x[1] = conn[p].session
  BY <1>2, <1>6 DEF InDataPhase
<1> QED
  BY <1>1, <1>2, <1>6, <1>7, <1>8, PlainAnswers, SessionDoes

LEMMA ForOtherDoes ==
  ASSUME TypeInv, NEW p \in Peer, NEW n \in DOMAIN net[p], ReceiveDataForOther(p, n)
  PROVE  Does(p)
<1> DEFINE d == [conn[p] EXCEPT !.state = "ENCRYPTED_MESSAGES"]
<1>1. /\ net[p][n].type = "data" /\ ~net[p][n].ours /\ InDataPhase(conn[p])
      /\ Become(p, d, NoKey) /\ Handle(p, n, <<>>)
      /\ UNCHANGED <<secure, prekeys, published, count, got, established>>
  BY DEF ReceiveDataForOther
<1>2. \E m \in Elems(net[p]) : m.type = "data" /\ ~m.ours
  BY <1>1, InQueue
<1>3. /\ d \in Conn /\ d.state = "ENCRYPTED_MESSAGES" /\ d.ecdh = conn[p].ecdh
      /\ d.their_ecdh = conn[p].their_ecdh /\ d.session = conn[p].session
      /\ d.shared_secret = conn[p].shared_secret
  <2>1. "ENCRYPTED_MESSAGES" \in State /\ conn[p] \in Conn
    BY DEF State, TypeInv
  <2> QED
    BY <2>1, StateType
<1> HIDE DEF d
<1>4. Shape(p, d, NoKey, <<>>) /\ got[p] \subseteq got'[p]
  BY <1>1, Zenon DEF Shape
<1>5. \/ d.state = conn[p].state
      \/ conn[p].state = "WAITING_DAKE_DATA_MESSAGE" /\ d.state = "ENCRYPTED_MESSAGES"
  BY <1>1, <1>3 DEF InDataPhase
<1> QED
  BY <1>1, <1>2, <1>3, <1>4, <1>5, PlainAnswers, SessionDoes

LEMMA CrashOrIdleDoes ==
  ASSUME TypeInv, NEW p \in Peer, Crash(p) \/ PassTime(p)
  PROVE  Does(p)
<1> DEFINE Same(d) == /\ d \in Conn /\ d.ecdh = conn[p].ecdh
                      /\ d.their_ecdh = conn[p].their_ecdh
                      /\ d.session = conn[p].session
                      /\ d.shared_secret = conn[p].shared_secret
<1>1. UNCHANGED <<net, secure, prekeys, published, count, got, established>>
  BY DEF Crash, PassTime
<1>2. conn[p] \in Conn /\ net \in [Peer -> Seq(Message)]
  BY DEF TypeInv
<1>3. PICK d : /\ Become(p, d, NoKey) /\ Same(d)
               /\ \/ d.state = conn[p].state
                  \/ conn[p].state = "ENCRYPTED_MESSAGES" /\ d.state = "CRASHED"
  <2>1. CASE Crash(p)
    <3>1. "CRASHED" \in State
      BY DEF State
    <3> DEFINE c == [conn[p] EXCEPT !.state = "CRASHED"]
    <3>2. Same(c) /\ c.state = "CRASHED"
      BY <1>2, <3>1, StateType
    <3>3. Become(p, c, NoKey) /\ conn[p].state = "ENCRYPTED_MESSAGES"
      BY <2>1 DEF Crash
    <3> HIDE DEF c, Same
    <3> QED
      BY <3>2, <3>3
  <2>2. CASE PassTime(p)
    <3> DEFINE c == [conn[p] EXCEPT !.idle = TRUE]
    <3>1. Same(c) /\ c.state = conn[p].state
      BY <1>2, Zenon DEF Conn
    <3>2. Become(p, c, NoKey)
      BY <2>2 DEF PassTime
    <3> HIDE DEF c, Same
    <3> QED
      BY <3>1, <3>2
  <2> QED
    BY <2>1, <2>2
<1>4. net' \in [Peer -> Seq(Message)] /\ Adds(p, <<>>)
  BY <1>1, <1>2 DEF Adds
<1>5. Shape(p, d, NoKey, <<>>) /\ got[p] \subseteq got'[p]
  BY <1>1, <1>3, <1>4, Zenon DEF Shape
<1> QED
  BY <1>1, <1>3, <1>5, PlainAnswers, SessionDoes

LEMMA PublishDoes ==
  ASSUME TypeInv, NEW p \in Peer, PublishPrekey(p)
  PROVE  Does(p)
<1>1. PICK v \in Fresh :
        /\ Become(p, conn[p], v)
        /\ prekeys' = [prekeys EXCEPT ![p] = prekeys[p] \cup {v}]
        /\ published' = [published EXCEPT ![p] = published[p] \cup {v}]
  BY DEF PublishPrekey
<1>2. Counts("starts", MaxStarts) /\ UNCHANGED <<net, secure, got, established>>
  BY DEF PublishPrekey
<1>3. /\ conn[p] \in Conn /\ prekeys[p] \cup {v} \in SUBSET Key
      /\ published[p] \cup {v} \in SUBSET Key
      /\ net' \in [Peer -> Seq(Message)] /\ Adds(p, <<>>)
  BY <1>2, FreshKeys DEF TypeInv, Adds
<1>4. Shape(p, conn[p], v, <<>>)
  BY <1>1, <1>2, <1>3, Zenon DEF Shape
<1>5. Local(p, v, <<>>) /\ conn'[p] = conn[p]
  BY <1>3, <1>4, LocalStep, PlainAnswers
<1>6. prekeys'[p] = prekeys[p] \cup {v} /\ published'[p] = published[p] \cup {v}
  BY <1>1 DEF TypeInv
<1>7. Publishes(p, v, <<>>)
  BY <1>2, <1>5, <1>6, FewElems DEF Publishes
<1> QED
  BY <1>5, <1>7, OneMessage DEF Does

\* p forgets its keys.
LEMMA ResetDoes ==
  ASSUME TypeInv, NEW p \in Peer, NEW d \in Conn, NEW v \in Fresh \cup {NoKey},
         NEW out \in Seq(Message), Plain(out), \A m \in Elems(out) : Expected(m),
         Shape(p, d, v, out), UNCHANGED <<prekeys, published, established>>,
         d.ecdh = NoKey, d.their_ecdh = NoKey,
         d.state \in {"START", "FINISHED", "ENCRYPTED_MESSAGES"},
         \/ d.state \in {"START", "FINISHED"}
         \/ \E m \in Elems(net[p]) : m.type = "data" /\ m.kind = "disconnected"
  PROVE  Does(p)
<1>1. Local(p, v, out) /\ conn'[p] = d
  BY LocalStep
<1>2. Resets(p, out)
  BY <1>1, Zenon DEF Resets, KeepsSessions
<1> QED
  BY <1>1, <1>2 DEF Does

LEMMA CloseDoes ==
  ASSUME TypeInv, NEW p \in Peer, Close(p)
  PROVE  Does(p)
<1> DEFINE c == conn[p]
<1>1. PICK v \in FreshIf(c.j = 0) :
        Become(p, NewConn, v) /\ Post(p, <<DataMessage(c, v, "disconnected")>>)
  BY DEF Close
<1>2. /\ "close" \in Uses /\ Counts("starts", MaxStarts)
      /\ secure' = [secure EXCEPT ![p] = FALSE]
      /\ UNCHANGED <<prekeys, published, got, established>>
  BY Zenon DEF Close
<1>3. c \in Conn /\ v \in Fresh \cup {NoKey} /\ v \in Key
  BY FreshOrNoKey DEF TypeInv
<1> DEFINE out == <<DataMessage(c, v, "disconnected")>>
<1>4. out \in Seq(Message) /\ Plain(out) /\ \A m \in Elems(out) : Expected(m)
  BY <1>2, <1>3, DataOut
<1> HIDE DEF c, out
<1>5. Shape(p, NewConn, v, out)
  BY <1>1, <1>2, Zenon DEF Shape, out
<1> QED
  BY <1>2, <1>3, <1>4, <1>5, NewConnType, ResetDoes

LEMMA RestartDoes ==
  ASSUME TypeInv, NEW p \in Peer, Restart(p)
  PROVE  Does(p)
<1>1. /\ Become(p, NewConn, NoKey) /\ Counts("faults", MaxFaults)
      /\ secure' = [secure EXCEPT ![p] = FALSE]
      /\ UNCHANGED <<net, prekeys, published, got, established>>
  BY Zenon DEF Restart
<1>2. net' \in [Peer -> Seq(Message)] /\ Adds(p, <<>>)
  BY <1>1 DEF TypeInv, Adds
<1>3. Shape(p, NewConn, NoKey, <<>>)
  BY <1>1, <1>2, Zenon DEF Shape
<1> QED
  BY <1>1, <1>3, PlainAnswers, NewConnType, ResetDoes

LEMMA ErrorDoes ==
  ASSUME TypeInv, NEW p \in Peer, NEW n \in DOMAIN net[p], ReceiveError(p, n)
  PROVE  Does(p)
<1>1. UNCHANGED <<prekeys, published, count, got, established>>
  BY DEF ReceiveError
<1>2. CASE ErrorStartsDake
  <2> DEFINE d == ErrorReset(conn[p])
  <2>1. /\ Become(p, d, NoKey) /\ Handle(p, n, <<[type |-> "query"]>>)
        /\ secure' = [secure EXCEPT ![p] = FALSE]
    BY <1>2, Zenon DEF ReceiveError
  <2>2. "START" \in State /\ conn[p] \in Conn
    BY DEF State, TypeInv
  <2>3. d \in Conn /\ d.state = "START" /\ d.ecdh = NoKey /\ d.their_ecdh = NoKey
    BY <2>2, ForgetType DEF ErrorReset
  <2> HIDE DEF d
  <2>4. Shape(p, d, NoKey, <<[type |-> "query"]>>)
    BY <1>1, <2>1, Zenon DEF Shape
  <2> QED
    BY <1>1, <2>3, <2>4, PlainAnswers, ResetDoes
<1>3. CASE ~ErrorStartsDake
  <2>1. Handle(p, n, <<>>) /\ UNCHANGED <<conn, drawn, secure>>
    BY <1>3, Zenon DEF ReceiveError
  <2> QED
    BY <1>1, <2>1, PlainAnswers, SilentDoes
<1> QED
  BY <1>2, <1>3

LEMMA DisconnectedDoes ==
  ASSUME TypeInv, NEW p \in Peer, NEW n \in DOMAIN net[p], ReceiveDisconnected(p, n)
  PROVE  Does(p)
<1> DEFINE st == IF conn[p].state = "ENCRYPTED_MESSAGES" THEN "FINISHED"
                                                         ELSE "ENCRYPTED_MESSAGES"
           d == [ForgetOurKeys(conn[p]) EXCEPT !.state = st]
<1>1. /\ Decrypted(p, n) /\ net[p][n].kind = "disconnected"
      /\ Become(p, d, NoKey) /\ Handle(p, n, <<>>)
      /\ secure' = [secure EXCEPT ![p] = FALSE]
  BY Zenon DEF ReceiveDisconnected
<1>2. st \in State /\ st \in {"FINISHED", "ENCRYPTED_MESSAGES"} /\ conn[p] \in Conn
  BY DEF State, TypeInv
<1> HIDE DEF st
<1>3. d \in Conn /\ d.state = st /\ d.ecdh = NoKey /\ d.their_ecdh = NoKey
  BY <1>2, ForgetType
<1> HIDE DEF d
<1>4. /\ net[p][n].type = "data"
      /\ \E s \in SUBSET Decryption : got' = [got EXCEPT ![p] = s]
      /\ UNCHANGED <<prekeys, published, count, established>>
  BY <1>1, DecryptedFacts
<1>5. \E m \in Elems(net[p]) : m.type = "data" /\ m.kind = "disconnected"
  BY <1>1, <1>4, InQueue
<1>6. Shape(p, d, NoKey, <<>>)
  BY <1>1, <1>4, Zenon DEF Shape
<1> QED
  BY <1>2, <1>3, <1>4, <1>5, <1>6, PlainAnswers, ResetDoes

\* The session that is initialised.
LEMMA SessionType ==
  ASSUME NEW role \in {"t", "u"}, NEW offline \in BOOLEAN, NEW of \in Transcript,
         NEW secret \in Secret
  PROVE  LET s == [role |-> role, offline |-> offline, of |-> of, secret |-> secret]
         IN /\ s \in Session /\ s.role = role /\ s.offline = offline
            /\ s.of = of /\ s.secret = secret
  BY Zenon DEF Session

\* p initialises session s.
LEMMA EstablishDoes ==
  ASSUME TypeInv, NEW p \in Peer, NEW d \in Conn, NEW v \in Fresh \cup {NoKey},
         NEW out \in Seq(Message), \A m \in Elems(out) : Expected(m),
         Shape(p, d, v, out), NEW s \in Session,
         established' = [established EXCEPT ![p] = Append(established[p], s)],
         secure' = [secure EXCEPT ![p] = TRUE], got' = got, published' = published,
         d.session = s.secret,
         d.state = IF s.role = "t" THEN "ENCRYPTED_MESSAGES"
                                   ELSE "WAITING_DAKE_DATA_MESSAGE"
  PROVE  Local(p, v, out) /\ conn'[p] = d /\ Establishes(p, s)
<1>1. Local(p, v, out) /\ conn'[p] = d
  BY LocalStep
<1>2. established'[p] = Append(established[p], s)
  BY DEF TypeInv
<1>3. secure'[p] = TRUE
  BY Zenon DEF TypeInv
<1> QED
  BY <1>1, <1>2, <1>3, Zenon DEF Establishes

LEMMA AuthRDoes ==
  ASSUME TypeInv, NEW p \in Peer, NEW n \in DOMAIN net[p], ReceiveAuthR(p, n)
  PROVE  Does(p)
<1> DEFINE c   == conn[p]
           m0  == net[p][n]
           of  == InteractiveTag(c.ecdh, c.dh, m0.ecdh, m0.dh)
           d(v) == AcceptAuthR(c, m0, v)
           s(v) == [role |-> "u", offline |-> FALSE, of |-> of, secret |-> d(v).session]
           out == <<AuthIMessage(of)>>
<1>1. PICK v \in Fresh :
        /\ Become(p, d(v), v)
        /\ established' = [established EXCEPT ![p] = Append(established[p], s(v))]
  BY Zenon DEF ReceiveAuthR
<1>2. /\ m0.type = "auth_r" /\ c.state = "WAITING_AUTH_R" /\ Handle(p, n, out)
      /\ secure' = [secure EXCEPT ![p] = TRUE]
      /\ UNCHANGED <<prekeys, published, count, got>>
  BY Zenon DEF ReceiveAuthR
<1>2a. m0.of = of
  BY Zenon DEF ReceiveAuthR, ValidAuthR
<1>2b. of[1] = c.ecdh
  BY DEF InteractiveTag
<1>3. c \in Conn /\ v \in Key /\ m0 \in Message /\ m0 \in Elems(net[p])
  BY InQueue, FreshKeys DEF TypeInv
<1>4. m0.ecdh \in Key /\ m0.dh \in Key /\ c.ecdh \in Key /\ c.dh \in Key
  BY <1>2, <1>3, MessageFields, ConnFields
<1>5. of \in Transcript
  BY <1>4 DEF InteractiveTag, Transcript
<1> HIDE DEF c, m0, of
<1>6. /\ d(v) \in Conn /\ d(v).state = "WAITING_DAKE_DATA_MESSAGE"
      /\ d(v).ecdh = c.ecdh /\ d(v).their_ecdh = m0.ecdh
      /\ d(v).session.ecdh = {c.ecdh, m0.ecdh}
  <2>1. c \in Conn /\ v \in Key /\ m0.ecdh \in Key /\ m0.dh \in Key
    BY <1>3, <1>4
  <2>2. AcceptAuthR(c, m0, v) \in Conn /\ AcceptAuthR(c, m0, v).ecdh = c.ecdh
    BY ONLY <2>1, AcceptAuthRType
  <2>3. AcceptAuthR(c, m0, v).state = "WAITING_DAKE_DATA_MESSAGE"
    BY ONLY <2>1, AcceptAuthRType
  <2>4. /\ AcceptAuthR(c, m0, v).their_ecdh = m0.ecdh
        /\ AcceptAuthR(c, m0, v).session.ecdh = {c.ecdh, m0.ecdh}
    BY ONLY <2>1, AcceptAuthRType
  <2> QED
    BY <2>2, <2>3, <2>4
<1> HIDE DEF d
<1>7. d(v).session \in Secret
  BY <1>6, ConnFields
<1>8. /\ s(v) \in Session /\ s(v).role = "u" /\ s(v).offline = FALSE
      /\ s(v).of = of /\ s(v).secret = d(v).session
  BY <1>5, <1>7, SessionType
<1>9. out \in Seq(Message) /\ \A m \in Elems(out) : m.type = "auth_i" /\ m.of = of
  BY <1>5, MessageTypes, OneMessage, FewElems DEF AuthIMessage
<1> HIDE DEF s, out
<1>10. Shape(p, d(v), v, out)
  BY <1>1, <1>2, <1>8, Zenon DEF Shape
<1>11. \A m \in Elems(out) : Expected(m)
  BY <1>9 DEF Expected
<1>12. d(v).state = IF s(v).role = "t" THEN "ENCRYPTED_MESSAGES"
                                       ELSE "WAITING_DAKE_DATA_MESSAGE"
  BY <1>6, <1>8
<1>13. Local(p, v, out) /\ conn'[p] = d(v) /\ Establishes(p, s(v))
  BY <1>1, <1>2, <1>6, <1>8, <1>9, <1>10, <1>11, <1>12, EstablishDoes
<1>14. ~s(v).offline
  BY <1>8
<1>15. FinishesAsU(p, s(v), out)
  BY <1>2, <1>3, <1>6, <1>8, <1>9, <1>13, <1>14, <1>2a, <1>2b DEF FinishesAsU, c
<1> QED
  BY <1>8, <1>9, <1>13, <1>15 DEF Does

LEMMA AuthIDoes ==
  ASSUME TypeInv, NEW p \in Peer, NEW n \in DOMAIN net[p], ReceiveAuthI(p, n)
  PROVE  Does(p)
<1> DEFINE m0  == net[p][n]
           c   == AcceptAuthI(conn[p])
           of  == <<c.their_ecdh, c.their_dh, c.ecdh, c.dh>>
           d(v) == SendKeys(c, v)
           s   == [role |-> "t", offline |-> FALSE, of |-> of, secret |-> c.session]
           out(v) == <<DataMessage(c, v, "empty")>>
<1>1. PICK v \in Fresh : Become(p, d(v), v) /\ Handle(p, n, out(v))
  BY DEF ReceiveAuthI
<1>2. /\ m0.type = "auth_i" /\ conn[p].state = "WAITING_AUTH_I"
      /\ m0.of = InteractiveTag(conn[p].their_ecdh, conn[p].their_dh,
                                conn[p].ecdh, conn[p].dh)
      /\ established' = [established EXCEPT ![p] = Append(established[p], s)]
      /\ secure' = [secure EXCEPT ![p] = TRUE]
      /\ UNCHANGED <<prekeys, published, count, got>>
  BY Zenon DEF ReceiveAuthI, ValidAuthI
<1>3. conn[p] \in Conn /\ v \in Key /\ m0 \in Elems(net[p])
  BY InQueue, FreshKeys DEF TypeInv
<1>4. /\ c \in Conn /\ c.state = "ENCRYPTED_MESSAGES"
      /\ c.ecdh = conn[p].ecdh /\ c.their_ecdh = conn[p].their_ecdh
      /\ c.dh = conn[p].dh /\ c.their_dh = conn[p].their_dh
      /\ c.session = conn[p].shared_secret /\ c.j = 0
  BY <1>3, AcceptAuthIType
<1> HIDE DEF m0, c
<1>5. m0.of = of
  BY <1>2, <1>4 DEF InteractiveTag
<1>6. of \in Transcript /\ c.session \in Secret
  BY <1>4, ConnFields DEF Transcript
<1> HIDE DEF of
<1>7. /\ d(v) \in Conn /\ d(v).state = "ENCRYPTED_MESSAGES" /\ d(v).ecdh = v
      /\ d(v).their_ecdh = conn[p].their_ecdh /\ d(v).session = c.session
  BY <1>3, <1>4, SendKeysType
<1>8. /\ s \in Session /\ s.role = "t" /\ s.offline = FALSE
      /\ s.of = of /\ s.secret = c.session
  BY <1>6, SessionType
<1>9. /\ out(v) \in Seq(Message) /\ Plain(out(v))
      /\ \A m \in Elems(out(v)) : Expected(m)
  BY <1>3, <1>4, DataOut
<1> HIDE DEF d, s, out
<1>10. Shape(p, d(v), v, out(v))
  BY <1>1, <1>2, <1>8, Zenon DEF Shape
<1>11. d(v).state = IF s.role = "t" THEN "ENCRYPTED_MESSAGES"
                                    ELSE "WAITING_DAKE_DATA_MESSAGE"
  BY <1>7, <1>8
<1>12. Local(p, v, out(v)) /\ conn'[p] = d(v) /\ Establishes(p, s)
  BY <1>2, <1>7, <1>8, <1>9, <1>10, <1>11, EstablishDoes
<1>13. ~s.offline
  BY <1>8
<1>14. FinishesAsT(p, s, v, out(v))
  BY <1>2, <1>3, <1>4, <1>5, <1>7, <1>8, <1>9, <1>12, <1>13 DEF FinishesAsT
<1> QED
  BY <1>8, <1>9, <1>12, <1>14 DEF Does

LEMMA SendOfflineDoes ==
  ASSUME TypeInv, NEW p \in Peer, SendNonInteractiveAuth(p)
  PROVE  Does(p)
<1> DEFINE their(k) == [conn[p] EXCEPT !.their_ecdh = k, !.their_dh = k, !.profile = TRUE]
           keys(k, v) == GenerateEphemeralKeys(their(k), v)
           d(k, v) == [RatchetingInit(OfflineSecret(keys(k, v)), "t", NoKey)
                         EXCEPT !.state = "ENCRYPTED_MESSAGES"]
           of(k, v) == <<k, k, keys(k, v).ecdh, keys(k, v).dh>>
           s(k, v) == [role |-> "t", offline |-> TRUE, of |-> of(k, v),
                       secret |-> d(k, v).session]
           out(k, v) == <<NonInteractiveAuthMessage(keys(k, v), k)>>
<1>1. PICK k \in published[Other(p)], v \in Fresh :
        /\ Become(p, d(k, v), v) /\ Post(p, out(k, v))
        /\ established' = [established EXCEPT ![p] = Append(established[p], s(k, v))]
  BY Zenon DEF SendNonInteractiveAuth
<1>2. /\ secure' = [secure EXCEPT ![p] = TRUE] /\ Counts("starts", MaxStarts)
      /\ UNCHANGED <<prekeys, published, got>>
  BY Zenon DEF SendNonInteractiveAuth
<1>3. conn[p] \in Conn /\ v \in Key /\ k \in Key
  BY FreshKeys, OtherPeer DEF TypeInv
<1>4. their(k) \in Conn /\ their(k).their_ecdh = k
  BY <1>3, Zenon DEF Conn
<1> HIDE DEF their
<1>5. keys(k, v) \in Conn /\ keys(k, v).ecdh = v /\ keys(k, v).their_ecdh = k
  BY <1>3, <1>4, GenerateType
<1> HIDE DEF keys
<1>6. /\ d(k, v) \in Conn /\ d(k, v).state = "ENCRYPTED_MESSAGES" /\ d(k, v).ecdh = v
      /\ d(k, v).their_ecdh = k /\ d(k, v).session.ecdh = {v, k}
  <2>1. "ENCRYPTED_MESSAGES" \in State /\ NoKey \in Key
    BY NoKeyIsKey DEF State
  <2> QED
    BY <1>5, <2>1, OfflineType
<1>7. of(k, v) \in Transcript /\ of(k, v) = <<k, k, v, keys(k, v).dh>>
  BY <1>3, <1>5, ConnFields DEF Transcript
<1>8. /\ out(k, v) \in Seq(Message)
      /\ \A m \in Elems(out(k, v)) : /\ m.type = "non_int_auth" /\ m.ecdh = v
                                     /\ m.prekey = k /\ m.dh = keys(k, v).dh
  BY <1>3, <1>5, MessageTypes, OneMessage, FewElems DEF NonInteractiveAuthMessage
<1> HIDE DEF d, of, out
<1>9. d(k, v).session \in Secret
  BY <1>6, ConnFields
<1>10. /\ s(k, v) \in Session /\ s(k, v).role = "t" /\ s(k, v).offline = TRUE
       /\ s(k, v).of = of(k, v) /\ s(k, v).secret = d(k, v).session
  BY <1>7, <1>9, SessionType
<1> HIDE DEF s
<1>11. Shape(p, d(k, v), v, out(k, v))
  BY <1>1, <1>2, <1>10, Zenon DEF Shape
<1>12. \A m \in Elems(out(k, v)) : Expected(m)
  BY <1>8 DEF Expected
<1>13. d(k, v).state = IF s(k, v).role = "t" THEN "ENCRYPTED_MESSAGES"
                                             ELSE "WAITING_DAKE_DATA_MESSAGE"
  BY <1>6, <1>10
<1>14. Local(p, v, out(k, v)) /\ conn'[p] = d(k, v) /\ Establishes(p, s(k, v))
  BY <1>1, <1>2, <1>6, <1>8, <1>10, <1>11, <1>12, <1>13, EstablishDoes
<1>15. FinishesOfflineT(p, s(k, v), v, out(k, v))
  BY <1>1, <1>2, <1>6, <1>7, <1>8, <1>10, <1>14 DEF FinishesOfflineT
<1> QED
  BY <1>8, <1>10, <1>14, <1>15 DEF Does

LEMMA ReceiveOfflineDoes ==
  ASSUME TypeInv, NEW p \in Peer, NEW n \in DOMAIN net[p], ReceiveNonInteractiveAuth(p, n)
  PROVE  Does(p)
<1> DEFINE m0   == net[p][n]
           ours == GetPrekeyById(p, m0.prekey)
           keys == [conn[p] EXCEPT !.ecdh = ours, !.dh = ours, !.their_ecdh = m0.ecdh,
                                   !.their_dh = m0.dh, !.profile = TRUE]
           d(v) == [RatchetingInit(OfflineSecret(keys), "u", v)
                      EXCEPT !.state = "WAITING_DAKE_DATA_MESSAGE"]
           of   == <<ours, ours, m0.ecdh, m0.dh>>
           s(v) == [role |-> "u", offline |-> TRUE, of |-> of, secret |-> d(v).session]
<1>1. PICK v \in Fresh :
        /\ Become(p, d(v), v)
        /\ established' = [established EXCEPT ![p] = Append(established[p], s(v))]
  BY Zenon DEF ReceiveNonInteractiveAuth
<1>2. /\ m0.type = "non_int_auth" /\ m0.prekey \in prekeys[p] /\ Handle(p, n, <<>>)
      /\ prekeys' = [prekeys EXCEPT ![p] = prekeys[p] \ {m0.prekey}]
      /\ secure' = [secure EXCEPT ![p] = TRUE]
      /\ UNCHANGED <<published, count, got>>
  BY Zenon DEF ReceiveNonInteractiveAuth, RemainingPrekeys
<1>3. ours = m0.prekey
  BY <1>2 DEF GetPrekeyById
<1>4. conn[p] \in Conn /\ v \in Key /\ m0 \in Message /\ m0 \in Elems(net[p])
  BY InQueue, FreshKeys DEF TypeInv
<1>5. m0.ecdh \in Key /\ m0.dh \in Key /\ ours \in Key
  BY <1>2, <1>3, <1>4, MessageFields
<1> HIDE DEF m0, ours
<1>6. keys \in Conn /\ keys.ecdh = ours /\ keys.their_ecdh = m0.ecdh
  BY <1>4, <1>5, Zenon DEF Conn
<1> HIDE DEF keys
<1>7. /\ d(v) \in Conn /\ d(v).state = "WAITING_DAKE_DATA_MESSAGE" /\ d(v).ecdh = ours
      /\ d(v).their_ecdh = m0.ecdh /\ d(v).session.ecdh = {ours, m0.ecdh}
  <2>1. "WAITING_DAKE_DATA_MESSAGE" \in State
    BY DEF State
  <2> QED
    BY <1>4, <1>6, <2>1, OfflineType
<1>8. of \in Transcript
  BY <1>5 DEF Transcript
<1> HIDE DEF d, of
<1>9. d(v).session \in Secret
  BY <1>7, ConnFields
<1>10. /\ s(v) \in Session /\ s(v).role = "u" /\ s(v).offline = TRUE
       /\ s(v).of = of /\ s(v).secret = d(v).session
  BY <1>8, <1>9, SessionType
<1> HIDE DEF s
<1>11. prekeys[p] \ {m0.prekey} \in SUBSET Key
  BY DEF TypeInv
<1>12. prekeys'[p] = prekeys[p] \ {m0.prekey}
  BY <1>2 DEF TypeInv
<1>13. Shape(p, d(v), v, <<>>)
  BY <1>1, <1>2, <1>10, <1>11, Zenon DEF Shape
<1>14. d(v).state = IF s(v).role = "t" THEN "ENCRYPTED_MESSAGES"
                                       ELSE "WAITING_DAKE_DATA_MESSAGE"
  BY <1>7, <1>10
<1>15. Local(p, v, <<>>) /\ conn'[p] = d(v) /\ Establishes(p, s(v))
  BY <1>1, <1>2, <1>7, <1>10, <1>13, <1>14, PlainAnswers, EstablishDoes
<1>16. FinishesOfflineU(p, s(v), <<>>)
  BY <1>2, <1>3, <1>4, <1>7, <1>10, <1>12, <1>15, FewElems DEF FinishesOfflineU, of
<1> QED
  BY <1>10, <1>15, <1>16, OneMessage DEF Does

\* Every step is of one of these kinds.
LEMMA NextDoes ==
  ASSUME TypeInv, Next
  PROVE  \E p \in Peer : Does(p)
<1>1. PICK p \in Peer :
        \/ SendQuery(p) \/ SendIdentity(p) \/ PublishPrekey(p)
        \/ SendNonInteractiveAuth(p) \/ SendText(p) \/ SendSmp(p) \/ Close(p)
        \/ \E n \in Deliverable(p) : Receive(p, n)
        \/ \E n \in DOMAIN net[p] : Lose(p, n)
        \/ Crash(p) \/ Restart(p) \/ MessageForOtherInstance(p) \/ PassTime(p)
  BY DEF Next
<1>2. ASSUME NEW n \in Deliverable(p), Receive(p, n) PROVE Does(p)
  <2>1. n \in DOMAIN net[p]
    BY DEF Deliverable
  <2> QED
    BY <1>2, <2>1, StartDakeDoes, IdentityDoes, AuthRDoes, AuthIDoes, IgnoringDoes,
       ReceiveOfflineDoes, ForOtherDoes, DataDoes, ReplyDoes, DisconnectedDoes,
       ErrorDoes DEF Receive
<1>3. MessageForOtherInstance(p) => Does(Other(p)) /\ Other(p) \in Peer
  BY OtherInstanceDoes, OtherPeer
<1> QED
  BY <1>1, <1>2, <1>3, QueryDoes, StartDakeDoes, PublishDoes, SendOfflineDoes, TextDoes,
     CloseDoes, IgnoringDoes, CrashOrIdleDoes, RestartDoes

-----------------------------------------------------------------------------
\* The type invariant holds in every state.
LEMMA TypeAlways == Spec => []TypeInv
<1>1. Init => TypeInv
  <2> SUFFICES ASSUME Init PROVE TypeInv
    OBVIOUS
  <2>1. NewConn \in Conn
    BY NewConnType
  <2>2. <<>> \in Seq(Message) /\ <<>> \in Seq(Session)
    OBVIOUS
  <2>3. count \in CountType /\ drawn \in 0 .. MaxKeys
    BY BoundsAssumption DEF Init, CountType
  <2> QED
    BY <2>1, <2>2, <2>3, Zenon DEF Init, TypeInv
<1>2. TypeInv /\ [Next]_vars => TypeInv'
  <2>1. TypeInv /\ Next => TypeInv'
    BY NextDoes DEF Does, Local
  <2>2. TypeInv /\ UNCHANGED vars => TypeInv'
    BY Zenon DEF vars, TypeInv
  <2> QED
    BY <2>1, <2>2
<1> QED
  BY <1>1, <1>2, PTL DEF Spec

\* The type invariant of the conversations, the messages, the keys and the
\* sessions.
THEOREM TypeCorrect == Spec => []TypeOK
<1>1. TypeInv => TypeOK
  BY DEF TypeInv, TypeOK, CountType
<1> QED
  BY <1>1, TypeAlways, PTL

-----------------------------------------------------------------------------
(***************************************************************************)
(* Agreement.                                                              *)
(***************************************************************************)

\* A new session.
LEMMA AppendSessions ==
  ASSUME TypeInv, NEW p \in Peer, NEW s \in Session,
         established'[p] = Append(established[p], s)
  PROVE  Sessions(p)' = Sessions(p) \cup {s}
<1> DEFINE e == established[p]
           n == Len(e) + 1
<1>1. e \in Seq(Session) /\ Len(e) \in Nat /\ DOMAIN e = 1 .. Len(e)
  BY DEF TypeInv
<1>2. /\ DOMAIN established'[p] = 1 .. n
      /\ established'[p][n] = s
      /\ \A k \in 1 .. Len(e) : established'[p][k] = e[k]
  BY <1>1
<1>3. \A k \in 1 .. n : k = n \/ k \in 1 .. Len(e)
  BY <1>1
<1>4. n \in 1 .. n /\ \A k \in 1 .. Len(e) : k \in 1 .. n
  BY <1>1
<1> HIDE DEF n
<1>5. \A x : x \in Sessions(p)' => x \in Sessions(p) \cup {s}
  BY <1>1, <1>2, <1>3 DEF Sessions
<1>6. \A x : x \in Sessions(p) \cup {s} => x \in Sessions(p)'
  BY <1>1, <1>2, <1>4 DEF Sessions
<1> QED
  BY <1>5, <1>6

\* What a step does to the sessions.
LEMMA SessionsGrow ==
  ASSUME TypeInv, NEW p \in Peer, NEW v, NEW out, Local(p, v, out)
  PROVE  /\ Sessions(Other(p))' = Sessions(Other(p))
         /\ established'[p] = established[p] => Sessions(p)' = Sessions(p)
         /\ \A s \in Session : Establishes(p, s) => Sessions(p)' = Sessions(p) \cup {s}
<1>1. established'[Other(p)] = established[Other(p)]
  BY DEF Local
<1> QED
  BY <1>1, AppendSessions DEF Sessions, Establishes

LEMMA SessionFields ==
  ASSUME TypeInv, NEW p \in Peer, NEW s \in Sessions(p)
  PROVE  s \in Session /\ s.offline \in BOOLEAN /\ s.role \in {"t", "u"} /\ s.secret \in Secret
<1>1. established[p] \in Seq(Session)
  BY DEF TypeInv
<1>2. s \in Session
  BY <1>1 DEF Sessions
<1> QED
  BY <1>2 DEF Session

\* Auth-I is sent by a peer that has finished the DAKE, and Non-Interactive-Auth
\* by one that has.
MessageTold(m, p) ==
  /\ m.type = "auth_i" =>
       \E o \in Sessions(Other(p)) : o.of = m.of /\ o.role = "u" /\ ~o.offline
  /\ m.type = "non_int_auth" =>
       \E o \in Sessions(Other(p)) : /\ o.of = <<m.prekey, m.prekey, m.ecdh, m.dh>>
                                      /\ o.role = "t" /\ o.offline

Told == \A p \in Peer : \A m \in Elems(net[p]) : MessageTold(m, p)

\* What s needs of the other peer's sessions.
Answered(s, p) ==
  /\ s.role = "t" /\ ~s.offline =>
       \E o \in Sessions(Other(p)) : o.of = s.of /\ o.role = "u" /\ ~o.offline
  /\ s.role = "u" /\ s.offline =>
       \E o \in Sessions(Other(p)) : o.of = s.of /\ o.role = "t" /\ o.offline

AgreementInv == Told /\ \A p \in Peer : \A s \in Sessions(p) : Answered(s, p)

LEMMA AgreementStep ==
  ASSUME TypeInv, AgreementInv, NEW p \in Peer, Does(p)
  PROVE  AgreementInv'
<1>1. PICK v \in Fresh \cup {NoKey}, out \in Seq(Message) :
        /\ Local(p, v, out)
        /\ \/ StartsDake(p, v, out) \/ AnswersIdentity(p, v, out)
           \/ Publishes(p, v, out) \/ GoesOn(p, v, out) \/ Resets(p, out)
           \/ \E s \in Session :
                \/ FinishesAsU(p, s, out) \/ FinishesAsT(p, s, v, out)
                \/ FinishesOfflineT(p, s, v, out) \/ FinishesOfflineU(p, s, out)
  BY DEF Does
<1>2. /\ Other(p) \in Peer /\ Other(p) # p /\ Other(Other(p)) = p
      /\ \A q \in Peer : q = p \/ q = Other(p)
  BY OtherPeer
<1>3. Adds(p, out)
  BY <1>1 DEF Local
\* It is enough to look at what is new.
<1>4. ASSUME \A q \in Peer : Sessions(q) \subseteq Sessions(q)',
             \A m \in Elems(out) : MessageTold(m, Other(p))',
             \A s \in Sessions(p)' : s \in Sessions(p) \/ Answered(s, p)',
             Sessions(Other(p))' = Sessions(Other(p))
      PROVE  AgreementInv'
  <2>1. ASSUME NEW q \in Peer, NEW m, MessageTold(m, q) PROVE MessageTold(m, q)'
    <3>1. Sessions(Other(q)) \subseteq Sessions(Other(q))'
      BY <1>4, OtherPeer
    <3> QED
      BY <2>1, <3>1, Zenon DEF MessageTold
  <2>2. ASSUME NEW q \in Peer, NEW s, Answered(s, q) PROVE Answered(s, q)'
    <3>1. Sessions(Other(q)) \subseteq Sessions(Other(q))'
      BY <1>4, OtherPeer
    <3> QED
      BY <2>2, <3>1, Zenon DEF Answered
  <2>3. Told'
    <3> SUFFICES ASSUME NEW q \in Peer, NEW m \in Elems(net'[q]) PROVE MessageTold(m, q)'
      BY Zenon DEF Told
    <3>1. m \in Elems(net[q]) \/ (q = Other(p) /\ m \in Elems(out))
      BY <1>3 DEF Adds
    <3> QED
      BY <1>4, <2>1, <3>1, Zenon DEF AgreementInv, Told
  <2>4. ASSUME NEW q \in Peer, NEW s \in Sessions(q)' PROVE Answered(s, q)'
    BY <1>2, <1>4, <2>2, Zenon DEF AgreementInv
  <2> QED
    BY <2>3, <2>4, Zenon DEF AgreementInv
<1>5. CASE \/ StartsDake(p, v, out) \/ AnswersIdentity(p, v, out)
           \/ Publishes(p, v, out) \/ GoesOn(p, v, out) \/ Resets(p, out)
  <2>1. established'[p] = established[p]
    BY <1>5 DEF StartsDake, AnswersIdentity, Publishes, GoesOn, Resets, KeepsSessions
  <2>2. Sessions(p)' = Sessions(p) /\ Sessions(Other(p))' = Sessions(Other(p))
    BY <1>1, <2>1, SessionsGrow
  <2>3. \A m \in Elems(out) : m.type \notin {"auth_i", "non_int_auth"}
    BY <1>5 DEF StartsDake, AnswersIdentity, Publishes, GoesOn, Resets, Plain
  <2>4. \A m \in Elems(out) : MessageTold(m, Other(p))'
    BY <2>3 DEF MessageTold
  <2> QED
    BY <1>2, <1>4, <2>2, <2>4, Zenon
<1>6. ASSUME NEW s \in Session, Establishes(p, s),
             Answered(s, p)', \A m \in Elems(out) : s \in Sessions(p)' => MessageTold(m, Other(p))'
      PROVE  AgreementInv'
  <2>1. Sessions(p)' = Sessions(p) \cup {s} /\ Sessions(Other(p))' = Sessions(Other(p))
    BY <1>1, <1>6, SessionsGrow
  <2> QED
    BY <1>2, <1>4, <1>6, <2>1, Zenon
<1>7. ASSUME NEW s \in Session, FinishesAsU(p, s, out) PROVE AgreementInv'
  <2>1. Establishes(p, s) /\ s.role = "u" /\ ~s.offline
        /\ \A m \in Elems(out) : m.type = "auth_i" /\ m.of = s.of
    BY <1>7 DEF FinishesAsU
  <2>2. Answered(s, p)'
    BY <2>1 DEF Answered
  <2>3. \A m \in Elems(out) : s \in Sessions(p)' => MessageTold(m, Other(p))'
    <3>1. "auth_i" # "non_int_auth"
      OBVIOUS
    <3> QED
      BY <1>2, <2>1, <3>1, Zenon DEF MessageTold
  <2> QED
    BY <1>6, <2>1, <2>2, <2>3
<1>8. ASSUME NEW s \in Session, FinishesAsT(p, s, v, out) PROVE AgreementInv'
  <2>1. Establishes(p, s) /\ s.role = "t" /\ Plain(out)
    BY <1>8 DEF FinishesAsT
  <2>2. PICK m \in Elems(net[p]) : m.type = "auth_i" /\ m.of = s.of
    BY <1>8 DEF FinishesAsT
  <2>3. Sessions(Other(p))' = Sessions(Other(p))
    BY <1>1, SessionsGrow
  <2>4. \E o \in Sessions(Other(p))' : o.of = s.of /\ o.role = "u" /\ ~o.offline
    <3>1. MessageTold(m, p)
      BY DEF AgreementInv, Told
    <3> QED
      BY <2>2, <2>3, <3>1 DEF MessageTold
  <2>5. Answered(s, p)'
    BY <2>1, <2>4 DEF Answered
  <2>6. \A x \in Elems(out) : MessageTold(x, Other(p))'
    BY <2>1 DEF Plain, MessageTold
  <2> QED
    BY <1>6, <2>1, <2>5, <2>6
<1>9. ASSUME NEW s \in Session, FinishesOfflineT(p, s, v, out) PROVE AgreementInv'
  <2>1. Establishes(p, s) /\ s.role = "t" /\ s.offline
        /\ \A m \in Elems(out) : /\ m.type = "non_int_auth"
                                 /\ s.of = <<m.prekey, m.prekey, m.ecdh, m.dh>>
    BY <1>9 DEF FinishesOfflineT
  <2>2. Answered(s, p)'
    BY <2>1 DEF Answered
  <2>3. \A m \in Elems(out) : s \in Sessions(p)' => MessageTold(m, Other(p))'
    <3>1. "auth_i" # "non_int_auth"
      OBVIOUS
    <3> QED
      BY <1>2, <2>1, <3>1, Zenon DEF MessageTold
  <2> QED
    BY <1>6, <2>1, <2>2, <2>3
<1>10. ASSUME NEW s \in Session, FinishesOfflineU(p, s, out) PROVE AgreementInv'
  <2>1. Establishes(p, s) /\ s.role = "u" /\ Elems(out) = {}
    BY <1>10 DEF FinishesOfflineU
  <2>2. PICK m \in Elems(net[p]) : /\ m.type = "non_int_auth"
                                    /\ s.of = <<m.prekey, m.prekey, m.ecdh, m.dh>>
    BY <1>10 DEF FinishesOfflineU
  <2>3. Sessions(Other(p))' = Sessions(Other(p))
    BY <1>1, SessionsGrow
  <2>4. \E o \in Sessions(Other(p))' : o.of = s.of /\ o.role = "t" /\ o.offline
    <3>1. MessageTold(m, p)
      BY DEF AgreementInv, Told
    <3> QED
      BY <2>2, <2>3, <3>1 DEF MessageTold
  <2>5. Answered(s, p)'
    BY <2>1, <2>4 DEF Answered
  <2> QED
    BY <1>6, <2>1, <2>5
<1> QED
  BY <1>1, <1>5, <1>7, <1>8, <1>9, <1>10

\* A peer that finishes an interactive DAKE as "t" shares its four public keys
\* with one that finished it as "u", and a peer that finishes a non-interactive
\* one as "u" with one that started it: whatever is lost, duplicated, reordered
\* or replayed, and however often the clients restart.
THEOREM DakesAgree == Spec => []Agreement
<1>1. Init => AgreementInv
  <2> SUFFICES ASSUME Init PROVE AgreementInv
    OBVIOUS
  <2>1. \A p \in Peer : net[p] = <<>> /\ established[p] = <<>>
    BY DEF Init
  <2>2. \A p \in Peer : Elems(net[p]) = {} /\ Sessions(p) = {}
    BY <2>1, FewElems DEF Sessions
  <2> QED
    BY <2>2, Zenon DEF AgreementInv, Told
<1>2. TypeInv /\ AgreementInv /\ [Next]_vars => AgreementInv'
  <2>1. TypeInv /\ AgreementInv /\ Next => AgreementInv'
    BY NextDoes, AgreementStep
  <2>2. AgreementInv /\ UNCHANGED vars => AgreementInv'
    <3> SUFFICES ASSUME AgreementInv, UNCHANGED vars PROVE AgreementInv'
      OBVIOUS
    <3>1. net' = net /\ \A p : Sessions(p)' = Sessions(p)
      BY DEF vars, Sessions
    <3>2. \A m, p : MessageTold(m, p) => MessageTold(m, p)'
      BY <3>1 DEF MessageTold
    <3>3. \A s, p : Answered(s, p) => Answered(s, p)'
      BY <3>1 DEF Answered
    <3> QED
      BY <3>1, <3>2, <3>3, Zenon DEF AgreementInv, Told
  <2> QED
    BY <2>1, <2>2
<1>3. TypeInv /\ AgreementInv => Agreement
  <2> SUFFICES ASSUME TypeInv, AgreementInv, NEW p \in Peer, NEW s \in Sessions(p),
                      s.offline = (s.role = "u")
               PROVE  \E o \in Sessions(Other(p)) : /\ o.of = s.of /\ o.role # s.role
                                                     /\ o.offline = s.offline
    BY Zenon DEF Agreement
  <2>1. Answered(s, p) /\ s.offline \in BOOLEAN /\ s.role \in {"t", "u"}
    BY SessionFields DEF AgreementInv
  <2>2. \A o \in Sessions(Other(p)) : o.offline \in BOOLEAN
    BY SessionFields, OtherPeer
  <2>3. "t" # "u"
    OBVIOUS
  <2>4. CASE s.role = "u"
    <3>1. s.offline
      BY <2>4, Zenon
    <3>2. PICK o \in Sessions(Other(p)) : o.of = s.of /\ o.role = "t" /\ o.offline
      BY <2>1, <2>4, <3>1 DEF Answered
    <3>3. o.offline = s.offline
      BY <2>1, <2>2, <3>1, <3>2
    <3> QED
      BY <2>3, <2>4, <3>2, <3>3, Zenon
  <2>5. CASE s.role = "t"
    <3>1. ~s.offline
      BY <2>3, <2>5, Zenon
    <3>2. PICK o \in Sessions(Other(p)) : o.of = s.of /\ o.role = "u" /\ ~o.offline
      BY <2>1, <2>5, <3>1 DEF Answered
    <3>3. o.offline = s.offline
      BY <2>1, <2>2, <3>1, <3>2
    <3> QED
      BY <2>3, <2>5, <3>2, <3>3, Zenon
  <2> QED
    BY <2>1, <2>4, <2>5
<1> QED
  BY <1>1, <1>2, <1>3, TypeAlways, PTL DEF Spec

-----------------------------------------------------------------------------
(***************************************************************************)
(* Sessions are fresh.                                                     *)
(***************************************************************************)

\* The keys of p's sessions, past and present.
Used(p) == UNION {s.secret.ecdh : s \in Sessions(p)}

\* p waits for the other peer's part of an interactive DAKE.
Waits(c) == c.state \in {"WAITING_AUTH_R", "WAITING_AUTH_I"}

\* The two peers have different keys, a prekey that is still stored was never used
\* by its owner, and neither was the key of a DAKE that is under way.
PeerKeys(p) ==
  LET c == conn[p]
  IN /\ Owned(p) \subseteq DrawnKeys
     /\ Owned(p) \cap Owned(Other(p)) \subseteq {NoKey}
     /\ Used(p) \subseteq DrawnKeys
     /\ NoKey \notin prekeys[p]
     /\ Used(p) \cap prekeys[p] = {}
     /\ Waits(c) => c.ecdh \notin Used(p) /\ c.ecdh \notin prekeys[p]
     /\ c.state = "WAITING_AUTH_I" => c.shared_secret.ecdh = {c.ecdh, c.their_ecdh}

KeysInv == (\A p \in Peer : PeerKeys(p)) /\ SessionsFresh

\* The keys that p comes to own are the one it draws.
LEMMA OwnedStep ==
  ASSUME TypeInv, NEW p \in Peer, NEW v, NEW out, Local(p, v, out),
         conn'[p].ecdh \in Owned(p) \cup {v, NoKey},
         conn'[p].their_ecdh \in Owned(Other(p)) \cup {NoKey},
         prekeys'[p] \subseteq prekeys[p] \cup {v},
         published'[p] \subseteq published[p] \cup {v},
         \A m \in Elems(out) : MessageKeys(m) \subseteq {v}
  PROVE  /\ Owned(p)' \subseteq Owned(p) \cup {v, NoKey}
         /\ Owned(Other(p))' \subseteq Owned(Other(p)) \cup {NoKey}
<1> DEFINE q == Other(p)
<1>1. q \in Peer /\ q # p /\ Other(q) = p
  BY OtherPeer
<1>2. /\ conn'[q] = conn[q] /\ prekeys'[q] = prekeys[q] /\ published'[q] = published[q]
      /\ Adds(p, out)
  BY DEF Local
<1> HIDE DEF q
<1>3. \A m \in Elems(net'[q]) : m \in Elems(net[q]) \/ m \in Elems(out)
  BY <1>1, <1>2 DEF Adds
<1>4. \A m \in Elems(net'[p]) : m \in Elems(net[p])
  BY <1>1, <1>2 DEF Adds, q
<1>5. \A k \in Owned(p)' : k \in Owned(p) \cup {v, NoKey}
  <2> SUFFICES ASSUME NEW k \in Owned(p)' PROVE k \in Owned(p) \cup {v, NoKey}
    OBVIOUS
  <2>1. \/ k \in {conn'[p].ecdh, conn'[q].their_ecdh} \cup prekeys'[p] \cup published'[p]
        \/ \E m \in Elems(net'[q]) : k \in MessageKeys(m)
    BY DEF Owned, q
  <2>2. ASSUME NEW m \in Elems(net'[q]), k \in MessageKeys(m)
        PROVE  k \in Owned(p) \cup {v, NoKey}
    BY <1>3, <2>2 DEF Owned, q
  <2>3. conn[q].their_ecdh \in Owned(p) /\ prekeys[p] \subseteq Owned(p)
        /\ published[p] \subseteq Owned(p)
    BY DEF Owned, q
  <2> QED
    BY <1>2, <2>1, <2>2, <2>3
<1>6. \A k \in Owned(q)' : k \in Owned(q) \cup {NoKey}
  <2> SUFFICES ASSUME NEW k \in Owned(q)' PROVE k \in Owned(q) \cup {NoKey}
    OBVIOUS
  <2>1. \/ k \in {conn'[q].ecdh, conn'[p].their_ecdh} \cup prekeys'[q] \cup published'[q]
        \/ \E m \in Elems(net'[p]) : k \in MessageKeys(m)
    BY <1>1 DEF Owned
  <2>2. ASSUME NEW m \in Elems(net'[p]), k \in MessageKeys(m)
        PROVE  k \in Owned(q)
    BY <1>1, <1>4, <2>2 DEF Owned
  <2>3. conn[q].ecdh \in Owned(q) /\ prekeys[q] \subseteq Owned(q)
        /\ published[q] \subseteq Owned(q)
    BY DEF Owned
  <2> QED
    BY <1>2, <2>1, <2>2, <2>3 DEF q
<1> QED
  BY <1>5, <1>6 DEF q

\* What p can take from the other peer is not its own.
LEMMA TheirKeysOwned ==
  ASSUME NEW p \in Peer
  PROVE  /\ conn[p].their_ecdh \in Owned(Other(p))
         /\ published[Other(p)] \subseteq Owned(Other(p))
         /\ \A m \in Elems(net[p]) : MessageKeys(m) \subseteq Owned(Other(p))
         /\ conn[p].ecdh \in Owned(p) /\ prekeys[p] \subseteq Owned(p)
  BY OtherPeer DEF Owned

\* The keys stay apart.
LEMMA ApartStep ==
  ASSUME TypeInv, \A q \in Peer : PeerKeys(q), NEW p \in Peer,
         NEW v \in Fresh \cup {NoKey}, NEW out, Local(p, v, out),
         Owned(p)' \subseteq Owned(p) \cup {v, NoKey},
         Owned(Other(p))' \subseteq Owned(Other(p)) \cup {NoKey}
  PROVE  /\ \A q \in Peer : /\ Owned(q)' \subseteq DrawnKeys'
                            /\ Owned(q)' \cap Owned(Other(q))' \subseteq {NoKey}
         /\ DrawnKeys \subseteq DrawnKeys'
         /\ v # NoKey => v \in DrawnKeys' /\ v \notin DrawnKeys
<1>1. /\ Other(p) \in Peer /\ Other(p) # p /\ Other(Other(p)) = p
      /\ \A q \in Peer : q = p \/ q = Other(p)
  BY OtherPeer
<1>2. /\ \A q \in Peer : Owned(q) \subseteq DrawnKeys
      /\ Owned(p) \cap Owned(Other(p)) \subseteq {NoKey}
  BY DEF PeerKeys
<1>3. /\ DrawnKeys \subseteq DrawnKeys' /\ NoKey \in DrawnKeys' /\ v \in DrawnKeys'
      /\ v # NoKey => v \notin DrawnKeys
  <2>1. CASE v = NoKey
    <3>1. drawn' = drawn
      <4>1. drawn \in Nat /\ (v \in Fresh => v # NoKey)
        BY BoundsAssumption, FreshKeys DEF TypeInv
      <4> QED
        BY <2>1, <4>1 DEF Local
    <3> QED
      BY <2>1, <3>1 DEF DrawnKeys
  <2>2. CASE v \in Fresh
    <3>1. v # NoKey /\ drawn' = drawn + 1
      BY <2>2, FreshKeys DEF TypeInv, Local
    <3> QED
      BY <2>2, <3>1, FreshKeys DEF TypeInv, DrawnKeys
  <2> QED
    BY <2>1, <2>2
<1>4. \A q \in Peer : Owned(q)' \subseteq DrawnKeys'
  BY <1>1, <1>2, <1>3
<1>5. Owned(p)' \cap Owned(Other(p))' \subseteq {NoKey}
  BY <1>1, <1>2, <1>3
<1>6. \A q \in Peer : Owned(q)' \cap Owned(Other(q))' \subseteq {NoKey}
  BY <1>1, <1>5
<1> QED
  BY <1>3, <1>4, <1>6

\* A session with a key that no session of p had is a new one.
LEMMA FreshStep ==
  ASSUME TypeInv, SessionsFresh, NEW p \in Peer, NEW v, NEW out, Local(p, v, out),
         \/ established'[p] = established[p]
         \/ \E s \in Session : /\ established'[p] = Append(established[p], s)
                               /\ \E x \in s.secret.ecdh : x \notin Used(p)
  PROVE  SessionsFresh'
<1> SUFFICES ASSUME NEW q \in Peer, NEW m \in DOMAIN established'[q],
                    NEW n \in DOMAIN established'[q], m # n
             PROVE  established'[q][m].secret # established'[q][n].secret
  BY DEF SessionsFresh
<1>1. CASE established'[q] = established[q]
  BY <1>1 DEF SessionsFresh
<1>2. CASE established'[q] # established[q]
  <2>1. q = p
    BY <1>2, OtherPeer DEF Local
  <2>2. PICK s \in Session : /\ established'[p] = Append(established[p], s)
                             /\ \E x \in s.secret.ecdh : x \notin Used(p)
    BY <1>2, <2>1
  <2> DEFINE e == established[p]
  <2>3. e \in Seq(Session) /\ Len(e) \in Nat /\ DOMAIN e = 1 .. Len(e)
    BY DEF TypeInv
  <2>4. /\ DOMAIN established'[p] = 1 .. Len(e) + 1
        /\ established'[p][Len(e) + 1] = s
        /\ \A k \in 1 .. Len(e) : established'[p][k] = e[k]
    BY <2>2, <2>3
  <2>5. \A k \in 1 .. Len(e) : e[k].secret # s.secret
    <3> SUFFICES ASSUME NEW k \in 1 .. Len(e) PROVE e[k].secret # s.secret
      OBVIOUS
    <3>1. e[k] \in Sessions(p)
      BY <2>3 DEF Sessions
    <3>2. e[k].secret.ecdh \subseteq Used(p)
      BY <3>1 DEF Used
    <3> QED
      BY <2>2, <3>2
  <2>6. m \in 1 .. Len(e) + 1 /\ n \in 1 .. Len(e) + 1
    BY <2>1, <2>4
  <2>7. CASE m = Len(e) + 1
    <3>1. n \in 1 .. Len(e)
      BY <2>3, <2>6, <2>7
    <3> QED
      BY <2>1, <2>4, <2>5, <2>7, <3>1
  <2>8. CASE n = Len(e) + 1
    <3>1. m \in 1 .. Len(e)
      BY <2>3, <2>6, <2>8
    <3> QED
      BY <2>1, <2>4, <2>5, <2>8, <3>1
  <2>9. CASE m # Len(e) + 1 /\ n # Len(e) + 1
    <3>1. m \in 1 .. Len(e) /\ n \in 1 .. Len(e)
      BY <2>3, <2>6, <2>9
    <3> QED
      BY <2>1, <2>3, <2>4, <3>1, SMTT(30) DEF SessionsFresh
  <2> QED
    BY <2>7, <2>8, <2>9
<1> QED
  BY <1>1, <1>2

\* The other peer's keys.
LEMMA OtherKeys ==
  ASSUME TypeInv, \A q \in Peer : PeerKeys(q), NEW p \in Peer, NEW v, NEW out,
         Local(p, v, out), DrawnKeys \subseteq DrawnKeys',
         \A q \in Peer : /\ Owned(q)' \subseteq DrawnKeys'
                         /\ Owned(q)' \cap Owned(Other(q))' \subseteq {NoKey}
  PROVE  PeerKeys(Other(p))'
<1> DEFINE q == Other(p)
<1>1. q \in Peer /\ PeerKeys(q)
  BY OtherPeer
<1>2. /\ conn'[q] = conn[q] /\ prekeys'[q] = prekeys[q]
      /\ Sessions(q)' = Sessions(q)
  BY SessionsGrow DEF Local
<1> HIDE DEF q
<1>3. Used(q)' = Used(q)
  BY <1>2 DEF Used
<1>4. PeerKeys(q)'
  BY <1>1, <1>2, <1>3 DEF PeerKeys
<1> QED
  BY <1>4 DEF q

LEMMA KeysStep ==
  ASSUME TypeInv, KeysInv, NEW p \in Peer, Does(p)
  PROVE  KeysInv'
<1>1. PICK v \in Fresh \cup {NoKey}, out \in Seq(Message) :
        /\ Local(p, v, out)
        /\ \/ StartsDake(p, v, out) \/ AnswersIdentity(p, v, out)
           \/ Publishes(p, v, out) \/ GoesOn(p, v, out) \/ Resets(p, out)
           \/ \E s \in Session :
                \/ FinishesAsU(p, s, out) \/ FinishesAsT(p, s, v, out)
                \/ FinishesOfflineT(p, s, v, out) \/ FinishesOfflineU(p, s, out)
  BY DEF Does
<1> DEFINE c == conn[p]
           d == conn'[p]
           q == Other(p)
<1>2. /\ q \in Peer /\ \A r \in Peer : r = p \/ r = q
      /\ \A r \in Peer : PeerKeys(r)
      /\ SessionsFresh
  BY OtherPeer DEF KeysInv
<1>3. /\ Owned(p) \subseteq DrawnKeys /\ Owned(q) \subseteq DrawnKeys
      /\ Owned(p) \cap Owned(q) \subseteq {NoKey}
      /\ Used(p) \subseteq DrawnKeys
      /\ NoKey \notin prekeys[p]
      /\ Used(p) \cap prekeys[p] = {}
      /\ Waits(c) => c.ecdh \notin Used(p) /\ c.ecdh \notin prekeys[p]
      /\ c.state = "WAITING_AUTH_I" => c.shared_secret.ecdh = {c.ecdh, c.their_ecdh}
  BY <1>2 DEF PeerKeys
<1>4. /\ c.their_ecdh \in Owned(q) /\ published[q] \subseteq Owned(q)
      /\ \A m \in Elems(net[p]) : MessageKeys(m) \subseteq Owned(q)
      /\ c.ecdh \in Owned(p) /\ prekeys[p] \subseteq Owned(p)
  BY TheirKeysOwned
<1>5. v \in Fresh => v # NoKey /\ v \notin DrawnKeys
  BY FreshKeys DEF TypeInv
\* A step that establishes nothing.
<1>6. ASSUME established'[p] = established[p],
             d.ecdh \in Owned(p) \cup {v, NoKey}, d.their_ecdh \in Owned(q) \cup {NoKey},
             \/ prekeys'[p] = prekeys[p]
             \/ v \in Fresh /\ prekeys'[p] = prekeys[p] \cup {v},
             published'[p] \subseteq published[p] \cup {v},
             \A m \in Elems(out) : MessageKeys(m) \subseteq {v},
             Waits(d) => \/ Waits(c) /\ d.ecdh = c.ecdh
                         \/ v \in Fresh /\ d.ecdh = v /\ prekeys'[p] = prekeys[p],
             d.state = "WAITING_AUTH_I" => d.shared_secret.ecdh = {d.ecdh, d.their_ecdh}
      PROVE  KeysInv'
  <2>1. /\ Owned(p)' \subseteq Owned(p) \cup {v, NoKey}
        /\ Owned(q)' \subseteq Owned(q) \cup {NoKey}
    BY <1>1, <1>6, OwnedStep
  <2>2. /\ \A r \in Peer : /\ Owned(r)' \subseteq DrawnKeys'
                           /\ Owned(r)' \cap Owned(Other(r))' \subseteq {NoKey}
        /\ DrawnKeys \subseteq DrawnKeys'
    BY <1>1, <1>2, <2>1, ApartStep
  <2>3. Sessions(p)' = Sessions(p)
    BY <1>1, <1>6, SessionsGrow
  <2>4. Used(p)' = Used(p)
    BY <2>3 DEF Used
  <2>5. PeerKeys(q)'
    BY <1>1, <1>2, <2>2, OtherKeys
  <2>6. NoKey \notin prekeys'[p] /\ Used(p)' \cap prekeys'[p] = {}
    BY <1>3, <1>5, <1>6, <2>4
  <2>7. Waits(d) => d.ecdh \notin Used(p)' /\ d.ecdh \notin prekeys'[p]
    BY <1>3, <1>4, <1>5, <1>6, <2>4
  <2>8. PeerKeys(p)'
    BY <1>3, <1>6, <2>2, <2>4, <2>6, <2>7 DEF PeerKeys
  <2>9. SessionsFresh'
    BY <1>1, <1>2, <1>6, FreshStep
  <2> QED
    BY <1>2, <2>5, <2>8, <2>9 DEF KeysInv
\* A step that establishes a session with key x of p and key y of the other.
<1>7. ASSUME NEW s \in Session, Establishes(p, s), NEW x, NEW y,
             s.secret.ecdh = {x, y}, y \in Owned(q),
             x \notin Used(p), x \notin prekeys'[p],
             x \in Owned(p) \/ (v \in Fresh /\ x = v),
             d.ecdh \in Owned(p) \cup {v, NoKey}, d.their_ecdh \in Owned(q),
             prekeys'[p] \subseteq prekeys[p],
             \A m \in Elems(out) : MessageKeys(m) \subseteq {v}
      PROVE  KeysInv'
  <2>1. published'[p] = published[p] /\ ~Waits(d)
        /\ established'[p] = Append(established[p], s)
    BY <1>7 DEF Establishes, Waits
  <2>2. /\ Owned(p)' \subseteq Owned(p) \cup {v, NoKey}
        /\ Owned(q)' \subseteq Owned(q) \cup {NoKey}
    BY <1>1, <1>7, <2>1, OwnedStep
  <2>3. /\ \A r \in Peer : /\ Owned(r)' \subseteq DrawnKeys'
                           /\ Owned(r)' \cap Owned(Other(r))' \subseteq {NoKey}
        /\ DrawnKeys \subseteq DrawnKeys' /\ (v # NoKey => v \in DrawnKeys')
    BY <1>1, <1>2, <2>2, ApartStep
  <2>4. Sessions(p)' = Sessions(p) \cup {s}
    BY <1>1, <1>7, SessionsGrow
  <2>5. Used(p)' = Used(p) \cup {x, y}
    BY <1>7, <2>4 DEF Used
  <2>6. PeerKeys(q)'
    BY <1>1, <1>2, <2>3, OtherKeys
  <2>7. y \notin prekeys'[p]
    BY <1>3, <1>4, <1>7
  <2>8. NoKey \notin prekeys'[p] /\ Used(p)' \cap prekeys'[p] = {}
    BY <1>3, <1>7, <2>5, <2>7
  <2>9. Used(p)' \subseteq DrawnKeys'
    BY <1>3, <1>5, <1>7, <2>3, <2>5
  <2>10. PeerKeys(p)'
    BY <2>1, <2>3, <2>8, <2>9 DEF PeerKeys, Waits
  <2>11. SessionsFresh'
    <3>1. \E x0 \in s.secret.ecdh : x0 \notin Used(p)
      BY <1>7
    <3> QED
      BY <1>1, <1>2, <2>1, <3>1, FreshStep
  <2> QED
    BY <1>2, <2>6, <2>10, <2>11 DEF KeysInv
<1> HIDE DEF c, d, q
<1>8. \A m \in Elems(out) : m.type \in {"query", "error", "data", "auth_i"} =>
        MessageKeys(m) \subseteq {v}
  BY DEF MessageKeys
<1>9. \A m \in Elems(out) : m.type \in {"identity", "auth_r", "non_int_auth"} /\ m.ecdh = v
        => MessageKeys(m) \subseteq {v}
  BY DEF MessageKeys
<1>10. \A m \in Elems(net[p]) : m.type \in {"identity", "auth_r", "non_int_auth"} =>
         m.ecdh \in Owned(q)
  BY <1>4 DEF MessageKeys
<1>11. CASE StartsDake(p, v, out)
  <2>1. /\ established'[p] = established[p] /\ prekeys'[p] = prekeys[p]
        /\ published'[p] = published[p] /\ v \in Fresh
        /\ d.state = "WAITING_AUTH_R" /\ d.ecdh = v /\ d.their_ecdh = c.their_ecdh
        /\ \A m \in Elems(out) : m.type = "identity" /\ m.ecdh = v
    BY <1>11 DEF StartsDake, KeepsSessions, c, d
  <2> QED
    BY <1>4, <1>6, <1>9, <2>1
<1>12. CASE AnswersIdentity(p, v, out)
  <2>1. /\ established'[p] = established[p] /\ prekeys'[p] = prekeys[p]
        /\ published'[p] = published[p] /\ v \in Fresh /\ d.ecdh = v
        /\ d.shared_secret.ecdh = {d.ecdh, d.their_ecdh}
        /\ \A m \in Elems(out) : m.type = "auth_r" /\ m.ecdh = v
        /\ \E m \in Elems(net[p]) : m.type = "identity" /\ d.their_ecdh = m.ecdh
    BY <1>12 DEF AnswersIdentity, KeepsSessions, d
  <2>2. d.their_ecdh \in Owned(q)
    BY <1>10, <2>1
  <2> QED
    BY <1>6, <1>9, <2>1, <2>2
<1>13. CASE Publishes(p, v, out)
  <2>1. /\ established'[p] = established[p] /\ prekeys'[p] = prekeys[p] \cup {v}
        /\ published'[p] = published[p] \cup {v} /\ v \in Fresh /\ d = c
        /\ Elems(out) = {}
    BY <1>13 DEF Publishes, c, d
  <2> QED
    BY <1>3, <1>4, <1>6, <2>1
<1>14. CASE GoesOn(p, v, out)
  <2>1. /\ established'[p] = established[p] /\ prekeys'[p] = prekeys[p]
        /\ published'[p] = published[p] /\ Plain(out)
        /\ d.their_ecdh = c.their_ecdh /\ d.shared_secret = c.shared_secret
        /\ d.ecdh = c.ecdh \/ (d.ecdh = v /\ c.state = "ENCRYPTED_MESSAGES")
        /\ \/ d.state = c.state
           \/ d.state \in {"CRASHED", "ENCRYPTED_MESSAGES"}
    BY <1>14 DEF GoesOn, KeepsSessions, c, d
  <2>2. Waits(d) => Waits(c) /\ d.ecdh = c.ecdh /\ d.state = c.state
    BY <2>1 DEF Waits
  <2>3. d.state = "WAITING_AUTH_I" => d.shared_secret.ecdh = {d.ecdh, d.their_ecdh}
    BY <1>3, <2>1, <2>2 DEF Waits
  <2>4. \A m \in Elems(out) : MessageKeys(m) \subseteq {v}
    BY <1>8, <2>1 DEF Plain
  <2> QED
    BY <1>4, <1>6, <2>1, <2>2, <2>3, <2>4
<1>15. CASE Resets(p, out)
  <2>1. /\ established'[p] = established[p] /\ prekeys'[p] = prekeys[p]
        /\ published'[p] = published[p] /\ Plain(out)
        /\ d.ecdh = NoKey /\ d.their_ecdh = NoKey
        /\ d.state \in {"START", "FINISHED", "ENCRYPTED_MESSAGES"}
    BY <1>15 DEF Resets, KeepsSessions, d
  <2>2. ~Waits(d) /\ d.state # "WAITING_AUTH_I"
    BY <2>1 DEF Waits
  <2>3. \A m \in Elems(out) : MessageKeys(m) \subseteq {v}
    BY <1>8, <2>1 DEF Plain
  <2> QED
    BY <1>6, <2>1, <2>2, <2>3
<1>16. ASSUME NEW s \in Session, FinishesAsU(p, s, out) PROVE KeysInv'
  <2>1. /\ Establishes(p, s) /\ prekeys'[p] = prekeys[p] /\ c.state = "WAITING_AUTH_R"
        /\ d.ecdh = c.ecdh /\ s.secret.ecdh = {c.ecdh, d.their_ecdh}
        /\ \E m \in Elems(net[p]) : m.type = "auth_r" /\ d.their_ecdh = m.ecdh
        /\ \A m \in Elems(out) : m.type = "auth_i"
    BY <1>16 DEF FinishesAsU, c, d
  <2>2. d.their_ecdh \in Owned(q)
    BY <1>10, <2>1
  <2>3. Waits(c)
    BY <2>1 DEF Waits
  <2> QED
    BY <1>3, <1>4, <1>7, <1>8, <2>1, <2>2, <2>3
<1>17. ASSUME NEW s \in Session, FinishesAsT(p, s, v, out) PROVE KeysInv'
  <2>1. /\ Establishes(p, s) /\ prekeys'[p] = prekeys[p] /\ c.state = "WAITING_AUTH_I"
        /\ d.ecdh = v /\ d.their_ecdh = c.their_ecdh /\ s.secret = c.shared_secret
        /\ Plain(out)
    BY <1>17 DEF FinishesAsT, c, d
  <2>2. Waits(c) /\ s.secret.ecdh = {c.ecdh, c.their_ecdh}
    BY <1>3, <2>1 DEF Waits
  <2>3. \A m \in Elems(out) : MessageKeys(m) \subseteq {v}
    BY <1>8, <2>1 DEF Plain
  <2> QED
    BY <1>3, <1>4, <1>7, <2>1, <2>2, <2>3
<1>18. ASSUME NEW s \in Session, FinishesOfflineT(p, s, v, out) PROVE KeysInv'
  <2>1. /\ Establishes(p, s) /\ prekeys'[p] = prekeys[p] /\ v \in Fresh /\ d.ecdh = v
        /\ d.their_ecdh \in published[q] /\ s.secret.ecdh = {v, d.their_ecdh}
        /\ \A m \in Elems(out) : m.type = "non_int_auth" /\ m.ecdh = v
    BY <1>18 DEF FinishesOfflineT, d, q
  <2>2. v # NoKey /\ v \notin Used(p) /\ v \notin prekeys'[p] /\ d.their_ecdh \in Owned(q)
    BY <1>3, <1>4, <1>5, <2>1
  <2> QED
    BY <1>7, <1>9, <2>1, <2>2
<1>19. ASSUME NEW s \in Session, FinishesOfflineU(p, s, out) PROVE KeysInv'
  <2>1. Establishes(p, s) /\ Elems(out) = {}
    BY <1>19 DEF FinishesOfflineU
  <2>2. PICK m \in Elems(net[p]) :
          /\ m.type = "non_int_auth" /\ m.prekey \in prekeys[p]
          /\ prekeys'[p] = prekeys[p] \ {m.prekey}
          /\ d.ecdh = m.prekey /\ d.their_ecdh = m.ecdh
          /\ s.secret.ecdh = {m.prekey, m.ecdh}
    BY <1>19 DEF FinishesOfflineU, d
  <2>3. m.ecdh \in Owned(q) /\ m.prekey \notin Used(p) /\ m.prekey # NoKey
        /\ m.prekey \in Owned(p)
    BY <1>3, <1>4, <1>10, <2>2
  <2> QED
    BY <1>7, <2>1, <2>2, <2>3
<1> QED
  BY <1>1, <1>11, <1>12, <1>13, <1>14, <1>15, <1>16, <1>17, <1>18, <1>19

\* The keys stay apart in every state.
LEMMA KeysAlways == Spec => []KeysInv
<1>1. Init => KeysInv
  <2> SUFFICES ASSUME Init, NEW p \in Peer PROVE PeerKeys(p) /\ SessionsFresh
    BY DEF KeysInv, SessionsFresh, Init
  <2>1. \A q \in Peer : /\ conn[q].ecdh = NoKey /\ conn[q].their_ecdh = NoKey
                        /\ conn[q].state = "START" /\ net[q] = <<>>
                        /\ prekeys[q] = {} /\ published[q] = {} /\ established[q] = <<>>
    BY NewConnType DEF Init
  <2>2. \A q \in Peer : Owned(q) = {NoKey} /\ Used(q) = {}
    BY <2>1, FewElems, OtherPeer DEF Owned, Used, Sessions
  <2>3. SessionsFresh
    BY <2>1 DEF SessionsFresh
  <2>4. NoKey \in DrawnKeys /\ Other(p) \in Peer
    BY OtherPeer DEF DrawnKeys
  <2> QED
    BY <2>1, <2>2, <2>3, <2>4 DEF PeerKeys, Waits
<1>2. TypeInv /\ KeysInv /\ [Next]_vars => KeysInv'
  <2>1. TypeInv /\ KeysInv /\ Next => KeysInv'
    BY NextDoes, KeysStep
  <2>2. KeysInv /\ UNCHANGED vars => KeysInv'
    <3> SUFFICES ASSUME KeysInv, UNCHANGED vars PROVE KeysInv'
      OBVIOUS
    <3>1. /\ \A p : Owned(p)' = Owned(p) /\ Used(p)' = Used(p)
          /\ DrawnKeys' = DrawnKeys
      BY DEF vars, Owned, Used, Sessions, DrawnKeys
    <3>2. SessionsFresh'
      BY DEF vars, KeysInv, SessionsFresh
    <3>3. ASSUME NEW p \in Peer PROVE PeerKeys(p)'
      BY <3>1 DEF vars, KeysInv, PeerKeys
    <3> QED
      BY <3>2, <3>3 DEF KeysInv
  <2> QED
    BY <2>1, <2>2
<1> QED
  BY <1>1, <1>2, TypeAlways, PTL DEF Spec

\* No peer initialises two sessions from one secret: not for a replayed or
\* duplicated DAKE message, not for a prekey message that was fetched twice, and
\* not after a restart.
THEOREM SessionsAreFresh == Spec => []SessionsFresh
<1>1. KeysInv => SessionsFresh
  BY DEF KeysInv
<1> QED
  BY <1>1, KeysAlways, PTL

-----------------------------------------------------------------------------
(***************************************************************************)
(* The encrypted state.  A DISCONNECTED TLV in the first data message, and *)
(* a message for another instance, are the two ways around it that the     *)
(* code has; the theorems say that there is no other.                      *)
(***************************************************************************)

\* A peer that waits for the first data message is in a session too.
PeerSecure(p) ==
  /\ InDataPhase(conn[p]) => secure[p] /\ conn[p].session # NoSecret
  /\ \A m \in Elems(net[p]) : Expected(m)

PeerConfirmed(p) ==
  LET c == conn[p]
  IN /\ c.state = "WAITING_DAKE_DATA_MESSAGE" =>
          \E s \in Sessions(p) : s.secret = c.session
     /\ c.state = "ENCRYPTED_MESSAGES" =>
          \E s \in Sessions(p) :
            s.secret = c.session /\ (s.role = "t" \/ \E x \in got[p] : x[1] = s.secret)

SecureInv == \A p \in Peer : PeerSecure(p)

ConfirmedInv == \A p \in Peer : PeerConfirmed(p)

LEMMA SecureStep ==
  ASSUME "close" \notin Uses, TypeInv, KeysInv, SecureInv, NEW p \in Peer, Does(p)
  PROVE  SecureInv'
<1>1. PICK v \in Fresh \cup {NoKey}, out \in Seq(Message) :
        /\ Local(p, v, out)
        /\ \/ StartsDake(p, v, out) \/ AnswersIdentity(p, v, out)
           \/ Publishes(p, v, out) \/ GoesOn(p, v, out) \/ Resets(p, out)
           \/ \E s \in Session :
                \/ FinishesAsU(p, s, out) \/ FinishesAsT(p, s, v, out)
                \/ FinishesOfflineT(p, s, v, out) \/ FinishesOfflineU(p, s, out)
  BY DEF Does
<1> DEFINE c == conn[p]
           d == conn'[p]
           q == Other(p)
<1>2. /\ q \in Peer /\ \A r \in Peer : r = p \/ r = q
      /\ PeerSecure(p) /\ PeerSecure(q)
  BY OtherPeer DEF SecureInv
<1>3. /\ conn'[q] = conn[q] /\ secure'[q] = secure[q] /\ Adds(p, out)
      /\ \A m \in Elems(out) : Expected(m)
  BY <1>1 DEF Local
<1>4. \A r \in Peer : \A m \in Elems(net'[r]) : Expected(m)
  BY <1>2, <1>3 DEF PeerSecure, Adds
<1>5. PeerSecure(q)'
  BY <1>2, <1>3, <1>4, Zenon DEF PeerSecure
<1>6. ASSUME InDataPhase(d) => secure'[p] /\ d.session # NoSecret
      PROVE  SecureInv'
  BY <1>2, <1>4, <1>5, <1>6, Zenon DEF SecureInv, PeerSecure
<1> HIDE DEF c, d
<1>7. CASE StartsDake(p, v, out) \/ AnswersIdentity(p, v, out)
  <2>1. ~InDataPhase(d)
    BY <1>7 DEF StartsDake, AnswersIdentity, InDataPhase, d
  <2> QED
    BY <1>6, <2>1
<1>8. CASE Publishes(p, v, out) \/ GoesOn(p, v, out)
  <2>1. d.session = c.session /\ secure'[p] = secure[p] /\ (InDataPhase(d) => InDataPhase(c))
    BY <1>8, Zenon DEF Publishes, GoesOn, InDataPhase, c, d
  <2> QED
    BY <1>2, <1>6, <2>1 DEF PeerSecure, c
<1>9. CASE Resets(p, out)
  <2>1. \A m \in Elems(net[p]) : ~(m.type = "data" /\ m.kind = "disconnected")
    BY <1>2 DEF PeerSecure, Expected
  <2>2. ~InDataPhase(d)
    BY <1>9, <2>1 DEF Resets, InDataPhase, d
  <2> QED
    BY <1>6, <2>2
<1>10. ASSUME NEW s \in Session, \/ FinishesAsU(p, s, out) \/ FinishesAsT(p, s, v, out)
                                 \/ FinishesOfflineT(p, s, v, out)
                                 \/ FinishesOfflineU(p, s, out)
       PROVE  SecureInv'
  <2>1. Establishes(p, s)
    BY <1>10 DEF FinishesAsU, FinishesAsT, FinishesOfflineT, FinishesOfflineU
  <2>2. secure'[p] = TRUE /\ d.session = s.secret
    BY <2>1 DEF Establishes, d
  <2>3. \E x : x \in s.secret.ecdh
    <3>1. CASE FinishesAsU(p, s, out)
      BY <3>1 DEF FinishesAsU
    <3>2. CASE FinishesAsT(p, s, v, out)
      <4>1. s.secret.ecdh = {conn[p].ecdh, conn[p].their_ecdh}
        BY <3>2 DEF FinishesAsT, KeysInv, PeerKeys
      <4> QED
        BY <4>1
    <3>3. CASE FinishesOfflineT(p, s, v, out)
      BY <3>3 DEF FinishesOfflineT
    <3>4. CASE FinishesOfflineU(p, s, out)
      BY <3>4 DEF FinishesOfflineU
    <3> QED
      BY <1>10, <3>1, <3>2, <3>3, <3>4
  <2>4. s.secret # NoSecret
    BY <2>3 DEF NoSecret
  <2> QED
    BY <1>6, <2>2, <2>4
<1> QED
  BY <1>1, <1>7, <1>8, <1>9, <1>10

LEMMA ConfirmedStep ==
  ASSUME "close" \notin Uses, "other_instance" \notin Faults,
         TypeInv, SecureInv, ConfirmedInv, NEW p \in Peer, Does(p)
  PROVE  ConfirmedInv'
<1>1. PICK v \in Fresh \cup {NoKey}, out \in Seq(Message) :
        /\ Local(p, v, out)
        /\ \/ StartsDake(p, v, out) \/ AnswersIdentity(p, v, out)
           \/ Publishes(p, v, out) \/ GoesOn(p, v, out) \/ Resets(p, out)
           \/ \E s \in Session :
                \/ FinishesAsU(p, s, out) \/ FinishesAsT(p, s, v, out)
                \/ FinishesOfflineT(p, s, v, out) \/ FinishesOfflineU(p, s, out)
  BY DEF Does
<1> DEFINE c == conn[p]
           d == conn'[p]
           q == Other(p)
<1>2. /\ q \in Peer /\ \A r \in Peer : r = p \/ r = q
      /\ PeerConfirmed(p) /\ PeerConfirmed(q)
      /\ \A m \in Elems(net[p]) : Expected(m)
  BY OtherPeer DEF ConfirmedInv, SecureInv, PeerSecure
<1>3. conn'[q] = conn[q] /\ got'[q] = got[q] /\ Sessions(q)' = Sessions(q)
  BY <1>1, SessionsGrow DEF Local
<1>4. PeerConfirmed(q)'
  <2> HIDE DEF q
  <2> QED
    BY <1>2, <1>3, Zenon DEF PeerConfirmed
<1>5. PeerConfirmed(p)' => ConfirmedInv'
  BY <1>2, <1>4, Zenon DEF ConfirmedInv
<1>6. CASE StartsDake(p, v, out) \/ AnswersIdentity(p, v, out)
  <2>1. d.state \in {"WAITING_AUTH_R", "WAITING_AUTH_I"}
    BY <1>6 DEF StartsDake, AnswersIdentity
  <2> QED
    BY <1>5, <2>1 DEF PeerConfirmed
<1>7. CASE Publishes(p, v, out)
  <2>1. d = c /\ got'[p] = got[p] /\ established'[p] = established[p]
    BY <1>7 DEF Publishes
  <2>2. Sessions(p)' = Sessions(p)
    BY <1>1, <2>1, SessionsGrow
  <2> QED
    BY <1>2, <1>5, <2>1, <2>2, Zenon DEF PeerConfirmed
<1>8. CASE GoesOn(p, v, out)
  <2> HIDE DEF c, d
  <2>1. /\ d.session = c.session /\ established'[p] = established[p]
        /\ got[p] \subseteq got'[p]
        /\ \/ d.state = c.state
           \/ d.state = "CRASHED"
           \/ /\ c.state = "WAITING_DAKE_DATA_MESSAGE" /\ d.state = "ENCRYPTED_MESSAGES"
              /\ \/ \E m \in Elems(net[p]) : m.type = "data" /\ ~m.ours
                 \/ \E x \in got'[p] : x[1] = c.session
    BY <1>8, Zenon DEF GoesOn, KeepsSessions, c, d
  <2>2. Sessions(p)' = Sessions(p)
    BY <1>1, <2>1, SessionsGrow
  <2>3. \A m \in Elems(net[p]) : m.type = "data" => m.ours
    BY <1>2, Zenon DEF Expected
  <2>4. ASSUME d.state = "WAITING_DAKE_DATA_MESSAGE"
        PROVE  \E s \in Sessions(p)' : s.secret = d.session
    <3>1. c.state = "WAITING_DAKE_DATA_MESSAGE"
      BY <2>1, <2>4
    <3> QED
      BY <1>2, <2>1, <2>2, <3>1 DEF PeerConfirmed, c
  <2>5. ASSUME d.state = "ENCRYPTED_MESSAGES"
        PROVE  \E s \in Sessions(p)' :
                 /\ s.secret = d.session
                 /\ s.role = "t" \/ \E x \in got'[p] : x[1] = s.secret
    <3>1. CASE c.state = "ENCRYPTED_MESSAGES"
      <4>1. PICK s \in Sessions(p) :
              s.secret = c.session /\ (s.role = "t" \/ \E x \in got[p] : x[1] = s.secret)
        BY <1>2, <3>1 DEF PeerConfirmed, c
      <4> QED
        BY <2>1, <2>2, <4>1
    <3>2. CASE c.state # "ENCRYPTED_MESSAGES"
      <4>1. /\ c.state = "WAITING_DAKE_DATA_MESSAGE"
            /\ \E x \in got'[p] : x[1] = c.session
        BY <2>1, <2>3, <2>5, <3>2
      <4>2. PICK s \in Sessions(p) : s.secret = c.session
        BY <1>2, <4>1 DEF PeerConfirmed, c
      <4> QED
        BY <2>1, <2>2, <4>1, <4>2
    <3> QED
      BY <3>1, <3>2
  <2> QED
    BY <1>5, <2>4, <2>5 DEF PeerConfirmed, d
<1>9. CASE Resets(p, out)
  <2>1. \A m \in Elems(net[p]) : ~(m.type = "data" /\ m.kind = "disconnected")
    BY <1>2 DEF Expected
  <2>2. d.state \in {"START", "FINISHED"}
    BY <1>9, <2>1 DEF Resets
  <2> QED
    BY <1>5, <2>2 DEF PeerConfirmed
<1>10. ASSUME NEW s \in Session, \/ FinishesAsU(p, s, out) \/ FinishesAsT(p, s, v, out)
                                 \/ FinishesOfflineT(p, s, v, out)
                                 \/ FinishesOfflineU(p, s, out)
       PROVE  ConfirmedInv'
  <2>1. Establishes(p, s)
    BY <1>10 DEF FinishesAsU, FinishesAsT, FinishesOfflineT, FinishesOfflineU
  <2>2. s \in Sessions(p)'
    BY <1>1, <2>1, SessionsGrow
  <2>3. /\ d.session = s.secret
        /\ d.state = IF s.role = "t" THEN "ENCRYPTED_MESSAGES"
                                     ELSE "WAITING_DAKE_DATA_MESSAGE"
    BY <2>1 DEF Establishes
  <2> QED
    BY <1>5, <2>2, <2>3 DEF PeerConfirmed
<1> QED
  BY <1>1, <1>6, <1>7, <1>8, <1>9, <1>10

LEMMA SecureAlways ==
  ASSUME "close" \notin Uses
  PROVE  Spec => []SecureInv
<1>1. Init => SecureInv
  <2> SUFFICES ASSUME Init, NEW p \in Peer PROVE PeerSecure(p)
    BY DEF SecureInv
  <2>1. conn[p].state = "START" /\ Elems(net[p]) = {}
    BY NewConnType, FewElems DEF Init
  <2> QED
    BY <2>1 DEF PeerSecure, InDataPhase
<1>2. TypeInv /\ KeysInv /\ SecureInv /\ [Next]_vars => SecureInv'
  <2>1. TypeInv /\ KeysInv /\ SecureInv /\ Next => SecureInv'
    BY NextDoes, SecureStep
  <2>2. SecureInv /\ UNCHANGED vars => SecureInv'
    BY Zenon DEF vars, SecureInv, PeerSecure
  <2> QED
    BY <2>1, <2>2
<1> QED
  BY <1>1, <1>2, TypeAlways, KeysAlways, PTL DEF Spec

\* As long as no conversation is closed, an encrypted conversation has keys and
\* its application was told so, whatever other faults there are.
THEOREM EncryptedMeansSecure ==
  ASSUME "close" \notin Uses
  PROVE  Spec => []EncryptedIsSecure
<1>1. SecureInv => EncryptedIsSecure
  BY Zenon DEF SecureInv, PeerSecure, EncryptedIsSecure, InDataPhase
<1> QED
  BY <1>1, SecureAlways, PTL

\* As long as no conversation is closed and no message is meant for another
\* instance, only Auth-I, an offline message of its own or a decrypted data
\* message brings a peer into the encrypted state.
THEOREM EncryptedMeansConfirmed ==
  ASSUME "close" \notin Uses, "other_instance" \notin Faults
  PROVE  Spec => []Confirmed
<1>1. Init => ConfirmedInv
  <2> SUFFICES ASSUME Init, NEW p \in Peer PROVE PeerConfirmed(p)
    BY DEF ConfirmedInv
  <2>1. conn[p].state = "START"
    BY NewConnType DEF Init
  <2> QED
    BY <2>1 DEF PeerConfirmed
<1>2. TypeInv /\ SecureInv /\ ConfirmedInv /\ [Next]_vars => ConfirmedInv'
  <2>1. TypeInv /\ SecureInv /\ ConfirmedInv /\ Next => ConfirmedInv'
    BY NextDoes, ConfirmedStep
  <2>2. ConfirmedInv /\ UNCHANGED vars => ConfirmedInv'
    BY DEF vars, ConfirmedInv, PeerConfirmed, Sessions
  <2> QED
    BY <2>1, <2>2
<1>3. ConfirmedInv => Confirmed
  BY Zenon DEF ConfirmedInv, PeerConfirmed, Confirmed
<1> QED
  BY <1>1, <1>2, <1>3, TypeAlways, SecureAlways, PTL DEF Spec

-----------------------------------------------------------------------------
(***************************************************************************)
(* Two peers never wait for each other's first data message, unless one of *)
(* them got there by an offline message.  The argument is about the age of *)
(* the ECDH keys: a peer sends Auth-R with a key that is newer than the    *)
(* one it answers, so a peer that finished as "u" has an older key than    *)
(* the other one's Auth-R; and whoever takes part in a later DAKE as       *)
(* initiator draws a newer key.  Two such peers would each have the older  *)
(* key.                                                                    *)
(***************************************************************************)

\* The number of the generation that drew k.
Age(k) == IF k > MaxKeys THEN k - MaxKeys ELSE k

LEMMA Ages ==
  ASSUME TypeInv
  PROVE  /\ \A k \in Key : Age(k) \in Nat
         /\ \A k \in DrawnKeys : Age(k) <= drawn
         /\ \A v \in Fresh : v \in Key /\ Age(v) = drawn + 1
<1>1. MaxKeys \in Nat /\ drawn \in 0 .. MaxKeys
  BY BoundsAssumption DEF TypeInv
<1>2. \A k \in Key : Age(k) \in Nat
  BY <1>1 DEF Key, Age
<1>3. \A k \in DrawnKeys : Age(k) <= drawn
  BY <1>1 DEF DrawnKeys, Age, NoKey
<1>4. ASSUME NEW v \in Fresh PROVE v \in Key /\ Age(v) = drawn + 1
  <2>1. drawn < MaxKeys
    BY <1>1 DEF Fresh
  <2>2. PICK d \in Draws : v = drawn + 1 + d * MaxKeys
    BY <2>1 DEF Fresh
  <2>3. v = drawn + 1 \/ v = drawn + 1 + MaxKeys
    BY <1>1, <2>2, DrawsAssumption
  <2> QED
    BY <1>1, <2>1, <2>3 DEF Key, Age
<1> QED
  BY <1>2, <1>3, <1>4

\* p waits for the first data message of an interactive DAKE.
AwaitsData(p) ==
  conn[p].state = "WAITING_DAKE_DATA_MESSAGE" /\ ~LastSession(p).offline

\* p has started an interactive DAKE, and has a key of its own in it.
Initiates(p) == conn[p].state = "WAITING_AUTH_R" \/ AwaitsData(p)

\* x answers y, and if the other peer, who drew x, has become an initiator since
\* it did so with a key that is not older.
AnswersWith(p, y, x) ==
  Age(y) < Age(x) /\ (Initiates(Other(p)) => Age(x) <= Age(conn[Other(p)].ecdh))

\* The Auth-R messages on their way to p, and the one that p has accepted.
OrderedFor(p) ==
  /\ \A m \in Elems(net[p]) : m.type = "auth_r" => AnswersWith(p, m.of[1], m.ecdh)
  /\ AwaitsData(p) => AnswersWith(p, conn[p].ecdh, conn[p].their_ecdh)

WaitInv == \A p \in Peer : OrderedFor(p)

\* Who is an initiator, and with which key, changes only with a new key.
InitiatorKept(p) ==
  Initiates(p)' => Initiates(p) /\ conn'[p].ecdh = conn[p].ecdh

LEMMA InitiatorStep ==
  ASSUME TypeInv, NEW p \in Peer, NEW v \in Fresh \cup {NoKey}, NEW out,
         Local(p, v, out),
         \/ StartsDake(p, v, out) \/ AnswersIdentity(p, v, out)
         \/ Publishes(p, v, out) \/ GoesOn(p, v, out) \/ Resets(p, out)
         \/ \E s \in Session :
              \/ FinishesAsU(p, s, out) \/ FinishesAsT(p, s, v, out)
              \/ FinishesOfflineT(p, s, v, out) \/ FinishesOfflineU(p, s, out)
  PROVE  \/ InitiatorKept(p)
         \/ v \in Fresh /\ conn'[p].ecdh = v /\ ~AwaitsData(p)'
<1>1. CASE StartsDake(p, v, out)
  BY <1>1 DEF StartsDake, AwaitsData
<1>2. CASE AnswersIdentity(p, v, out) \/ Resets(p, out)
  BY <1>2 DEF AnswersIdentity, Resets, InitiatorKept, Initiates, AwaitsData
<1>3. CASE Publishes(p, v, out)
  BY <1>3 DEF Publishes, InitiatorKept, Initiates, AwaitsData, LastSession
<1>4. CASE GoesOn(p, v, out)
  BY <1>4 DEF GoesOn, KeepsSessions, InitiatorKept, Initiates, AwaitsData, LastSession
<1>5. ASSUME NEW s \in Session, FinishesAsU(p, s, out) PROVE InitiatorKept(p)
  BY <1>5 DEF FinishesAsU, InitiatorKept, Initiates
<1>6. ASSUME NEW s \in Session, FinishesAsT(p, s, v, out) \/ FinishesOfflineT(p, s, v, out)
      PROVE  InitiatorKept(p)
  BY <1>6 DEF FinishesAsT, FinishesOfflineT, Establishes, InitiatorKept, Initiates,
     AwaitsData
<1>7. ASSUME NEW s \in Session, FinishesOfflineU(p, s, out) PROVE InitiatorKept(p)
  <2>1. established'[p] = Append(established[p], s) /\ established[p] \in Seq(Session)
    BY <1>7 DEF FinishesOfflineU, Establishes, TypeInv
  <2>2. LastSession(p)' = s
    BY <2>1 DEF LastSession
  <2>3. s.offline /\ s.role = "u"
    BY <1>7 DEF FinishesOfflineU
  <2> QED
    BY <1>7, <2>2, <2>3 DEF FinishesOfflineU, Establishes, InitiatorKept, Initiates,
       AwaitsData
<1> QED
  BY <1>1, <1>2, <1>3, <1>4, <1>5, <1>6, <1>7

\* The answers of the other peer that p holds stay in order when that peer acts.
LEMMA AnswersStay ==
  ASSUME TypeInv, TypeInv', NEW p \in Peer, NEW v \in Fresh \cup {NoKey},
         InitiatorKept(Other(p)) \/ (v \in Fresh /\ conn'[Other(p)].ecdh = v),
         NEW y, NEW x \in Key \cap DrawnKeys, AnswersWith(p, y, x)
  PROVE  AnswersWith(p, y, x)'
<1>1. CASE InitiatorKept(Other(p))
  BY <1>1 DEF AnswersWith, InitiatorKept, Age
<1>2. CASE v \in Fresh /\ conn'[Other(p)].ecdh = v
  <2>1. Age(x) <= drawn /\ Age(v) = drawn + 1 /\ Age(x) \in Nat /\ drawn \in Nat
    BY <1>2, Ages, BoundsAssumption DEF TypeInv
  <2>2. Age(x) <= Age(conn'[Other(p)].ecdh)
    BY <1>2, <2>1
  <2> QED
    BY <2>2 DEF AnswersWith, Age
<1> QED
  BY <1>1, <1>2

\* The keys of the answers that p holds were drawn.
LEMMA AnswersDrawn ==
  ASSUME TypeInv, KeysInv, NEW p \in Peer
  PROVE  /\ conn[p].their_ecdh \in Key \cap DrawnKeys
         /\ \A m \in Elems(net[p]) :
              m.type \in {"identity", "auth_r"} => m.ecdh \in Key \cap DrawnKeys
<1>1. Other(p) \in Peer /\ Owned(Other(p)) \subseteq DrawnKeys
  BY OtherPeer DEF KeysInv, PeerKeys
<1>2. conn[p].their_ecdh \in Key
  BY ConnFields DEF TypeInv
<1>3. \A m \in Elems(net[p]) : m.type \in {"identity", "auth_r"} => m.ecdh \in Key
  BY MessageFields DEF TypeInv, Elems
<1> QED
  BY <1>1, <1>2, <1>3, TheirKeysOwned DEF MessageKeys

\* Only an answer to an identity message is an Auth-R.
LEMMA AuthROut ==
  ASSUME NEW p \in Peer, NEW v, NEW out,
         \/ StartsDake(p, v, out) \/ Publishes(p, v, out) \/ GoesOn(p, v, out)
         \/ Resets(p, out)
         \/ \E s \in Session :
              \/ FinishesAsU(p, s, out) \/ FinishesAsT(p, s, v, out)
              \/ FinishesOfflineT(p, s, v, out) \/ FinishesOfflineU(p, s, out),
         NEW m \in Elems(out)
  PROVE  m.type # "auth_r"
<1>1. CASE StartsDake(p, v, out) \/ Publishes(p, v, out)
  BY <1>1 DEF StartsDake, Publishes
<1>2. CASE GoesOn(p, v, out) \/ Resets(p, out)
  BY <1>2 DEF GoesOn, Resets, Plain
<1>3. ASSUME NEW s \in Session, FinishesAsU(p, s, out) \/ FinishesAsT(p, s, v, out)
      PROVE  m.type # "auth_r"
  BY <1>3 DEF FinishesAsU, FinishesAsT, Plain
<1>4. ASSUME NEW s \in Session,
             FinishesOfflineT(p, s, v, out) \/ FinishesOfflineU(p, s, out)
      PROVE  m.type # "auth_r"
  BY <1>4 DEF FinishesOfflineT, FinishesOfflineU
<1> QED
  BY <1>1, <1>2, <1>3, <1>4

\* Whoever comes to wait for a data message has accepted an Auth-R for its key.
LEMMA AwaitsStep ==
  ASSUME TypeInv, NEW p \in Peer, NEW v, NEW out, AwaitsData(p)',
         \/ StartsDake(p, v, out) \/ AnswersIdentity(p, v, out)
         \/ Publishes(p, v, out) \/ GoesOn(p, v, out) \/ Resets(p, out)
         \/ \E s \in Session :
              \/ FinishesAsU(p, s, out) \/ FinishesAsT(p, s, v, out)
              \/ FinishesOfflineT(p, s, v, out) \/ FinishesOfflineU(p, s, out)
  PROVE  /\ conn'[p].ecdh = conn[p].ecdh
         /\ \/ AwaitsData(p) /\ conn'[p].their_ecdh = conn[p].their_ecdh
            \/ \E m \in Elems(net[p]) :
                 /\ m.type = "auth_r" /\ m.of[1] = conn[p].ecdh
                 /\ conn'[p].their_ecdh = m.ecdh
<1>1. CASE StartsDake(p, v, out) \/ AnswersIdentity(p, v, out) \/ Resets(p, out)
  BY <1>1 DEF StartsDake, AnswersIdentity, Resets, AwaitsData
<1>2. CASE Publishes(p, v, out)
  BY <1>2 DEF Publishes, AwaitsData, LastSession
<1>3. CASE GoesOn(p, v, out)
  BY <1>3 DEF GoesOn, KeepsSessions, AwaitsData, LastSession
<1>4. ASSUME NEW s \in Session, FinishesAsU(p, s, out)
      PROVE  /\ conn'[p].ecdh = conn[p].ecdh
             /\ \E m \in Elems(net[p]) :
                  /\ m.type = "auth_r" /\ m.of[1] = conn[p].ecdh
                  /\ conn'[p].their_ecdh = m.ecdh
  BY <1>4 DEF FinishesAsU
<1>5. \A s \in Session : ~FinishesAsT(p, s, v, out) /\ ~FinishesOfflineT(p, s, v, out)
  BY DEF FinishesAsT, FinishesOfflineT, Establishes, AwaitsData
<1>6. ASSUME NEW s \in Session, FinishesOfflineU(p, s, out) PROVE FALSE
  <2>1. /\ established'[p] = Append(established[p], s) /\ established[p] \in Seq(Session)
        /\ s.offline
    BY <1>6 DEF FinishesOfflineU, Establishes, TypeInv
  <2>2. LastSession(p)' = s
    BY <2>1 DEF LastSession
  <2> QED
    BY <2>1, <2>2 DEF AwaitsData
<1> QED
  BY <1>1, <1>2, <1>3, <1>4, <1>5, <1>6

LEMMA WaitStep ==
  ASSUME TypeInv, KeysInv, WaitInv, NEW p \in Peer, Does(p)
  PROVE  WaitInv'
<1> DEFINE q == Other(p)
<1>1. PICK v \in Fresh \cup {NoKey}, out \in Seq(Message) :
        /\ Local(p, v, out)
        /\ \/ StartsDake(p, v, out) \/ AnswersIdentity(p, v, out)
           \/ Publishes(p, v, out) \/ GoesOn(p, v, out) \/ Resets(p, out)
           \/ \E s \in Session :
                \/ FinishesAsU(p, s, out) \/ FinishesAsT(p, s, v, out)
                \/ FinishesOfflineT(p, s, v, out) \/ FinishesOfflineU(p, s, out)
  BY DEF Does
<1>2. /\ q \in Peer /\ q # p /\ Other(q) = p /\ \A x \in Peer : x = p \/ x = q
      /\ TypeInv' /\ conn'[q] = conn[q] /\ established'[q] = established[q]
  BY <1>1, OtherPeer DEF Local
<1>3. /\ \A m \in Elems(net'[p]) : m \in Elems(net[p])
      /\ \A m \in Elems(net'[q]) : m \in Elems(net[q]) \/ m \in Elems(out)
  BY <1>1, <1>2 DEF Local, Adds
<1>4. OrderedFor(p) /\ OrderedFor(q)
  BY <1>2 DEF WaitInv
<1>5. InitiatorKept(p) \/ (v \in Fresh /\ conn'[p].ecdh = v)
  BY <1>1, InitiatorStep
<1> HIDE DEF q
<1>6. AwaitsData(q)' = AwaitsData(q) /\ Initiates(q)' = Initiates(q)
  BY <1>2 DEF AwaitsData, Initiates, LastSession
<1>7. ASSUME NEW m \in Elems(net'[q]), m.type = "auth_r"
      PROVE  AnswersWith(q, m.of[1], m.ecdh)'
  <2>1. CASE m \in Elems(net[q])
    <3>1. m.ecdh \in Key \cap DrawnKeys /\ AnswersWith(q, m.of[1], m.ecdh)
      BY <1>2, <1>4, <1>7, <2>1, AnswersDrawn DEF OrderedFor
    <3> QED
      BY <1>2, <1>5, <3>1, AnswersStay
  <2>2. CASE m \in Elems(out)
    <3>1. AnswersIdentity(p, v, out)
      BY <1>1, <1>7, <2>2, AuthROut
    <3>2. PICK i \in Elems(net[p]) : i.type = "identity" /\ conn'[p].their_ecdh = i.ecdh
      BY <3>1 DEF AnswersIdentity
    <3>3. /\ m.ecdh = v /\ m.of[1] = i.ecdh /\ v \in Fresh
          /\ conn'[p].state = "WAITING_AUTH_I"
      BY <2>2, <3>1, <3>2 DEF AnswersIdentity
    <3>4. i.ecdh \in Key \cap DrawnKeys
      BY <3>2, AnswersDrawn
    <3>5. Age(i.ecdh) < Age(v)
      <4>1. Age(i.ecdh) \in Nat /\ Age(i.ecdh) <= drawn /\ Age(v) = drawn + 1 /\ drawn \in Nat
        BY <3>3, <3>4, Ages, BoundsAssumption DEF TypeInv
      <4> QED
        BY <4>1
    <3>6. ~Initiates(p)'
      BY <3>3 DEF Initiates, AwaitsData
    <3> QED
      BY <1>2, <3>3, <3>5, <3>6 DEF AnswersWith, Age
  <2> QED
    BY <1>3, <2>1, <2>2
<1>8. AwaitsData(q)' => AnswersWith(q, conn[q].ecdh, conn[q].their_ecdh)'
  <2> SUFFICES ASSUME AwaitsData(q), NEW y, NEW x,
                      y = conn[q].ecdh, x = conn[q].their_ecdh
               PROVE  AnswersWith(q, y, x)'
    BY <1>2, <1>6 DEF AnswersWith
  <2>1. AnswersWith(q, y, x) /\ x \in Key \cap DrawnKeys
    BY <1>2, <1>4, AnswersDrawn DEF OrderedFor
  <2> QED
    BY <1>2, <1>5, <2>1, AnswersStay
<1>9. \A y, x : AnswersWith(p, y, x) => AnswersWith(p, y, x)'
  BY <1>2, <1>6 DEF AnswersWith, Age, q
<1>10. \A m \in Elems(net'[p]) : m.type = "auth_r" => AnswersWith(p, m.of[1], m.ecdh)'
  BY <1>3, <1>4, <1>9 DEF OrderedFor
<1>11. AwaitsData(p)' => AnswersWith(p, conn[p].ecdh, conn[p].their_ecdh)'
  <2> SUFFICES ASSUME AwaitsData(p)', NEW y, NEW x,
                      y = conn'[p].ecdh, x = conn'[p].their_ecdh
               PROVE  AnswersWith(p, y, x)'
    BY DEF AnswersWith
  <2>1. AnswersWith(p, y, x)
    BY <1>1, <1>4, AwaitsStep DEF OrderedFor
  <2> QED
    BY <1>9, <2>1
<1>12. OrderedFor(p)' /\ OrderedFor(q)'
  BY <1>7, <1>8, <1>10, <1>11 DEF OrderedFor
<1> QED
  BY <1>2, <1>12 DEF WaitInv

LEMMA WaitAlways == Spec => []WaitInv
<1>1. Init => WaitInv
  <2> SUFFICES ASSUME Init, NEW p \in Peer PROVE OrderedFor(p)
    BY DEF WaitInv
  <2>1. conn[p].state = "START" /\ net[p] = <<>>
    BY NewConnType DEF Init
  <2>2. Elems(net[p]) = {}
    BY <2>1, FewElems
  <2> QED
    BY <2>1, <2>2 DEF OrderedFor, AwaitsData
<1>2. TypeInv /\ KeysInv /\ WaitInv /\ [Next]_vars => WaitInv'
  <2>1. TypeInv /\ KeysInv /\ WaitInv /\ Next => WaitInv'
    BY NextDoes, WaitStep
  <2>2. WaitInv /\ UNCHANGED vars => WaitInv'
    BY DEF vars, WaitInv, OrderedFor, AnswersWith, Initiates, AwaitsData, LastSession, Age
  <2> QED
    BY <2>1, <2>2
<1> QED
  BY <1>1, <1>2, TypeAlways, KeysAlways, PTL DEF Spec

\* Two peers that both finished a DAKE as "u" would refuse to send before the other
\* one has sent (otrng_send_message).  It takes an offline message to get them there:
\* no crossing, loss, repetition or reordering of interactive DAKE messages, no error
\* message, restart or message for another client does, for any number of them.
THEOREM NobodyWaitsForEachOther == Spec => []NoMutualWait
<1>1. TypeInv /\ WaitInv => NoMutualWait
  <2> SUFFICES ASSUME TypeInv, WaitInv,
                      \A p \in Peer : conn[p].state = "WAITING_DAKE_DATA_MESSAGE",
                      \A p \in Peer : ~LastSession(p).offline
               PROVE  FALSE
    BY DEF NoMutualWait
  <2> DEFINE a == conn["alice"]
             b == conn["bob"]
  <2>1. /\ "alice" \in Peer /\ "bob" \in Peer
        /\ Other("alice") = "bob" /\ Other("bob") = "alice"
    BY DEF Peer, Other
  <2>2. \A p \in Peer : AwaitsData(p) /\ Initiates(p)
    BY DEF AwaitsData, Initiates
  <2>3. /\ Age(a.ecdh) < Age(a.their_ecdh) /\ Age(a.their_ecdh) <= Age(b.ecdh)
        /\ Age(b.ecdh) < Age(b.their_ecdh) /\ Age(b.their_ecdh) <= Age(a.ecdh)
    BY <2>1, <2>2 DEF WaitInv, OrderedFor, AnswersWith
  <2>4. /\ Age(a.ecdh) \in Nat /\ Age(a.their_ecdh) \in Nat
        /\ Age(b.ecdh) \in Nat /\ Age(b.their_ecdh) \in Nat
    BY <2>1, Ages, ConnFields DEF TypeInv
  <2> QED
    BY <2>3, <2>4
<1> QED
  BY <1>1, TypeAlways, WaitAlways, PTL
=============================================================================
