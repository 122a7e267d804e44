------------------------------- MODULE Channel -------------------------------
(***************************************************************************)
(* What a data session promises to the code above it (otrng_send_message   *)
(* and otrng_receive_message) in a network that loses and reorders: every  *)
(* message is sealed with a key that nobody has used before, and whatever  *)
(* arrives is opened, once.  No message is given up because the two peers  *)
(* disagree on its key.  The peer that has not started the session sends   *)
(* nothing before it has opened something.                                 *)
(*                                                                         *)
(* A message is named by the key it is sealed with.  Module DoubleRatchet  *)
(* implements this specification.                                          *)
(***************************************************************************)

CONSTANTS
  Peer,     \* the two peers
  Starter,  \* the one that sends first
  Lossy     \* whether the network loses messages

VARIABLES
  sent,     \* sent[p]: what p has sealed
  net,      \* net[p]: what is on its way to p
  got       \* got[p]: what p has opened

vars == <<sent, net, got>>

Init ==
  /\ sent = [p \in Peer |-> {}]
  /\ net = [p \in Peer |-> {}]
  /\ got = [p \in Peer |-> {}]

Used == UNION {sent[p] : p \in Peer}

\* p seals a message with key.  Any value will do for a new key, so that the
\* actions take it from what they add to sent.
Seal(p, key) ==
  /\ p = Starter \/ got[p] # {}
  /\ key \notin Used
  /\ sent' = [sent EXCEPT ![p] = @ \cup {key}]

Open(p, key) ==
  /\ key \in net[p]
  /\ got' = [got EXCEPT ![p] = @ \cup {key}]

Send(p, q) ==
  \E key \in sent'[p] :
    /\ Seal(p, key)
    /\ net' = [net EXCEPT ![q] = @ \cup {key}]
    /\ UNCHANGED got

Receive(p) ==
  \E key \in net[p] :
    /\ Open(p, key)
    /\ net' = [net EXCEPT ![p] = @ \ {key}]
    /\ UNCHANGED sent

\* The answer is sent while the message is handled.
ReceiveAndAnswer(p, q) ==
  \E key \in net[p], answer \in sent'[p] :
    /\ Open(p, key)
    /\ Seal(p, answer)
    /\ net' = [net EXCEPT ![p] = @ \ {key}, ![q] = @ \cup {answer}]

Lose(p) ==
  /\ Lossy
  /\ \E key \in net[p] : net' = [net EXCEPT ![p] = @ \ {key}]
  /\ UNCHANGED <<sent, got>>

Next ==
  \E p \in Peer :
    \/ \E q \in Peer \ {p} : Send(p, q) \/ ReceiveAndAnswer(p, q)
    \/ Receive(p) \/ Lose(p)

Spec == Init /\ [][Next]_vars

(***************************************************************************)
(* What follows for the users: a peer opens only what the other one has    *)
(* sealed, never again what it has opened once, and no key serves for two  *)
(* messages, not even in opposite directions.                              *)
(***************************************************************************)
ExactlyOnce ==
  \A p \in Peer : \A q \in Peer \ {p} :
    /\ got[p] \cup net[p] \subseteq sent[q]
    /\ got[p] \cap net[p] = {}
    /\ sent[p] \cap sent[q] = {}
=============================================================================
