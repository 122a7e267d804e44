----------------------------- MODULE Reassembly -----------------------------
(***************************************************************************)
(* What the reassembly of fragments promises to the code above it          *)
(* (otrng_receive_message and otrng_prekey_receive): a message is handed   *)
(* up at the moment the last of its pieces arrives, whole and only if it   *)
(* is for this client, and each time it is handed up all its pieces have   *)
(* arrived anew.  Pieces that wait may be dropped, all pieces of a message *)
(* at once.  Module Fragment implements this specification.                *)
(***************************************************************************)
EXTENDS Naturals, Sequences

VARIABLES
  sent,       \* the messages sent, their positions are their identifiers
  pending,    \* pending[id]: the pieces of message id that wait for the others
  handed      \* the messages handed up, a sequence

vars == <<sent, pending, handed>>

\* Only the text of an encoded message cannot be mistaken for the end of a piece.
Message ==
  [to : {"us", "any", "other"}, total : Nat \ {0}, encoded : BOOLEAN]

Init ==
  /\ sent = <<>>
  /\ pending = <<>>
  /\ handed = <<>>

Send ==
  /\ sent' \in Seq(Message)
  /\ Len(sent') = Len(sent) + 1
  /\ SubSeq(sent', 1, Len(sent)) = sent
  /\ pending' = Append(pending, {})
  /\ UNCHANGED handed

Wait(id, i) ==
  /\ pending[id] \cup {i} # 1 .. sent[id].total
  /\ pending' = [pending EXCEPT ![id] = @ \cup {i}]
  /\ UNCHANGED <<sent, handed>>

HandUp(id, i) ==
  /\ pending[id] \cup {i} = 1 .. sent[id].total
  /\ pending' = [pending EXCEPT ![id] = {}]
  /\ \E whole \in BOOLEAN :
       /\ sent[id].encoded => whole
       /\ handed' = Append(handed, [id |-> id, whole |-> whole])
  /\ UNCHANGED sent

Arrive(id) ==
  /\ sent[id].to # "other"
  /\ \E i \in (1 .. sent[id].total) \ pending[id] : Wait(id, i) \/ HandUp(id, i)

Drop(id) ==
  /\ pending' = [pending EXCEPT ![id] = {}]
  /\ UNCHANGED <<sent, handed>>

Next ==
  \/ Send
  \/ \E id \in DOMAIN sent : Arrive(id) \/ Drop(id)

Spec == Init /\ [][Next]_vars
=============================================================================
