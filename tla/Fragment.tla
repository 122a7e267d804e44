------------------------------ MODULE Fragment ------------------------------
(***************************************************************************)
(* Fragments of large messages (src/src/fragment.c): a sender splits its   *)
(* messages, the network reorders, repeats, loses and damages the pieces,  *)
(* and one receiver collects them in the list otr->pending_fragments.      *)
(*                                                                         *)
(* A text is a sequence of characters of which only the comma matters: it  *)
(* ends a piece when the piece is read.  The random identifier of a        *)
(* message is its number.                                                  *)
(***************************************************************************)
EXTENDS Integers, Sequences, FiniteSets, SequencesExt

CONSTANTS
  Chars,        \* the characters of a text
  Texts,        \* the texts to send: sequences of characters
  Sizes,        \* the sizes that the sender's transport allows for a message
  Expiry,       \* client->fragments_exp_time
  Tags,         \* the receivers: "us", "any" (the tag 0) or "other"
  Damages,      \* what the network does to a piece, a subset of DamageKinds
  MaxSent,      \* bound: messages
  MaxFaults,    \* bound: repeated and damaged pieces
  MaxTime       \* bound: the clock

Comma == ","
HeaderLen == 45     \* FRAGMENT_HEADER_LEN
DamageKinds == {"cut", "index", "total"}

ASSUME CharsAssumption == Comma \in Chars
ASSUME TextsAssumption == \A t \in Texts : t \in Seq(Chars) /\ t # <<>>
ASSUME SizesAssumption == Sizes \subseteq Nat \ {HeaderLen}
ASSUME TagsAssumption == Tags \subseteq {"us", "any", "other"}
ASSUME DamagesAssumption == Damages \subseteq DamageKinds
ASSUME BoundsAssumption ==
  Expiry \in Nat /\ MaxSent \in Nat /\ MaxFaults \in Nat /\ MaxTime \in Nat \ {0}

VARIABLES
  sent,       \* the messages sent: text, receiver and number of pieces
  wire,       \* the pieces on their way
  contexts,   \* otr->pending_fragments
  handed,     \* the messages given to the caller, a sequence
  now,        \* the clock
  faults,     \* how many pieces were repeated or damaged
  arrived,    \* the pieces that have arrived undamaged (history)
  spoiled     \* the messages whose context was reset or expired, or that
              \* lost a piece to damage (history)

vars == <<sent, wire, contexts, handed, now, faults, arrived, spoiled>>

NoPiece == <<>>

FragmentContext ==
  [identifier : 0 .. MaxSent, total : Nat, count : Nat,
   last_fragment_received_at : 0 .. MaxTime, total_message_len : Nat,
   fragments : Seq(Seq(Chars))]

InitContext ==
  [identifier |-> 0, total |-> 0, count |-> 0, last_fragment_received_at |-> 0,
   total_message_len |-> 0, fragments |-> <<>>]

Init ==
  /\ sent = <<>>
  /\ wire = {}
  /\ contexts = <<>>
  /\ handed = <<>>
  /\ now = 1
  /\ faults = 0
  /\ arrived = {}
  /\ spoiled = {}

-----------------------------------------------------------------------------
(* Sending *)

\* The subtraction is unsigned: below the length of the header the limit is
\* larger than any text.
Limit(max_size, len) ==
  IF max_size > HeaderLen THEN max_size - HeaderLen ELSE len

\* Variant: the number of pieces is not rounded down by one first.
PiecesOneMore(max_size, text) ==
  LET limit == Limit(max_size, Len(text))
      Until(i) == IF i * limit < Len(text) THEN i * limit ELSE Len(text)
  IN  [i \in 1 .. Len(text) \div limit + 1 |->
         SubSeq(text, (i - 1) * limit + 1, Until(i))]

\* otrng_fragment_message
Pieces(max_size, text) ==
  LET limit == Limit(max_size, Len(text))
      total == (Len(text) - 1) \div limit + 1
      Until(i) == IF i * limit < Len(text) THEN i * limit ELSE Len(text)
  IN  [i \in 1 .. total |-> SubSeq(text, (i - 1) * limit + 1, Until(i))]

\* otrng_client_send_fragment.  The receiver's tag is 0 ("any") until it is known.
SendFragments(text, max_size, to) ==
  LET pieces == Pieces(max_size, text)
      id == Len(sent) + 1
  IN  /\ Len(sent) < MaxSent
      /\ sent' = Append(sent, [text |-> text, to |-> to, total |-> Len(pieces)])
      /\ wire' = wire \cup
           {[identifier |-> id, receiver_tag |-> to, index |-> i,
             total |-> Len(pieces), text |-> Append(pieces[i], Comma),
             copy |-> 0, damage |-> "none"] : i \in 1 .. Len(pieces)}
      /\ UNCHANGED <<contexts, handed, now, faults, arrived, spoiled>>

-----------------------------------------------------------------------------
(* The network *)

Repeat(f) ==
  /\ faults < MaxFaults
  /\ f.copy = 0
  /\ faults' = faults + 1
  /\ wire' = wire \cup {[f EXCEPT !.copy = 1]}
  /\ UNCHANGED <<sent, contexts, handed, now, arrived, spoiled>>

\* The end of the piece is lost, its index leaves the range, or the total grows.
Damaged(f, kind) ==
  LET g == [f EXCEPT !.damage = kind]
  IN  CASE kind = "cut"   -> [g EXCEPT !.text = NoPiece]
        [] kind = "index" -> [g EXCEPT !.index = f.total + 1]
        [] kind = "total" -> [g EXCEPT !.total = f.total + 1]

Damage(f, kind) ==
  /\ faults < MaxFaults
  /\ f.damage = "none"
  /\ faults' = faults + 1
  /\ wire' = (wire \ {f}) \cup {Damaged(f, kind)}
  /\ UNCHANGED <<sent, contexts, handed, now, arrived, spoiled>>

-----------------------------------------------------------------------------
(* Receiving: the paths through otrng_unfragment_message_generic *)

\* Variant: the receiver's instance tag is not looked at.
IsForUsAlways(f) == TRUE

IsForUs(f) == f.receiver_tag # "other"

\* %*[^,], reads to the first comma and fails on an empty piece.
Parsed(text) ==
  IF \E n \in DOMAIN text : text[n] = Comma
    THEN SubSeq(text, 1, (CHOOSE n \in DOMAIN text :
           text[n] = Comma /\ \A k \in 1 .. n - 1 : text[k] # Comma) - 1)
    ELSE NoPiece

\* Variant: a context is opened for every piece.
WithContextAlways(f) ==
  Append(contexts, [InitContext EXCEPT !.identifier = f.identifier])

\* The contexts, with one for this identifier.
WithContext(f) ==
  IF \E k \in DOMAIN contexts : contexts[k].identifier = f.identifier
    THEN contexts
    ELSE Append(contexts, [InitContext EXCEPT !.identifier = f.identifier])

ContextOf(f) ==
  CHOOSE k \in DOMAIN WithContext(f) :
    /\ WithContext(f)[k].identifier = f.identifier
    /\ \A j \in 1 .. k - 1 : WithContext(f)[j].identifier # f.identifier

Take(f) ==
  /\ wire' = wire \ {f}
  /\ arrived' = IF f.damage = "none"
                  THEN arrived \cup {<<f.identifier, f.index>>} ELSE arrived
  /\ UNCHANGED <<sent, now, faults>>

\* For another instance, or unreadable.
ReceiveIgnored(f) ==
  /\ ~IsForUs(f) \/ Parsed(f.text) = NoPiece
  /\ Take(f)
  /\ UNCHANGED <<contexts, handed, spoiled>>

IsMalformed(f) == f.index = 0 \/ f.total = 0 \/ f.index > f.total

\* reset_fragment_context: the context stays in the list.
ReceiveMalformed(f) ==
  /\ IsForUs(f) /\ Parsed(f.text) # NoPiece
  /\ IsMalformed(f)
  /\ Take(f)
  /\ contexts' = [WithContext(f) EXCEPT ![ContextOf(f)] = InitContext]
  /\ spoiled' = spoiled \cup {f.identifier}
  /\ UNCHANGED handed

\* The context has another total, or the piece already.
Conflicts(f, c) ==
  \/ c.total # 0 /\ c.total # f.total
  \/ c.fragments # <<>> /\ c.fragments[f.index] # NoPiece

\* Variant: the context is given up.
ReceiveConflictingDrops(f) ==
  /\ IsForUs(f) /\ Parsed(f.text) # NoPiece
  /\ ~IsMalformed(f)
  /\ Conflicts(f, WithContext(f)[ContextOf(f)])
  /\ Take(f)
  /\ contexts' = RemoveAt(contexts, ContextOf(f))
  /\ UNCHANGED <<handed, spoiled>>

ReceiveConflicting(f) ==
  /\ IsForUs(f) /\ Parsed(f.text) # NoPiece
  /\ ~IsMalformed(f)
  /\ Conflicts(f, WithContext(f)[ContextOf(f)])
  /\ Take(f)
  /\ UNCHANGED <<contexts, handed, spoiled>>

\* initialize_fragments and copy_fragment_to_context
Stored(c, f) ==
  LET pieces == IF c.fragments = <<>> THEN [i \in 1 .. f.total |-> NoPiece]
                                      ELSE c.fragments
  IN  [c EXCEPT !.total = f.total,
                !.fragments = [pieces EXCEPT ![f.index] = Parsed(f.text)],
                !.total_message_len = @ + Len(Parsed(f.text)),
                !.count = @ + 1,
                !.last_fragment_received_at = now]

\* join_fragments
Joined(c) == FlattenSeq(c.fragments)

ReceivePiece(f) ==
  LET k == ContextOf(f)
      c == Stored(WithContext(f)[k], f)
  IN  /\ IsForUs(f) /\ Parsed(f.text) # NoPiece
      /\ ~IsMalformed(f)
      /\ ~Conflicts(f, WithContext(f)[k])
      /\ Take(f)
      /\ IF c.count = f.total
           THEN /\ handed' = Append(handed, [id |-> f.identifier, text |-> Joined(c)])
                /\ contexts' = RemoveAt(WithContext(f), k)
           ELSE /\ contexts' = [WithContext(f) EXCEPT ![k] = c]
                /\ UNCHANGED handed
      /\ spoiled' = IF f.damage = "none" THEN spoiled
                                         ELSE spoiled \cup {f.identifier}

Receive(f) ==
  ReceiveIgnored(f) \/ ReceiveMalformed(f) \/ ReceiveConflicting(f) \/ ReceivePiece(f)

-----------------------------------------------------------------------------
(* otrng_poll *)

Tick ==
  /\ now < MaxTime
  /\ now' = now + 1
  /\ UNCHANGED <<sent, wire, contexts, handed, faults, arrived, spoiled>>

Age(c) == now - c.last_fragment_received_at

\* Removing an element clears its next, so the loop ends at the first removal.
Expire ==
  \E k \in DOMAIN contexts :
    /\ Age(contexts[k]) < Expiry
    /\ \A j \in 1 .. k - 1 : Age(contexts[j]) >= Expiry
    /\ contexts' = RemoveAt(contexts, k)
    /\ spoiled' = spoiled \cup {contexts[k].identifier}
    /\ UNCHANGED <<sent, wire, handed, now, faults, arrived>>

Next ==
  \/ \E text \in Texts, max_size \in Sizes, to \in Tags :
       SendFragments(text, max_size, to)
  \/ \E f \in wire : Repeat(f) \/ Receive(f) \/ \E kind \in Damages : Damage(f, kind)
  \/ Tick
  \/ Expire

Spec == Init /\ [][Next]_vars

-----------------------------------------------------------------------------
(* Properties *)

Piece ==
  [identifier : 1 .. MaxSent, receiver_tag : Tags, index : Nat \ {0},
   total : Nat \ {0}, text : Seq(Chars), copy : {0, 1},
   damage : Damages \cup {"none"}]

\* A piece on the wire carries at least one character, unless it was cut.
TypeOK ==
  /\ Len(sent) <= MaxSent
  /\ \A f \in wire : f \in Piece /\ (f.damage # "cut" => Len(f.text) > 1)
  /\ contexts \in Seq(FragmentContext)
  /\ now \in 0 .. MaxTime
  /\ faults \in 0 .. MaxFaults

\* join_fragments copies all the pieces of a context into a buffer of
\* total_message_len + 1 bytes without a check, and reads every piece of it.  A
\* waiting context therefore counts exactly the pieces it has, has room for
\* them, is not complete, and is the only one of its message.
ContextsConsistent ==
  \A k \in DOMAIN contexts :
    LET c == contexts[k] IN
    /\ c.total_message_len = Len(Joined(c))
    /\ c.count = Cardinality({i \in DOMAIN c.fragments : c.fragments[i] # NoPiece})
    /\ c.identifier # 0 =>
         /\ c.count \in 1 .. c.total - 1
         /\ \A j \in DOMAIN contexts : contexts[j].identifier = c.identifier => j = k

IsEncoded(text) == \A n \in DOMAIN text : text[n] # Comma

\* A message for us whose pieces have all arrived, in whatever order and however
\* often, with pieces of other messages and unreadable ones in between, has been
\* handed up (otrng_unfragment_message_generic), unless its context was reset or
\* removed.
NothingLost ==
  \A id \in DOMAIN sent :
    /\ sent[id].to # "other"
    /\ IsEncoded(sent[id].text)
    /\ id \notin spoiled
    /\ \A i \in 1 .. sent[id].total : <<id, i>> \in arrived
    => \E n \in DOMAIN handed : handed[n].id = id

\* The refinement mapping: of the contexts of a message only the one with its
\* real total counts.
PendingOf(id) ==
  UNION {{i \in DOMAIN contexts[k].fragments : contexts[k].fragments[i] # NoPiece} :
           k \in {j \in DOMAIN contexts : /\ contexts[j].identifier = id
                                          /\ contexts[j].total = sent[id].total}}

Abstract == INSTANCE Reassembly WITH
  sent <- [id \in DOMAIN sent |->
             [to |-> sent[id].to, total |-> sent[id].total,
              encoded |-> IsEncoded(sent[id].text)]],
  pending <- [id \in DOMAIN sent |-> PendingOf(id)],
  handed <- [n \in DOMAIN handed |->
               [id |-> handed[n].id,
                whole |-> handed[n].text = sent[handed[n].id].text]]

\* fragment.c does what Reassembly promises: it hands up whole messages only, only
\* to their receiver, and a repeated piece never makes a message come twice.
ImplementsReassembly == Abstract!Spec
=============================================================================
