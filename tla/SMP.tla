--------------------------------- MODULE SMP ---------------------------------
(***************************************************************************)
(* The Socialist Millionaires' Protocol of two peers in an encrypted       *)
(* conversation (src/src/smp.c, src/src/smp_protocol.c): a user starts a   *)
(* run with an answer, the other one answers, and four messages later both *)
(* know whether the answers were the same.                                 *)
(*                                                                         *)
(* The messages are TLVs of data messages, which are authentic and never   *)
(* accepted twice, but may be lost or arrive out of order.                 *)
(*                                                                         *)
(* Points and scalars are symbolic.  A number names the scalars a peer     *)
(* draws for a run: a2 and a3 of the initiator, b2 and b3 of the           *)
(* responder.  The pair <<a, b>> names the bases g2 and g3 that both       *)
(* numbers determine.  A zero-knowledge proof made for one pair does not   *)
(* verify for another one.                                                 *)
(***************************************************************************)
EXTENDS Naturals, Sequences

CONSTANTS
  Answer,       \* what the users may type
  Faults,       \* what goes wrong, a subset of FaultKinds
  MaxStarts,    \* bound: runs the users start
  MaxReplies,   \* bound: answers the users give
  MaxAborts,    \* bound: runs the users abort
  MaxFaults,    \* bound: lost and reordered messages and new sessions
  MaxInFlight   \* bound: messages on their way to one peer

\* "renew": a client loses its conversation, and a new DAKE follows.
FaultKinds == {"lose", "reorder", "renew"}

ASSUME AnswerAssumption == Answer # {}
ASSUME FaultsAssumption == Faults \subseteq FaultKinds
ASSUME BoundsAssumption ==
  /\ MaxStarts \in Nat /\ MaxReplies \in Nat /\ MaxAborts \in Nat
  /\ MaxFaults \in Nat /\ MaxInFlight \in Nat

VARIABLES
  smp,      \* smp[p]: otr->smp of peer p
  net,      \* net[p]: the messages on their way to p
  session,  \* the number of the session, which determines the ssid
  typed,    \* what the users have typed, in the order of the numbers drawn
  count,    \* how often the users and the faults have acted
  verdict   \* verdict[p]: the results p was told (history)

vars == <<smp, net, session, typed, count, verdict>>

Peer == {"alice", "bob"}

Other(p) == IF p = "alice" THEN "bob" ELSE "alice"

Run == Nat \X Nat

\* The hash of the initiator's fingerprint, the responder's, ssid and answer.
Secret == Peer \X Nat \X Answer

(***************************************************************************)
(* smp_protocol_s.  message1 is the number of the stored message 1, or 0.  *)
(* same stands for pa_pb and qa_qb: the secrets of message 2 and 3 agree.  *)
(***************************************************************************)
SmpProtocol ==
  [state_expect : 1 .. 4, secret : Secret \cup {<<>>}, a : Nat, g : Run,
   message1 : Nat, same : BOOLEAN]

Message ==
  [type : {1}, a : Nat] \cup [type : {2}, run : Run, secret : Secret]
    \cup [type : {3}, run : Run, same : BOOLEAN] \cup [type : {4}, run : Run]
    \cup [type : {0}]

TypeOK ==
  /\ smp \in [Peer -> SmpProtocol]
  /\ net \in [Peer -> Seq(Message)]
  /\ session \in 0 .. MaxFaults
  /\ typed \in Seq([by : Peer, answer : Answer, ssid : Nat])
  /\ count \in [starts : 0 .. MaxStarts, replies : 0 .. MaxReplies,
                aborts : 0 .. MaxAborts, faults : 0 .. MaxFaults]
  /\ verdict \in [Peer -> SUBSET [run : Run, success : BOOLEAN]]

\* otrng_smp_protocol_init.
NewSmp ==
  [state_expect |-> 1, secret |-> <<>>, a |-> 0, g |-> <<0, 0>>,
   message1 |-> 0, same |-> FALSE]

Init ==
  /\ smp = [p \in Peer |-> NewSmp]
  /\ net = [p \in Peer |-> <<>>]
  /\ session = 0
  /\ typed = <<>>
  /\ count = [starts |-> 0, replies |-> 0, aborts |-> 0, faults |-> 0]
  /\ verdict = [p \in Peer |-> {}]

-----------------------------------------------------------------------------
\* The network.
Without(s, n) == SubSeq(s, 1, n - 1) \o SubSeq(s, n + 1, Len(s))

Post(p, out) ==
  /\ Len(net[Other(p)]) + Len(out) <= MaxInFlight
  /\ net' = [net EXCEPT ![Other(p)] = @ \o out]

\* p has handled message n and answers with out.
Handle(p, n, out) ==
  /\ Len(net[Other(p)]) + Len(out) <= MaxInFlight
  /\ net' = [net EXCEPT ![p] = Without(@, n), ![Other(p)] = @ \o out]

Counts(kind, max) ==
  /\ count[kind] < max
  /\ count' = [count EXCEPT ![kind] = @ + 1]

\* Message i is numbered i, and the ABORT TLV 0.
Abort == [type |-> 0]

\* What a message depends on: message 1 on the initiator's scalars, message 2 on
\* both peers' and on the responder's secret, message 3 also on whether the
\* secrets agree.
SmpMessage1(a) == [type |-> 1, a |-> a]
SmpMessage2(run, secret) == [type |-> 2, run |-> run, secret |-> secret]
SmpMessage3(run, same) == [type |-> 3, run |-> run, same |-> same]
SmpMessage4(run) == [type |-> 4, run |-> run]

-----------------------------------------------------------------------------
(***************************************************************************)
(* What the users do.                                                      *)
(***************************************************************************)

\* otrng_smp_start and otrng_smp_initiate.
Initiate(p, answer) ==
  LET a == Len(typed) + 1
  IN /\ smp[p].state_expect = 1
     /\ Counts("starts", MaxStarts)
     /\ smp' = [smp EXCEPT ![p].state_expect = 2, ![p].a = a,
                           ![p].secret = <<p, session, answer>>]
     /\ typed' = Append(typed, [by |-> p, answer |-> answer, ssid |-> session])
     /\ Post(p, <<SmpMessage1(a)>>)
     /\ UNCHANGED <<session, verdict>>

\* In the middle of a run only an abort is sent, and the run goes on here.
InitiateTooEarly(p) ==
  /\ smp[p].state_expect # 1
  /\ Counts("starts", MaxStarts)
  /\ Post(p, <<Abort>>)
  /\ UNCHANGED <<smp, session, typed, verdict>>

(***************************************************************************)
(* otrng_smp_continue, otrng_smp_provide_secret and                        *)
(* otrng_reply_with_smp_message_2.  The application answers a question it  *)
(* was asked in this conversation, but maybe late or once more: message 1  *)
(* is kept when its run is over.                                           *)
(***************************************************************************)
ProvideSecret(p, answer) ==
  LET run    == <<smp[p].message1, Len(typed) + 1>>
      secret == <<Other(p), session, answer>>
  IN /\ smp[p].state_expect = 1
     /\ smp[p].message1 # 0
     /\ Counts("replies", MaxReplies)
     /\ smp' = [smp EXCEPT ![p].state_expect = 3, ![p].g = run,
                           ![p].secret = secret]
     /\ typed' = Append(typed, [by |-> p, answer |-> answer, ssid |-> session])
     /\ Post(p, <<SmpMessage2(run, secret)>>)
     /\ UNCHANGED <<session, verdict>>

\* otrng_smp_abort.
UserAborts(p) ==
  /\ Counts("aborts", MaxAborts)
  /\ smp' = [smp EXCEPT ![p].state_expect = 1]
  /\ Post(p, <<Abort>>)
  /\ UNCHANGED <<session, typed, verdict>>

-----------------------------------------------------------------------------
(***************************************************************************)
(* otrng_process_smp.                                                      *)
(***************************************************************************)

\* receive_smp_message_1: the application is asked for the answer.
ReceiveMessage1(p, n) ==
  /\ net[p][n].type = 1
  /\ smp[p].state_expect = 1
  /\ smp' = [smp EXCEPT ![p].message1 = net[p][n].a]
  /\ Handle(p, n, <<>>)
  /\ UNCHANGED verdict

\* The proofs of message 2 verify with the initiator's own scalars.
ValidMessage2(s, msg) == msg.run[1] = s.a

\* reply_with_smp_message_3.
ReceiveMessage2(p, n) ==
  LET msg  == net[p][n]
      run  == <<smp[p].a, msg.run[2]>>
      same == run = msg.run /\ msg.secret = smp[p].secret
  IN /\ msg.type = 2
     /\ smp[p].state_expect = 2
     /\ ValidMessage2(smp[p], msg)
     /\ smp' = [smp EXCEPT ![p].state_expect = 4, ![p].g = run,
                           ![p].same = same]
     /\ Handle(p, n, <<SmpMessage3(run, same)>>)
     /\ UNCHANGED verdict

\* A faulty variant: the proofs are not checked.
ValidMessage3Always(s, msg) == TRUE

\* The proofs of message 3 verify with the bases of the responder's run.
ValidMessage3(s, msg) == msg.run = s.g

\* reply_with_smp_message_4: message 4 is sent even if the secrets differ.
ReceiveMessage3(p, n) ==
  LET msg  == net[p][n]
      same == msg.same /\ msg.run = smp[p].g
  IN /\ msg.type = 3
     /\ smp[p].state_expect = 3
     /\ ValidMessage3(smp[p], msg)
     /\ smp' = [smp EXCEPT ![p].state_expect = 1]
     /\ verdict' = [verdict EXCEPT ![p] =
                      @ \cup {[run |-> smp[p].g, success |-> same]}]
     /\ Handle(p, n, <<SmpMessage4(smp[p].g)>>)

\* The proof of message 4 verifies with the initiator's qa_qb.
ValidMessage4(s, msg) == msg.run = s.g

\* A faulty variant: the step after message 4 is 5, and not 1 again.
ReceiveMessage4Unreset(p, n) ==
  /\ net[p][n].type = 4
  /\ smp[p].state_expect = 4
  /\ smp' = [smp EXCEPT ![p].state_expect = @ + 1]
  /\ Handle(p, n, <<>>)
  /\ UNCHANGED verdict

ReceiveMessage4(p, n) ==
  LET msg == net[p][n]
  IN /\ msg.type = 4
     /\ smp[p].state_expect = 4
     /\ ValidMessage4(smp[p], msg)
     /\ smp' = [smp EXCEPT ![p].state_expect = 1]
     /\ verdict' = [verdict EXCEPT ![p] =
                      @ \cup {[run |-> smp[p].g, success |-> smp[p].same]}]
     /\ Handle(p, n, <<>>)

\* OTRNG_SMP_EVENT_ERROR: the state is reset and the other peer is not told.
ReceiveInvalid(p, n) ==
  LET msg == net[p][n]
  IN /\ msg.type \in 2 .. 4
     /\ smp[p].state_expect = msg.type
     /\ CASE msg.type = 2 -> ~ValidMessage2(smp[p], msg)
          [] msg.type = 3 -> ~ValidMessage3(smp[p], msg)
          [] msg.type = 4 -> ~ValidMessage4(smp[p], msg)
     /\ smp' = [smp EXCEPT ![p].state_expect = 1]
     /\ Handle(p, n, <<>>)
     /\ UNCHANGED verdict

\* Faulty variants: the other peer is not told, and an abort is answered too.
ReceiveUnexpectedQuietly(p, n) ==
  /\ net[p][n].type \in 1 .. 4
  /\ smp[p].state_expect # net[p][n].type
  /\ smp' = [smp EXCEPT ![p].state_expect = 1]
  /\ Handle(p, n, <<>>)
  /\ UNCHANGED verdict

ReceiveAbortAnswered(p, n) ==
  /\ net[p][n].type = 0
  /\ smp' = [smp EXCEPT ![p].state_expect = 1]
  /\ Handle(p, n, <<Abort>>)
  /\ UNCHANGED verdict

\* OTRNG_SMP_EVENT_ABORT: a message of another step than the expected one.
ReceiveUnexpected(p, n) ==
  /\ net[p][n].type \in 1 .. 4
  /\ smp[p].state_expect # net[p][n].type
  /\ smp' = [smp EXCEPT ![p].state_expect = 1]
  /\ Handle(p, n, <<Abort>>)
  /\ UNCHANGED verdict

ReceiveAbort(p, n) ==
  /\ net[p][n].type = 0
  /\ smp' = [smp EXCEPT ![p].state_expect = 1]
  /\ Handle(p, n, <<>>)
  /\ UNCHANGED verdict

\* Taking a message out of turn counts as a fault.
Receive(p, n) ==
  /\ \/ ReceiveMessage1(p, n) \/ ReceiveMessage2(p, n) \/ ReceiveMessage3(p, n)
     \/ ReceiveMessage4(p, n) \/ ReceiveInvalid(p, n)
     \/ ReceiveUnexpected(p, n) \/ ReceiveAbort(p, n)
  /\ UNCHANGED <<session, typed>>

ReceiveNext(p) ==
  /\ net[p] # <<>>
  /\ Receive(p, 1)
  /\ UNCHANGED count

ReceiveOutOfOrder(p) ==
  /\ "reorder" \in Faults
  /\ Counts("faults", MaxFaults)
  /\ \E n \in 2 .. Len(net[p]) : Receive(p, n)

Lose(p) ==
  /\ "lose" \in Faults
  /\ net[p] # <<>>
  /\ Counts("faults", MaxFaults)
  /\ net' = [net EXCEPT ![p] = Tail(@)]
  /\ UNCHANGED <<smp, session, typed, verdict>>

\* p's conversation is a new one after the DAKE; the other peer's SMP state
\* belongs to its conversation and survives the DAKE.
Renew(p) ==
  /\ "renew" \in Faults
  /\ Counts("faults", MaxFaults)
  /\ smp' = [smp EXCEPT ![p] = NewSmp]
  /\ net' = [q \in Peer |-> <<>>]
  /\ session' = session + 1
  /\ UNCHANGED <<typed, verdict>>

Next ==
  \E p \in Peer :
    \/ \E answer \in Answer : Initiate(p, answer) \/ ProvideSecret(p, answer)
    \/ InitiateTooEarly(p) \/ UserAborts(p)
    \/ ReceiveNext(p) \/ ReceiveOutOfOrder(p) \/ Lose(p) \/ Renew(p)

Spec == Init /\ [][Next]_vars

\* The applications handle what they receive; nothing is assumed of the users.
Fairness == \A p \in Peer : WF_vars(ReceiveNext(p))

FairSpec == Spec /\ Fairness

-----------------------------------------------------------------------------
(***************************************************************************)
(* Properties.                                                             *)
(***************************************************************************)

\* A verdict is about what the users typed for this very run: it is a success
\* if and only if both typed the same answer in the same session, whatever
\* other runs were started, aborted or answered late in between.  The
\* initiator's verdict is one that the responder was told before.
VerdictsRight ==
  \A p \in Peer : \A v \in verdict[p] :
    LET asked    == typed[v.run[1]]
        answered == typed[v.run[2]]
    IN /\ answered.by = Other(asked.by)
       /\ v.success <=> /\ answered.answer = asked.answer
                        /\ answered.ssid = asked.ssid
       /\ p = asked.by => v \in verdict[Other(p)]

\* Nobody waits for a message that will not come: if nothing was lost and
\* nothing is on its way, a peer in the middle of a run has asked a question
\* that the other user can still answer.
QuietIsConsistent ==
  count.faults = 0 /\ (\A p \in Peer : net[p] = <<>>) =>
    \A p \in Peer :
      \/ smp[p].state_expect = 1
      \/ /\ smp[p].state_expect = 2
         /\ smp[Other(p)].state_expect = 1
         /\ smp[Other(p)].message1 = smp[p].a

\* Whatever was lost, reordered or aborted, the exchange comes to rest once the
\* users do: an unexpected message is answered with an abort, but an abort never
\* is, so that two peers do not abort each other for ever.
ComesToRest == <>[](\A p \in Peer : net[p] = <<>>)
=============================================================================
