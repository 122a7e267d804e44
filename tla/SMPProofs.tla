------------------------------- MODULE SMPProofs -------------------------------
(***************************************************************************)
(* Theorems about SMP, with their proofs: the type invariant; that every   *)
(* verdict is the right one for what the two users typed, for any number   *)
(* of runs, answers, aborts, losses, reorderings and new sessions; and     *)
(* that nobody waits for ever when the network is silent and nothing was   *)
(* lost, reordered or started anew.                                        *)
(***************************************************************************)
EXTENDS SMP, QueueProofs

\* The other peer.
LEMMA OtherPeer ==
  \A p \in Peer : Other(p) \in Peer /\ Other(p) # p /\ Other(Other(p)) = p
  BY DEF Peer, Other

-----------------------------------------------------------------------------
(***************************************************************************)
(* What a step does to the queues.                                         *)
(***************************************************************************)

\* Nothing but the messages of out is new in a queue, and only in the other's.
Adds(p, out) ==
  \A q \in Peer : \A m \in Elems(net'[q]) :
    m \in Elems(net[q]) \/ (q = Other(p) /\ m \in Elems(out))

\* p sends out.
LEMMA PostAdds ==
  ASSUME NEW p \in Peer, NEW out \in Seq(Message), Post(p, out),
         net \in [Peer -> Seq(Message)]
  PROVE  net' \in [Peer -> Seq(Message)] /\ Adds(p, out)
<1> DEFINE s == net[Other(p)]
<1>1. s \in Seq(Message) /\ Other(p) \in Peer
  BY OtherPeer
<1>2. s \o out \in Seq(Message) /\ Elems(s \o out) \subseteq Elems(s) \cup Elems(out)
  BY <1>1, ConcatElems
<1>3. net' = [net EXCEPT ![Other(p)] = s \o out]
  BY DEF Post
<1>4. \A q \in Peer : net'[q] = IF q = Other(p) THEN s \o out ELSE net[q]
  BY <1>3
<1>5. net' \in [Peer -> Seq(Message)]
  BY <1>1, <1>2, <1>3
<1> QED
  BY <1>2, <1>4, <1>5 DEF Adds

\* p handles message n and answers with out.
LEMMA HandleAdds ==
  ASSUME NEW p \in Peer, NEW n \in 1 .. Len(net[p]), NEW out \in Seq(Message),
         Handle(p, n, out), net \in [Peer -> Seq(Message)]
  PROVE  net' \in [Peer -> Seq(Message)] /\ Adds(p, out)
<1> DEFINE s == net[Other(p)]
           t == Without(net[p], n)
<1>1. s \in Seq(Message) /\ net[p] \in Seq(Message) /\ Other(p) \in Peer /\ Other(p) # p
  BY OtherPeer
<1>2. s \o out \in Seq(Message) /\ Elems(s \o out) \subseteq Elems(s) \cup Elems(out)
  BY <1>1, ConcatElems
<1>3. t \in Seq(Message) /\ Elems(t) \subseteq Elems(net[p])
  BY <1>1, WithoutElems DEF Without
<1>4. net' = [net EXCEPT ![p] = t, ![Other(p)] = s \o out]
  BY <1>1 DEF Handle
<1> HIDE DEF t
<1>5. \A q \in Peer : net'[q] = IF q = Other(p) THEN s \o out
                               ELSE IF q = p THEN t ELSE net[q]
  BY <1>1, <1>4
<1>6. net' \in [Peer -> Seq(Message)]
  BY <1>1, <1>2, <1>3, <1>4
<1> QED
  BY <1>1, <1>2, <1>3, <1>5, <1>6 DEF Adds

\* The messages that are built.
LEMMA MessageTypes ==
  /\ Abort \in Message
  /\ \A a \in Nat : SmpMessage1(a) \in Message
  /\ \A run \in Run, secret \in Secret : SmpMessage2(run, secret) \in Message
  /\ \A run \in Run, same \in BOOLEAN : SmpMessage3(run, same) \in Message
  /\ \A run \in Run : SmpMessage4(run) \in Message
  BY DEF Abort, SmpMessage1, SmpMessage2, SmpMessage3, SmpMessage4, Message

\* The messages that are received.
LEMMA MessageFields ==
  ASSUME NEW m \in Message
  PROVE  /\ m.type \in 0 .. 4
         /\ m.type = 1 => m.a \in Nat
         /\ m.type \in 2 .. 4 => m.run \in Run
         /\ m.type = 2 => m.secret \in Secret
         /\ m.type = 3 => m.same \in BOOLEAN
  BY DEF Message

\* One message is a queue.
LEMMA OneMessage ==
  /\ <<>> \in Seq(Message)
  /\ \A m \in Message : <<m>> \in Seq(Message)
  OBVIOUS

-----------------------------------------------------------------------------
\* There are no more sessions than faults.
TypeInv == TypeOK /\ session <= count.faults

\* Counting within a bound.
LEMMA CountsType ==
  ASSUME TypeOK, NEW kind, NEW max \in Nat, Counts(kind, max),
         \/ kind = "starts" /\ max = MaxStarts
         \/ kind = "replies" /\ max = MaxReplies
         \/ kind = "aborts" /\ max = MaxAborts
         \/ kind = "faults" /\ max = MaxFaults
  PROVE  /\ count' \in [starts : 0 .. MaxStarts, replies : 0 .. MaxReplies,
                        aborts : 0 .. MaxAborts, faults : 0 .. MaxFaults]
         /\ count'.faults = IF kind = "faults" THEN count.faults + 1
                                               ELSE count.faults
<1>1. /\ count \in [starts : 0 .. MaxStarts, replies : 0 .. MaxReplies,
                    aborts : 0 .. MaxAborts, faults : 0 .. MaxFaults]
      /\ count[kind] < max /\ count' = [count EXCEPT ![kind] = @ + 1]
      /\ MaxStarts \in Nat /\ MaxReplies \in Nat /\ MaxAborts \in Nat
      /\ MaxFaults \in Nat
  BY BoundsAssumption DEF TypeOK, Counts
<1>2. CASE kind = "starts" /\ max = MaxStarts
  BY <1>1, <1>2
<1>3. CASE kind = "replies" /\ max = MaxReplies
  BY <1>1, <1>3
<1>4. CASE kind = "aborts" /\ max = MaxAborts
  BY <1>1, <1>4
<1>5. CASE kind = "faults" /\ max = MaxFaults
  BY <1>1, <1>5
<1> QED
  BY <1>2, <1>3, <1>4, <1>5

\* A protocol state after some of its fields were set.
LEMMA SmpType ==
  /\ \A s \in SmpProtocol : [s EXCEPT !.state_expect = 1] \in SmpProtocol
  /\ \A s \in SmpProtocol, x \in Nat : [s EXCEPT !.message1 = x] \in SmpProtocol
  /\ \A s \in SmpProtocol, x \in Nat, y \in Secret :
       [s EXCEPT !.state_expect = 2, !.a = x, !.secret = y] \in SmpProtocol
  /\ \A s \in SmpProtocol, x \in Run, y \in Secret :
       [s EXCEPT !.state_expect = 3, !.g = x, !.secret = y] \in SmpProtocol
  /\ \A s \in SmpProtocol, x \in Run, y \in BOOLEAN :
       [s EXCEPT !.state_expect = 4, !.g = x, !.same = y] \in SmpProtocol
<1> USE DEF SmpProtocol
<1>1. 1 \in 1 .. 4 /\ 2 \in 1 .. 4 /\ 3 \in 1 .. 4 /\ 4 \in 1 .. 4
  OBVIOUS
<1> QED
  BY <1>1, Zenon

\* The users' steps and the handlers of messages keep the types.
LEMMA TypeStep == TypeInv /\ [Next]_vars => TypeInv'
<1> SUFFICES ASSUME TypeInv, [Next]_vars PROVE TypeInv'
  OBVIOUS
<1> USE BoundsAssumption
<1>0. /\ TypeOK /\ net \in [Peer -> Seq(Message)] /\ smp \in [Peer -> SmpProtocol]
      /\ session \in Nat /\ session <= count.faults /\ count.faults \in Nat
      /\ Len(typed) \in Nat
  BY DEF TypeInv, TypeOK
<1>1. ASSUME NEW p \in Peer, NEW answer \in Answer, Initiate(p, answer)
      PROVE  TypeInv'
  <2> DEFINE a == Len(typed) + 1
  <2>1. /\ Counts("starts", MaxStarts) /\ Post(p, <<SmpMessage1(a)>>)
        /\ smp' = [smp EXCEPT ![p].state_expect = 2, ![p].a = a,
                              ![p].secret = <<p, session, answer>>]
        /\ typed' = Append(typed, [by |-> p, answer |-> answer, ssid |-> session])
        /\ session' = session /\ verdict' = verdict
    BY <1>1 DEF Initiate
  <2>2. a \in Nat /\ <<p, session, answer>> \in Secret
    BY <1>0 DEF Secret
  <2>3. smp' \in [Peer -> SmpProtocol]
    <3>1. [smp[p] EXCEPT !.state_expect = 2, !.a = a, !.secret = <<p, session, answer>>]
            \in SmpProtocol
      BY <1>0, <2>2, SmpType
    <3>2. smp' = [smp EXCEPT ![p] =
             [smp[p] EXCEPT !.state_expect = 2, !.a = a, !.secret = <<p, session, answer>>]]
      BY <2>1
    <3> QED
      BY <1>0, <3>1, <3>2
  <2>4. net' \in [Peer -> Seq(Message)]
    BY <1>0, <2>1, <2>2, PostAdds, MessageTypes, OneMessage
  <2>5. /\ count' \in [starts : 0 .. MaxStarts, replies : 0 .. MaxReplies,
                       aborts : 0 .. MaxAborts, faults : 0 .. MaxFaults]
        /\ count'.faults = count.faults
    BY <1>0, <2>1, CountsType
  <2>6. typed' \in Seq([by : Peer, answer : Answer, ssid : Nat])
    BY <1>0, <2>1 DEF TypeOK
  <2> QED
    BY <1>0, <2>1, <2>3, <2>4, <2>5, <2>6 DEF TypeInv, TypeOK
<1>2. ASSUME NEW p \in Peer, NEW answer \in Answer, ProvideSecret(p, answer)
      PROVE  TypeInv'
  <2> DEFINE run    == <<smp[p].message1, Len(typed) + 1>>
             secret == <<Other(p), session, answer>>
  <2>1. /\ Counts("replies", MaxReplies) /\ Post(p, <<SmpMessage2(run, secret)>>)
        /\ smp' = [smp EXCEPT ![p].state_expect = 3, ![p].g = run,
                              ![p].secret = secret]
        /\ typed' = Append(typed, [by |-> p, answer |-> answer, ssid |-> session])
        /\ session' = session /\ verdict' = verdict
    BY <1>2 DEF ProvideSecret
  <2>2. run \in Run /\ secret \in Secret
    BY <1>0, OtherPeer DEF Secret, Run, SmpProtocol
  <2> HIDE DEF run, secret
  <2>3. smp' \in [Peer -> SmpProtocol]
    <3>1. [smp[p] EXCEPT !.state_expect = 3, !.g = run, !.secret = secret]
            \in SmpProtocol
      BY <1>0, <2>2, SmpType
    <3>2. smp' = [smp EXCEPT ![p] =
             [smp[p] EXCEPT !.state_expect = 3, !.g = run, !.secret = secret]]
      BY <2>1
    <3> QED
      BY <1>0, <3>1, <3>2
  <2>4. net' \in [Peer -> Seq(Message)]
    BY <1>0, <2>1, <2>2, PostAdds, MessageTypes, OneMessage
  <2>5. /\ count' \in [starts : 0 .. MaxStarts, replies : 0 .. MaxReplies,
                       aborts : 0 .. MaxAborts, faults : 0 .. MaxFaults]
        /\ count'.faults = count.faults
    BY <1>0, <2>1, CountsType
  <2>6. typed' \in Seq([by : Peer, answer : Answer, ssid : Nat])
    BY <1>0, <2>1 DEF TypeOK
  <2> QED
    BY <1>0, <2>1, <2>3, <2>4, <2>5, <2>6 DEF TypeInv, TypeOK
<1>3. ASSUME NEW p \in Peer, InitiateTooEarly(p) PROVE TypeInv'
  <2>1. /\ Counts("starts", MaxStarts) /\ Post(p, <<Abort>>)
        /\ UNCHANGED <<smp, session, typed, verdict>>
    BY <1>3 DEF InitiateTooEarly
  <2>2. net' \in [Peer -> Seq(Message)]
    BY <1>0, <2>1, PostAdds, MessageTypes, OneMessage
  <2>3. /\ count' \in [starts : 0 .. MaxStarts, replies : 0 .. MaxReplies,
                       aborts : 0 .. MaxAborts, faults : 0 .. MaxFaults]
        /\ count'.faults = count.faults
    BY <1>0, <2>1, CountsType
  <2> QED
    BY <1>0, <2>1, <2>2, <2>3 DEF TypeInv, TypeOK
<1>4. ASSUME NEW p \in Peer, UserAborts(p) PROVE TypeInv'
  <2>1. /\ Counts("aborts", MaxAborts) /\ Post(p, <<Abort>>)
        /\ smp' = [smp EXCEPT ![p] = [smp[p] EXCEPT !.state_expect = 1]]
        /\ UNCHANGED <<session, typed, verdict>>
    BY <1>4 DEF UserAborts
  <2>2. net' \in [Peer -> Seq(Message)]
    BY <1>0, <2>1, PostAdds, MessageTypes, OneMessage
  <2>3. /\ count' \in [starts : 0 .. MaxStarts, replies : 0 .. MaxReplies,
                       aborts : 0 .. MaxAborts, faults : 0 .. MaxFaults]
        /\ count'.faults = count.faults
    BY <1>0, <2>1, CountsType
  <2>4. smp' \in [Peer -> SmpProtocol]
    BY <1>0, <2>1, SmpType
  <2> QED
    BY <1>0, <2>1, <2>2, <2>3, <2>4 DEF TypeInv, TypeOK
<1>5. ASSUME NEW p \in Peer, NEW n \in 1 .. Len(net[p]), Receive(p, n)
      PROVE  /\ smp' \in [Peer -> SmpProtocol] /\ net' \in [Peer -> Seq(Message)]
             /\ verdict' \in [Peer -> SUBSET [run : Run, success : BOOLEAN]]
             /\ UNCHANGED <<session, typed>>
  <2> DEFINE m == net[p][n]
             s == smp[p]
  <2>1. m \in Message /\ s \in SmpProtocol /\ s.a \in Nat /\ s.g \in Run
        /\ s.same \in BOOLEAN
        /\ verdict \in [Peer -> SUBSET [run : Run, success : BOOLEAN]]
        /\ UNCHANGED <<session, typed>>
    BY <1>0, <1>5 DEF SmpProtocol, TypeOK, Receive
  <2>2. /\ m.type = 1 => m.a \in Nat
        /\ m.type \in 2 .. 4 => m.run \in Run
        /\ m.type = 3 => m.same \in BOOLEAN
    BY <2>1, MessageFields
  <2>3. \A out \in Seq(Message) : Handle(p, n, out) => net' \in [Peer -> Seq(Message)]
    BY <1>0, HandleAdds
  <2>4. [s EXCEPT !.state_expect = 1] \in SmpProtocol
    BY <2>1, SmpType
  <2>5. CASE ReceiveMessage1(p, n)
    <3>1. /\ smp' = [smp EXCEPT ![p] = [s EXCEPT !.message1 = m.a]]
          /\ m.a \in Nat /\ verdict' = verdict /\ Handle(p, n, <<>>)
      BY <2>2, <2>5 DEF ReceiveMessage1
    <3>2. [s EXCEPT !.message1 = m.a] \in SmpProtocol
      BY <2>1, <3>1, SmpType
    <3> QED
      BY <1>0, <2>1, <2>3, <3>1, <3>2, OneMessage
  <2>6. CASE ReceiveMessage2(p, n)
    <3> DEFINE run  == <<s.a, m.run[2]>>
               same == run = m.run /\ m.secret = s.secret
    <3>1. /\ smp' = [smp EXCEPT ![p] =
                       [s EXCEPT !.state_expect = 4, !.g = run, !.same = same]]
          /\ m.type = 2 /\ verdict' = verdict
          /\ Handle(p, n, <<SmpMessage3(run, same)>>)
      BY <2>6, Zenon DEF ReceiveMessage2
    <3>2. run \in Run /\ same \in BOOLEAN
      <4>1. m.run \in Run
        BY <2>2, <3>1
      <4>2. m.run[2] \in Nat /\ s.a \in Nat
        BY ONLY <2>1, <4>1 DEF Run
      <4> QED
        BY ONLY <4>2 DEF Run
    <3> HIDE DEF run, same
    <3>3. [s EXCEPT !.state_expect = 4, !.g = run, !.same = same] \in SmpProtocol
      BY <2>1, <3>2, SmpType
    <3>4. <<SmpMessage3(run, same)>> \in Seq(Message)
      BY <3>2, MessageTypes, OneMessage
    <3> QED
      BY <1>0, <2>1, <2>3, <3>1, <3>3, <3>4
  <2>7. CASE ReceiveMessage3(p, n)
    <3> DEFINE same == m.same /\ m.run = s.g
    <3>1. /\ smp' = [smp EXCEPT ![p] = [s EXCEPT !.state_expect = 1]]
          /\ verdict' = [verdict EXCEPT ![p] = @ \cup {[run |-> s.g, success |-> same]}]
          /\ Handle(p, n, <<SmpMessage4(s.g)>>)
      BY <2>7, Zenon DEF ReceiveMessage3
    <3>2. same \in BOOLEAN
      OBVIOUS
    <3> HIDE DEF same
    <3>3. <<SmpMessage4(s.g)>> \in Seq(Message)
      BY <2>1, MessageTypes, OneMessage
    <3>4. [run |-> s.g, success |-> same] \in [run : Run, success : BOOLEAN]
      BY <2>1, <3>2
    <3> QED
      BY <1>0, <2>1, <2>3, <2>4, <3>1, <3>3, <3>4
  <2>8. CASE ReceiveMessage4(p, n)
    <3>1. /\ smp' = [smp EXCEPT ![p] = [s EXCEPT !.state_expect = 1]]
          /\ verdict' = [verdict EXCEPT ![p] =
                           @ \cup {[run |-> s.g, success |-> s.same]}]
          /\ Handle(p, n, <<>>)
      BY <2>8, Zenon DEF ReceiveMessage4
    <3>2. [run |-> s.g, success |-> s.same] \in [run : Run, success : BOOLEAN]
      BY <2>1
    <3> QED
      BY <1>0, <2>1, <2>3, <2>4, <3>1, <3>2, OneMessage
  <2>9. CASE ReceiveInvalid(p, n) \/ ReceiveUnexpected(p, n) \/ ReceiveAbort(p, n)
    <3>1. /\ smp' = [smp EXCEPT ![p] = [s EXCEPT !.state_expect = 1]]
          /\ verdict' = verdict
          /\ Handle(p, n, <<>>) \/ Handle(p, n, <<Abort>>)
      BY <2>9, Zenon DEF ReceiveInvalid, ReceiveUnexpected, ReceiveAbort
    <3> QED
      BY <1>0, <2>1, <2>3, <2>4, <3>1, OneMessage, MessageTypes
  <2> QED
    BY <1>5, <2>5, <2>6, <2>7, <2>8, <2>9 DEF Receive
<1>6. ASSUME NEW p \in Peer, ReceiveNext(p) PROVE TypeInv'
  <2>1. 1 \in 1 .. Len(net[p])
    BY <1>0, <1>6 DEF ReceiveNext
  <2>2. Receive(p, 1) /\ count' = count
    BY <1>6 DEF ReceiveNext
  <2> QED
    BY <1>0, <1>5, <2>1, <2>2 DEF TypeInv, TypeOK
<1>7. ASSUME NEW p \in Peer, ReceiveOutOfOrder(p) PROVE TypeInv'
  <2>1. PICK n \in 2 .. Len(net[p]) : Receive(p, n)
    BY <1>7 DEF ReceiveOutOfOrder
  <2>2. n \in 1 .. Len(net[p])
    BY <1>0
  <2>3. /\ count' \in [starts : 0 .. MaxStarts, replies : 0 .. MaxReplies,
                       aborts : 0 .. MaxAborts, faults : 0 .. MaxFaults]
        /\ count'.faults = count.faults + 1
    BY <1>0, <1>7, CountsType DEF ReceiveOutOfOrder
  <2>4. /\ smp' \in [Peer -> SmpProtocol] /\ net' \in [Peer -> Seq(Message)]
        /\ verdict' \in [Peer -> SUBSET [run : Run, success : BOOLEAN]]
        /\ session' = session /\ typed' = typed
    BY <1>5, <2>1, <2>2
  <2>5. session' \in 0 .. MaxFaults /\ session' <= count'.faults
    BY <1>0, <2>3, <2>4, SMTT(30)
  <2> QED
    BY <1>0, <2>3, <2>4, <2>5, Zenon DEF TypeInv, TypeOK
<1>8. ASSUME NEW p \in Peer, Lose(p) PROVE TypeInv'
  <2>1. /\ net[p] # <<>> /\ Counts("faults", MaxFaults)
        /\ net' = [net EXCEPT ![p] = Tail(net[p])]
        /\ UNCHANGED <<smp, session, typed, verdict>>
    BY <1>8 DEF Lose
  <2>2. net' \in [Peer -> Seq(Message)]
    BY <1>0, <2>1, TailElems
  <2>3. /\ count' \in [starts : 0 .. MaxStarts, replies : 0 .. MaxReplies,
                       aborts : 0 .. MaxAborts, faults : 0 .. MaxFaults]
        /\ count'.faults = count.faults + 1
    BY <1>0, <2>1, CountsType
  <2>4. session' \in 0 .. MaxFaults /\ session' <= count'.faults
    BY <1>0, <2>1, <2>3, SMTT(30)
  <2> QED
    BY <1>0, <2>1, <2>2, <2>3, <2>4, Zenon DEF TypeInv, TypeOK
<1>9. ASSUME NEW p \in Peer, Renew(p) PROVE TypeInv'
  <2>1. /\ Counts("faults", MaxFaults)
        /\ smp' = [smp EXCEPT ![p] = NewSmp]
        /\ net' = [q \in Peer |-> <<>>]
        /\ session' = session + 1
        /\ UNCHANGED <<typed, verdict>>
    BY <1>9 DEF Renew
  <2>2. NewSmp \in SmpProtocol
    BY DEF NewSmp, SmpProtocol, Run
  <2>3. /\ count' \in [starts : 0 .. MaxStarts, replies : 0 .. MaxReplies,
                       aborts : 0 .. MaxAborts, faults : 0 .. MaxFaults]
        /\ count'.faults = count.faults + 1
    BY <1>0, <2>1, CountsType
  <2>4. smp' \in [Peer -> SmpProtocol] /\ net' \in [Peer -> Seq(Message)]
    BY <1>0, <2>1, <2>2, OneMessage
  <2>5. session' \in 0 .. MaxFaults /\ session' <= count'.faults
    BY <1>0, <2>1, <2>3
  <2> QED
    BY <1>0, <2>1, <2>3, <2>4, <2>5 DEF TypeInv, TypeOK
<1>10. CASE UNCHANGED vars
  BY <1>0, <1>10 DEF vars, TypeInv, TypeOK
<1> QED
  BY <1>1, <1>2, <1>3, <1>4, <1>6, <1>7, <1>8, <1>9, <1>10 DEF Next

LEMMA TypeInit == Init => TypeInv
<1> SUFFICES ASSUME Init PROVE TypeInv
  OBVIOUS
<1>1. NewSmp \in SmpProtocol
  BY DEF NewSmp, SmpProtocol, Run
<1> QED
  BY <1>1, BoundsAssumption DEF Init, TypeInv, TypeOK

\* The type invariant of the protocol state, the messages and the verdicts.
THEOREM TypeCorrect == Spec => []TypeOK
<1>1. TypeInv => TypeOK
  BY DEF TypeInv
<1> QED
  BY <1>1, TypeInit, TypeStep, PTL DEF Spec


-----------------------------------------------------------------------------
(***************************************************************************)
(* Verdicts are right.  T stands for typed and V for verdict, so that a    *)
(* state and the next one can be compared.                                 *)
(***************************************************************************)

\* Number x was drawn by p, when p's user typed T[x].
Typed(T, x, p) == x \in 1 .. Len(T) /\ T[x].by = p

\* The run was started by p's user and answered by the other one.
RunOf(T, run, p) == Typed(T, run[1], p) /\ Typed(T, run[2], Other(p))

\* What the users typed for the run is the same.
Agree(T, run) ==
  /\ T[run[1]].answer = T[run[2]].answer
  /\ T[run[1]].ssid = T[run[2]].ssid

\* The secret made of what was typed for number x, in a run of initiator p.
SecretOf(T, x, p) == <<p, T[x].ssid, T[x].answer>>

\* What p keeps belongs to the step of the run that it waits for.
SmpRight(s, p, T) ==
  /\ s.message1 # 0 => Typed(T, s.message1, Other(p))
  /\ s.state_expect = 2 => Typed(T, s.a, p) /\ s.secret = SecretOf(T, s.a, p)
  /\ s.state_expect = 3 => RunOf(T, s.g, Other(p))
  /\ s.state_expect = 4 => RunOf(T, s.g, p) /\ (s.same <=> Agree(T, s.g))

\* A message to p is one of a run of the two, and message 4 comes after the
\* responder's verdict.
MessageRight(m, p, T, V) ==
  /\ m.type = 1 => Typed(T, m.a, Other(p))
  /\ m.type = 2 => RunOf(T, m.run, p) /\ m.secret = SecretOf(T, m.run[2], p)
  /\ m.type = 3 => RunOf(T, m.run, Other(p)) /\ (m.same <=> Agree(T, m.run))
  /\ m.type = 4 => RunOf(T, m.run, p) /\ \E v \in V[Other(p)] : v.run = m.run

VerdictRight(v, p, T, V) ==
  /\ RunOf(T, v.run, p) \/ RunOf(T, v.run, Other(p))
  /\ v.success <=> Agree(T, v.run)
  /\ RunOf(T, v.run, p) => v \in V[Other(p)]

\* The inductive invariant.
RunsRight ==
  \A p \in Peer :
    /\ SmpRight(smp[p], p, typed)
    /\ \A m \in Elems(net[p]) : MessageRight(m, p, typed, verdict)
    /\ \A v \in verdict[p] : VerdictRight(v, p, typed, verdict)

\* More was typed, and nothing of it changed.
Extends(T2, T1) ==
  /\ Len(T1) \in Nat /\ Len(T2) \in Nat /\ Len(T1) <= Len(T2)
  /\ \A k \in 1 .. Len(T1) : T2[k] = T1[k]

\* What was right of a run stays right when the users go on typing.
LEMMA ExtendsKeeps ==
  ASSUME NEW T1, NEW T2, Extends(T2, T1)
  PROVE  /\ \A x, p : Typed(T1, x, p) =>
              Typed(T2, x, p) /\ SecretOf(T2, x, p) = SecretOf(T1, x, p)
         /\ \A x, p, q : Typed(T1, x, p) =>
              SecretOf(T2, x, q) = SecretOf(T1, x, q)
         /\ \A run, p : RunOf(T1, run, p) => RunOf(T2, run, p)
         /\ \A run, p : RunOf(T1, run, p) => (Agree(T2, run) <=> Agree(T1, run))
<1>1. \A x, p : Typed(T1, x, p) => Typed(T2, x, p) /\ T2[x] = T1[x]
  BY DEF Extends, Typed
<1> QED
  BY <1>1, Zenon DEF SecretOf, RunOf, Agree

\* A run has one initiator.
LEMMA OneInitiator ==
  ASSUME NEW T, NEW run, NEW p \in Peer, RunOf(T, run, p)
  PROVE  ~RunOf(T, run, Other(p))
  BY OtherPeer DEF RunOf, Typed

LEMMA SmpStaysRight ==
  ASSUME NEW T1, NEW T2, Extends(T2, T1), NEW s, NEW p, SmpRight(s, p, T1)
  PROVE  SmpRight(s, p, T2)
<1>1. s.message1 # 0 => Typed(T2, s.message1, Other(p))
  BY ExtendsKeeps DEF SmpRight
<1>2. s.state_expect = 2 => Typed(T2, s.a, p) /\ s.secret = SecretOf(T2, s.a, p)
  BY ExtendsKeeps DEF SmpRight
<1>3. s.state_expect = 3 => RunOf(T2, s.g, Other(p))
  BY ExtendsKeeps DEF SmpRight
<1>4. s.state_expect = 4 => RunOf(T2, s.g, p) /\ (s.same <=> Agree(T2, s.g))
  BY ExtendsKeeps, Zenon DEF SmpRight
<1> QED
  BY <1>1, <1>2, <1>3, <1>4, Zenon DEF SmpRight

LEMMA MessageStaysRight ==
  ASSUME NEW T1, NEW T2, Extends(T2, T1), NEW V1, NEW V2, NEW p,
         V1[Other(p)] \subseteq V2[Other(p)], NEW m, MessageRight(m, p, T1, V1)
  PROVE  MessageRight(m, p, T2, V2)
<1>1. m.type = 1 => Typed(T2, m.a, Other(p))
  BY ExtendsKeeps DEF MessageRight
<1>2. m.type = 2 => RunOf(T2, m.run, p) /\ m.secret = SecretOf(T2, m.run[2], p)
  <2> SUFFICES ASSUME m.type = 2
               PROVE  RunOf(T2, m.run, p) /\ m.secret = SecretOf(T2, m.run[2], p)
    OBVIOUS
  <2>1. /\ RunOf(T1, m.run, p) /\ Typed(T1, m.run[2], Other(p))
        /\ m.secret = SecretOf(T1, m.run[2], p)
    BY DEF MessageRight, RunOf
  <2> QED
    BY <2>1, ExtendsKeeps
<1>3. m.type = 3 => RunOf(T2, m.run, Other(p)) /\ (m.same <=> Agree(T2, m.run))
  BY ExtendsKeeps, Zenon DEF MessageRight
<1>4. m.type = 4 => RunOf(T2, m.run, p) /\ \E v \in V2[Other(p)] : v.run = m.run
  BY ExtendsKeeps, Zenon DEF MessageRight
<1> QED
  BY <1>1, <1>2, <1>3, <1>4, Zenon DEF MessageRight

LEMMA VerdictStaysRight ==
  ASSUME NEW T1, NEW T2, Extends(T2, T1), NEW V1, NEW V2, NEW p \in Peer,
         V1[Other(p)] \subseteq V2[Other(p)], NEW v, VerdictRight(v, p, T1, V1)
  PROVE  VerdictRight(v, p, T2, V2)
<1>1. CASE RunOf(T1, v.run, p)
  BY <1>1, ExtendsKeeps, Zenon DEF VerdictRight
<1>2. CASE RunOf(T1, v.run, Other(p))
  <2>1. RunOf(T2, v.run, Other(p)) /\ ~RunOf(T2, v.run, p)
    BY <1>2, ExtendsKeeps, OneInitiator
  <2> QED
    BY <1>2, <2>1, ExtendsKeeps, Zenon DEF VerdictRight
<1> QED
  BY <1>1, <1>2 DEF VerdictRight

\* A step of p keeps the invariant if what p keeps, sends and concludes is right.
LEMMA RunsStep ==
  ASSUME RunsRight, NEW p \in Peer, NEW out, Adds(p, out),
         Extends(typed', typed),
         \A q \in Peer : verdict[q] \subseteq verdict'[q],
         smp'[Other(p)] = smp[Other(p)], SmpRight(smp'[p], p, typed'),
         \A m \in Elems(out) : MessageRight(m, Other(p), typed', verdict'),
         \A v \in verdict'[p] : v \in verdict[p] \/ VerdictRight(v, p, typed', verdict'),
         verdict'[Other(p)] = verdict[Other(p)]
  PROVE  RunsRight'
<1> SUFFICES ASSUME NEW q \in Peer
             PROVE  /\ SmpRight(smp'[q], q, typed')
                    /\ \A m \in Elems(net'[q]) : MessageRight(m, q, typed', verdict')
                    /\ \A v \in verdict'[q] : VerdictRight(v, q, typed', verdict')
  BY DEF RunsRight
<1>0. Other(q) \in Peer /\ (q = p \/ q = Other(p)) /\ verdict[Other(q)] \subseteq verdict'[Other(q)]
  BY OtherPeer DEF Peer, Other
<1>1. SmpRight(smp'[q], q, typed')
  BY <1>0, SmpStaysRight, Zenon DEF RunsRight
<1>2. ASSUME NEW m \in Elems(net'[q]) PROVE MessageRight(m, q, typed', verdict')
  <2>1. CASE m \in Elems(net[q])
    BY <1>0, <2>1, MessageStaysRight, ZenonT(40) DEF RunsRight
  <2>2. CASE q = Other(p) /\ m \in Elems(out)
    BY <2>2
  <2> QED
    BY <2>1, <2>2, Zenon DEF Adds
<1>3. ASSUME NEW v \in verdict'[q] PROVE VerdictRight(v, q, typed', verdict')
  <2>1. CASE v \in verdict[q]
    BY <1>0, <2>1, VerdictStaysRight, ZenonT(40) DEF RunsRight
  <2>2. CASE v \notin verdict[q]
    BY <1>0, <2>2, Zenon
  <2> QED
    BY <2>1, <2>2
<1> QED
  BY <1>1, <1>2, <1>3

\* Typing extends what was typed.
LEMMA TypingExtends ==
  ASSUME NEW X, typed \in Seq(X), NEW x \in X
  PROVE  /\ Extends(typed, typed)
         /\ typed' = typed => Extends(typed', typed)
         /\ typed' = Append(typed, x) =>
              /\ Extends(typed', typed)
              /\ Len(typed) + 1 \in 1 .. Len(typed')
              /\ typed'[Len(typed) + 1] = x
<1>1. Len(typed) \in Nat
  OBVIOUS
<1>2. Extends(typed, typed)
  BY <1>1 DEF Extends
<1>3. ASSUME typed' = Append(typed, x)
      PROVE  /\ Extends(typed', typed)
             /\ Len(typed) + 1 \in 1 .. Len(typed')
             /\ typed'[Len(typed) + 1] = x
  BY <1>1, <1>3 DEF Extends
<1> QED
  BY <1>2, <1>3

\* The handlers of messages.
LEMMA ReceiveRight ==
  ASSUME TypeInv, RunsRight, NEW p \in Peer, NEW n \in 1 .. Len(net[p]), Receive(p, n)
  PROVE  RunsRight'
<1> DEFINE m == net[p][n]
           s == smp[p]
           T == typed
           V == verdict
<1>1. /\ m \in Message /\ m \in Elems(net[p]) /\ s \in SmpProtocol
      /\ net \in [Peer -> Seq(Message)]
      /\ smp \in [Peer -> SmpProtocol]
      /\ s.a \in Nat /\ s.g \in Run /\ s.same \in BOOLEAN
      /\ verdict \in [Peer -> SUBSET [run : Run, success : BOOLEAN]]
      /\ typed' = typed
  BY DEF TypeInv, TypeOK, SmpProtocol, Receive, Elems
<1>2. /\ SmpRight(s, p, T) /\ MessageRight(m, p, T, V)
      /\ \A q \in Peer : \A v \in V[q] : VerdictRight(v, q, T, V)
  BY <1>1 DEF RunsRight
<1>3. Other(p) \in Peer /\ Other(p) # p /\ Other(Other(p)) = p
  BY OtherPeer
<1>4. Extends(typed', typed)
  BY <1>1 DEF TypeInv, TypeOK, Extends
<1>5. \A out \in Seq(Message) : Handle(p, n, out) => Adds(p, out)
  BY <1>1, HandleAdds
<1>6. /\ m.type = 1 => m.a \in Nat
      /\ m.type \in 2 .. 4 => m.run \in Run
      /\ m.type = 2 => m.secret \in Secret
      /\ m.type = 3 => m.same \in BOOLEAN
  BY <1>1, MessageFields
<1> HIDE DEF m, s
\* Going back to the first step says nothing of a run.
<1>7. SmpRight([s EXCEPT !.state_expect = 1], p, T)
  <2> DEFINE s2 == [s EXCEPT !.state_expect = 1]
  <2>1. s2.state_expect = 1 /\ s2.message1 = s.message1
    BY <1>1, Zenon DEF SmpProtocol
  <2>2. 1 # 2 /\ 1 # 3 /\ 1 # 4
    OBVIOUS
  <2> HIDE DEF s2
  <2>3. SmpRight(s2, p, T)
    BY <1>2, <2>1, <2>2, Zenon DEF SmpRight
  <2> QED
    BY <2>3 DEF s2
<1>8. CASE ReceiveMessage1(p, n)
  <2> DEFINE s2 == [s EXCEPT !.message1 = m.a]
  <2>1. /\ smp' = [smp EXCEPT ![p] = s2] /\ m.type = 1
        /\ s.state_expect = 1 /\ verdict' = verdict /\ Handle(p, n, <<>>)
    BY <1>8 DEF ReceiveMessage1, m, s
  <2>2. s2.state_expect = 1 /\ s2.message1 = m.a
    BY <1>1, <2>1, Zenon DEF SmpProtocol
  <2>3. 1 # 2 /\ 1 # 3 /\ 1 # 4
    OBVIOUS
  <2> HIDE DEF s2
  <2>4. SmpRight(s2, p, T)
    BY <1>2, <2>1, <2>2, <2>3, Zenon DEF SmpRight, MessageRight
  <2>5. smp'[p] = s2 /\ smp'[Other(p)] = smp[Other(p)]
    BY <1>1, <1>3, <2>1
  <2>6. Adds(p, <<>>)
    BY <1>5, <2>1, OneMessage
  <2> QED
    BY <1>1, <1>4, <2>1, <2>4, <2>5, <2>6, RunsStep, FewElems, ZenonT(40)
<1>9. CASE ReceiveMessage2(p, n)
  <2> DEFINE run  == <<s.a, m.run[2]>>
             same == run = m.run /\ m.secret = s.secret
             s2   == [s EXCEPT !.state_expect = 4, !.g = run, !.same = same]
             m3   == SmpMessage3(run, same)
  <2>1. /\ smp' = [smp EXCEPT ![p] = s2] /\ m.type = 2 /\ s.state_expect = 2
        /\ m.run[1] = s.a /\ verdict' = verdict /\ Handle(p, n, <<m3>>)
    BY <1>9, Zenon DEF ReceiveMessage2, ValidMessage2, m, s
  <2>2. run = m.run /\ run \in Run /\ same \in BOOLEAN
    BY <1>1, <1>6, <2>1 DEF Run
  <2>3. /\ RunOf(T, run, p) /\ m.secret = SecretOf(T, run[2], p)
        /\ s.secret = SecretOf(T, run[1], p)
    <3>1. /\ RunOf(T, m.run, p) /\ m.secret = SecretOf(T, m.run[2], p)
          /\ s.secret = SecretOf(T, s.a, p)
      BY <1>2, <2>1, Zenon DEF SmpRight, MessageRight
    <3> QED
      BY <2>1, <2>2, <3>1
  <2>4. same <=> Agree(T, run)
    <3>1. same <=> m.secret = s.secret
      BY <2>2
    <3> QED
      BY <2>3, <3>1 DEF SecretOf, Agree
  <2>5. s2.state_expect = 4 /\ s2.g = run /\ s2.same = same /\ s2.message1 = s.message1
    BY <1>1, Zenon DEF SmpProtocol
  <2>6. m3.type = 3 /\ m3.run = run /\ m3.same = same /\ m3 \in Message
    BY <2>2, MessageTypes, Zenon DEF SmpMessage3
  <2>7. 4 # 2 /\ 4 # 3 /\ 3 # 1 /\ 3 # 2 /\ 3 # 4
    OBVIOUS
  <2> HIDE DEF run, same, s2, m3
  <2>8. SmpRight(s2, p, T)
    BY <1>2, <2>3, <2>4, <2>5, <2>7, Zenon DEF SmpRight
  <2>9. MessageRight(m3, Other(p), T, V)
    BY <1>3, <2>3, <2>4, <2>6, <2>7, Zenon DEF MessageRight
  <2>10. smp'[p] = s2 /\ smp'[Other(p)] = smp[Other(p)]
    BY <1>1, <1>3, <2>1
  <2>11. Adds(p, <<m3>>) /\ \A m0 \in Elems(<<m3>>) : m0 = m3
    BY <1>5, <2>1, <2>6, OneMessage, FewElems
  <2> HIDE DEF T, V
  <2> QED
    BY <1>1, <1>4, <2>1, <2>8, <2>9, <2>10, <2>11, RunsStep, ZenonT(40) DEF T, V
<1>10. CASE ReceiveMessage3(p, n)
  <2> DEFINE same == m.same /\ m.run = s.g
             v    == [run |-> s.g, success |-> same]
             m4   == SmpMessage4(s.g)
             s2   == [s EXCEPT !.state_expect = 1]
  <2>1. /\ smp' = [smp EXCEPT ![p] = s2] /\ m.type = 3 /\ s.state_expect = 3
        /\ m.run = s.g
        /\ verdict' = [verdict EXCEPT ![p] = @ \cup {v}]
        /\ Handle(p, n, <<m4>>)
    BY <1>10, Zenon DEF ReceiveMessage3, ValidMessage3, m, s
  <2>2. RunOf(T, s.g, Other(p)) /\ (m.same <=> Agree(T, s.g))
    BY <1>2, <2>1, Zenon DEF SmpRight, MessageRight
  <2>3. same <=> Agree(T, s.g)
    BY <2>1, <2>2, Zenon
  <2>4. v.run = s.g /\ v.success = same
    BY Zenon
  <2>5. m4.type = 4 /\ m4.run = s.g /\ m4 \in Message
    BY <1>1, MessageTypes, Zenon DEF SmpMessage4
  <2>6. 4 # 1 /\ 4 # 2 /\ 4 # 3
    OBVIOUS
  <2> HIDE DEF same, v, m4
  <2>7. verdict'[p] = verdict[p] \cup {v} /\ verdict'[Other(p)] = verdict[Other(p)]
    BY <1>1, <1>3, <2>1
  <2>8. \A q \in Peer : verdict[q] \subseteq verdict'[q]
    BY <1>1, <2>1
  <2>9. ~RunOf(T, s.g, p)
    BY <1>3, <2>2, OneInitiator
  <2>10. VerdictRight(v, p, T, verdict')
    BY <2>2, <2>3, <2>4, <2>9, Zenon DEF VerdictRight
  <2>11. MessageRight(m4, Other(p), T, verdict')
    <3>1. v \in verdict'[Other(Other(p))] /\ v.run = m4.run
      BY <1>3, <2>4, <2>5, <2>7
    <3> QED
      BY <2>2, <2>5, <2>6, <3>1, Zenon DEF MessageRight
  <2>12. smp'[p] = s2 /\ smp'[Other(p)] = smp[Other(p)]
    BY <1>1, <1>3, <2>1
  <2>13. Adds(p, <<m4>>) /\ \A m0 \in Elems(<<m4>>) : m0 = m4
    BY <1>5, <2>1, <2>5, OneMessage, FewElems
  <2>14. \A w \in verdict'[p] : w \in verdict[p] \/ VerdictRight(w, p, typed', verdict')
    BY <1>1, <2>7, <2>10, Zenon
  <2>15. SmpRight(s2, p, T)
    BY <1>7
  <2> HIDE DEF T, V, s2
  <2> QED
    BY <1>1, <1>4, <2>7, <2>8, <2>11, <2>12, <2>13, <2>14, <2>15, RunsStep, ZenonT(40)
    DEF T, V
<1>11. CASE ReceiveMessage4(p, n)
  <2> DEFINE v  == [run |-> s.g, success |-> s.same]
             s2 == [s EXCEPT !.state_expect = 1]
  <2>1. /\ smp' = [smp EXCEPT ![p] = s2] /\ m.type = 4 /\ s.state_expect = 4
        /\ m.run = s.g
        /\ verdict' = [verdict EXCEPT ![p] = @ \cup {v}]
        /\ Handle(p, n, <<>>)
    BY <1>11, Zenon DEF ReceiveMessage4, ValidMessage4, m, s
  <2>2. /\ RunOf(T, s.g, p) /\ (s.same <=> Agree(T, s.g))
        /\ \E w \in V[Other(p)] : w.run = s.g
    BY <1>2, <2>1, Zenon DEF SmpRight, MessageRight
  <2>3. PICK w \in V[Other(p)] : w.run = s.g
    BY <2>2
  <2>4. w.success <=> s.same
    BY <1>2, <1>3, <2>2, <2>3, Zenon DEF VerdictRight
  <2>5. w \in [run : Run, success : BOOLEAN]
    BY <1>1, <1>3
  <2>6. w.success = s.same
    <3>1. w.success \in BOOLEAN /\ s.same \in BOOLEAN
      BY <1>1, <2>5
    <3>2. \A x, y \in BOOLEAN : (x <=> y) => x = y
      OBVIOUS
    <3> QED
      BY <2>4, <3>1, <3>2, Zenon
  <2>7. w = [run |-> w.run, success |-> w.success]
    BY <2>5, Zenon
  <2>8. w = v
    BY <2>3, <2>6, <2>7, Zenon
  <2>9. v.run = s.g /\ v.success = s.same
    BY Zenon
  <2> HIDE DEF v
  <2>10. verdict'[p] = verdict[p] \cup {v} /\ verdict'[Other(p)] = verdict[Other(p)]
    BY <1>1, <1>3, <2>1
  <2>11. \A q \in Peer : verdict[q] \subseteq verdict'[q]
    BY <1>1, <2>1
  <2>12. VerdictRight(v, p, T, verdict')
    BY <2>2, <2>3, <2>8, <2>9, <2>10, Zenon DEF VerdictRight
  <2>13. smp'[p] = s2 /\ smp'[Other(p)] = smp[Other(p)]
    BY <1>1, <1>3, <2>1
  <2>14. Adds(p, <<>>)
    BY <1>5, <2>1, OneMessage
  <2>15. \A w0 \in verdict'[p] : w0 \in verdict[p] \/ VerdictRight(w0, p, typed', verdict')
    BY <1>1, <2>10, <2>12, Zenon
  <2>16. SmpRight(s2, p, T)
    BY <1>7
  <2> HIDE DEF T, V, s2
  <2> QED
    BY <1>1, <1>4, <2>10, <2>11, <2>13, <2>14, <2>15, <2>16, RunsStep, FewElems, ZenonT(40)
    DEF T, V
<1>12. CASE ReceiveInvalid(p, n) \/ ReceiveUnexpected(p, n) \/ ReceiveAbort(p, n)
  <2> DEFINE s2 == [s EXCEPT !.state_expect = 1]
  <2>1. /\ smp' = [smp EXCEPT ![p] = s2] /\ verdict' = verdict
        /\ Handle(p, n, <<>>) \/ Handle(p, n, <<Abort>>)
    BY <1>12, Zenon DEF ReceiveInvalid, ReceiveUnexpected, ReceiveAbort, s
  <2>2. smp'[p] = s2 /\ smp'[Other(p)] = smp[Other(p)]
    BY <1>1, <1>3, <2>1
  <2>3. SmpRight(s2, p, T)
    BY <1>7
  <2>4. MessageRight(Abort, Other(p), T, V)
    BY DEF Abort, MessageRight
  <2>5. PICK out \in {<<>>, <<Abort>>} : Adds(p, out)
    BY <1>5, <2>1, OneMessage, MessageTypes
  <2>6. \A m0 \in Elems(out) : m0 = Abort
    BY <2>5, FewElems
  <2> HIDE DEF T, V, s2
  <2> QED
    BY <1>1, <1>4, <2>1, <2>2, <2>3, <2>4, <2>5, <2>6, RunsStep, ZenonT(40) DEF T, V
<1> QED
  BY <1>8, <1>9, <1>10, <1>11, <1>12 DEF Receive

LEMMA RightStep == TypeInv /\ RunsRight /\ [Next]_vars => RunsRight'
<1> SUFFICES ASSUME TypeInv, RunsRight, [Next]_vars PROVE RunsRight'
  OBVIOUS
<1> DEFINE Entry == [by : Peer, answer : Answer, ssid : Nat]
<1>0. /\ net \in [Peer -> Seq(Message)] /\ smp \in [Peer -> SmpProtocol]
      /\ session \in Nat /\ typed \in Seq(Entry) /\ Len(typed) \in Nat
      /\ verdict \in [Peer -> SUBSET [run : Run, success : BOOLEAN]]
  BY BoundsAssumption DEF TypeInv, TypeOK
<1>00. \A q \in Peer : verdict[q] \subseteq verdict[q]
  OBVIOUS
<1>p. /\ \A p \in Peer : Other(p) \in Peer /\ Other(p) # p /\ Other(Other(p)) = p
      /\ \A p \in Peer : MessageRight(Abort, Other(p), typed, verdict)
      /\ Extends(typed, typed)
  BY <1>0, OtherPeer DEF Abort, MessageRight, Extends
<1>1. ASSUME NEW p \in Peer, NEW answer \in Answer, Initiate(p, answer)
      PROVE  RunsRight'
  <2> DEFINE a  == Len(typed) + 1
             e  == [by |-> p, answer |-> answer, ssid |-> session]
             sc == <<p, session, answer>>
             s2 == [smp[p] EXCEPT !.state_expect = 2, !.a = a, !.secret = sc]
             m1 == SmpMessage1(a)
  <2>1. /\ Post(p, <<m1>>) /\ smp' = [smp EXCEPT ![p] = s2]
        /\ typed' = Append(typed, e) /\ verdict' = verdict
    BY <1>1 DEF Initiate
  <2>2. /\ e \in Entry /\ e.by = p /\ e.answer = answer /\ e.ssid = session
        /\ a \in Nat
    BY <1>0
  <2>3. /\ Extends(typed', typed) /\ a \in 1 .. Len(typed') /\ typed'[a] = e
    BY <1>0, <2>1, <2>2, TypingExtends
  <2>4. Typed(typed', a, p) /\ sc = SecretOf(typed', a, p)
    BY <2>2, <2>3 DEF Typed, SecretOf
  <2>5. s2.state_expect = 2 /\ s2.a = a /\ s2.secret = sc /\ s2.message1 = smp[p].message1
    BY <1>0, Zenon DEF SmpProtocol
  <2>6. m1.type = 1 /\ m1.a = a /\ m1 \in Message
    BY <2>2, MessageTypes DEF SmpMessage1
  <2>7. Adds(p, <<m1>>) /\ \A m \in Elems(<<m1>>) : m = m1
    BY <1>0, <2>1, <2>6, PostAdds, OneMessage, FewElems
  <2>8. smp'[p] = s2 /\ smp'[Other(p)] = smp[Other(p)]
    BY <1>0, <1>p, <2>1
  <2>9. 2 # 3 /\ 2 # 4 /\ 1 # 2 /\ 1 # 3 /\ 1 # 4
    OBVIOUS
  <2>10. SmpRight(smp[p], p, typed')
    BY <2>3, SmpStaysRight DEF RunsRight
  <2> HIDE DEF a, e, sc, s2, m1
  <2>11. SmpRight(s2, p, typed')
    BY <2>4, <2>5, <2>9, <2>10, Zenon DEF SmpRight
  <2>12. MessageRight(m1, Other(p), typed', verdict')
    BY <1>p, <2>4, <2>6, <2>9, Zenon DEF MessageRight
  <2> QED
    BY <1>00, <2>1, <2>3, <2>7, <2>8, <2>11, <2>12, RunsStep, ZenonT(40)
<1>2. ASSUME NEW p \in Peer, NEW answer \in Answer, ProvideSecret(p, answer)
      PROVE  RunsRight'
  <2> DEFINE a   == Len(typed) + 1
             e   == [by |-> p, answer |-> answer, ssid |-> session]
             run == <<smp[p].message1, a>>
             sc  == <<Other(p), session, answer>>
             s2  == [smp[p] EXCEPT !.state_expect = 3, !.g = run, !.secret = sc]
             m2  == SmpMessage2(run, sc)
  <2>1. /\ Post(p, <<m2>>) /\ smp' = [smp EXCEPT ![p] = s2]
        /\ typed' = Append(typed, e) /\ verdict' = verdict /\ smp[p].message1 # 0
    BY <1>2 DEF ProvideSecret
  <2>2. /\ e \in Entry /\ e.by = p /\ e.answer = answer /\ e.ssid = session
        /\ a \in Nat /\ run \in Run /\ sc \in Secret
        /\ run[1] = smp[p].message1 /\ run[2] = a
    BY <1>0, <1>p DEF Run, Secret, SmpProtocol
  <2>3. /\ Extends(typed', typed) /\ a \in 1 .. Len(typed') /\ typed'[a] = e
    BY <1>0, <2>1, <2>2, TypingExtends
  <2>4. Typed(typed', a, p) /\ sc = SecretOf(typed', a, Other(p))
    BY <2>2, <2>3 DEF Typed, SecretOf
  <2>5. s2.state_expect = 3 /\ s2.g = run /\ s2.message1 = smp[p].message1
    BY <1>0, Zenon DEF SmpProtocol
  <2>6. m2.type = 2 /\ m2.run = run /\ m2.secret = sc /\ m2 \in Message
    BY <2>2, MessageTypes DEF SmpMessage2
  <2>7. Adds(p, <<m2>>) /\ \A m \in Elems(<<m2>>) : m = m2
    BY <1>0, <2>1, <2>6, PostAdds, OneMessage, FewElems
  <2>8. smp'[p] = s2 /\ smp'[Other(p)] = smp[Other(p)]
    BY <1>0, <1>p, <2>1
  <2>9. 3 # 2 /\ 3 # 4 /\ 2 # 1 /\ 2 # 3 /\ 2 # 4
    OBVIOUS
  <2>10. SmpRight(smp[p], p, typed')
    BY <2>3, SmpStaysRight DEF RunsRight
  <2>11. Typed(typed', smp[p].message1, Other(p))
    BY <2>1, <2>10 DEF SmpRight
  <2>12. RunOf(typed', run, Other(p))
    BY <1>p, <2>2, <2>4, <2>11 DEF RunOf
  <2> HIDE DEF a, e, sc, s2, m2, run
  <2>13. SmpRight(s2, p, typed')
    BY <2>5, <2>9, <2>11, <2>12, Zenon DEF SmpRight
  <2>14. MessageRight(m2, Other(p), typed', verdict')
    BY <2>2, <2>4, <2>6, <2>9, <2>12, Zenon DEF MessageRight
  <2> QED
    BY <1>00, <2>1, <2>3, <2>7, <2>8, <2>13, <2>14, RunsStep, ZenonT(40)
<1>3. ASSUME NEW p \in Peer, InitiateTooEarly(p) PROVE RunsRight'
  <2>1. Post(p, <<Abort>>) /\ smp' = smp /\ typed' = typed /\ verdict' = verdict
    BY <1>3 DEF InitiateTooEarly
  <2>2. Adds(p, <<Abort>>) /\ \A m \in Elems(<<Abort>>) : m = Abort
    BY <1>0, <2>1, PostAdds, MessageTypes, OneMessage, FewElems
  <2>3. SmpRight(smp[p], p, typed)
    BY DEF RunsRight
  <2> QED
    BY <1>00, <1>p, <2>1, <2>2, <2>3, RunsStep, ZenonT(40)
<1>4. ASSUME NEW p \in Peer, UserAborts(p) PROVE RunsRight'
  <2> DEFINE s2 == [smp[p] EXCEPT !.state_expect = 1]
  <2>1. Post(p, <<Abort>>) /\ smp' = [smp EXCEPT ![p] = s2] /\ typed' = typed /\ verdict' = verdict
    BY <1>4 DEF UserAborts
  <2>2. Adds(p, <<Abort>>) /\ \A m \in Elems(<<Abort>>) : m = Abort
    BY <1>0, <2>1, PostAdds, MessageTypes, OneMessage, FewElems
  <2>3. s2.state_expect = 1 /\ s2.message1 = smp[p].message1 /\ SmpRight(smp[p], p, typed)
    BY <1>0, Zenon DEF SmpProtocol, RunsRight
  <2>4. 1 # 2 /\ 1 # 3 /\ 1 # 4
    OBVIOUS
  <2>5. smp'[p] = s2 /\ smp'[Other(p)] = smp[Other(p)]
    BY <1>0, <1>p, <2>1
  <2> HIDE DEF s2
  <2>6. SmpRight(s2, p, typed)
    BY <2>3, <2>4, Zenon DEF SmpRight
  <2> QED
    BY <1>00, <1>p, <2>1, <2>2, <2>5, <2>6, RunsStep, ZenonT(40)
<1>5. ASSUME NEW p \in Peer, ReceiveNext(p) PROVE RunsRight'
  <2>1. 1 \in 1 .. Len(net[p]) /\ Receive(p, 1)
    BY <1>0, <1>5 DEF ReceiveNext
  <2> QED
    BY <2>1, ReceiveRight
<1>6. ASSUME NEW p \in Peer, ReceiveOutOfOrder(p) PROVE RunsRight'
  <2>1. PICK n \in 2 .. Len(net[p]) : Receive(p, n)
    BY <1>6 DEF ReceiveOutOfOrder
  <2>2. n \in 1 .. Len(net[p])
    BY <1>0
  <2> QED
    BY <2>1, <2>2, ReceiveRight
<1>7. ASSUME NEW p \in Peer, Lose(p) PROVE RunsRight'
  <2>1. /\ net[p] # <<>> /\ net' = [net EXCEPT ![p] = Tail(net[p])]
        /\ UNCHANGED <<smp, typed, verdict>>
    BY <1>7 DEF Lose
  <2>2. Elems(Tail(net[p])) \subseteq Elems(net[p])
    BY <1>0, <2>1, TailElems
  <2>3. \A q \in Peer : Elems(net'[q]) \subseteq Elems(net[q])
    BY <1>0, <2>1, <2>2
  <2> QED
    BY <2>1, <2>3, Zenon DEF RunsRight
<1>8. ASSUME NEW p \in Peer, Renew(p) PROVE RunsRight'
  <2>1. /\ smp' = [smp EXCEPT ![p] = NewSmp] /\ net' = [q \in Peer |-> <<>>]
        /\ UNCHANGED <<typed, verdict>>
    BY <1>8 DEF Renew
  <2>2. SmpRight(NewSmp, p, typed)
    BY DEF NewSmp, SmpRight
  <2>3. \A q \in Peer : Elems(net'[q]) = {} /\ smp'[q] = IF q = p THEN NewSmp ELSE smp[q]
    BY <1>0, <2>1, FewElems
  <2> QED
    BY <2>1, <2>2, <2>3, Zenon DEF RunsRight
<1>9. CASE UNCHANGED vars
  BY <1>9, Zenon DEF vars, RunsRight
<1> QED
  BY <1>1, <1>2, <1>3, <1>4, <1>5, <1>6, <1>7, <1>8, <1>9 DEF Next

\* Every verdict that a user is told is right for what the two users typed for
\* that very run, and the initiator is told what the responder was told, for
\* any number of runs, late answers, aborts, losses, reorderings and sessions.
THEOREM VerdictsAreRight == Spec => []VerdictsRight
<1>1. Init => RunsRight
  <2> SUFFICES ASSUME Init, NEW p \in Peer
               PROVE  /\ SmpRight(smp[p], p, typed)
                      /\ \A m \in Elems(net[p]) : MessageRight(m, p, typed, verdict)
                      /\ \A v \in verdict[p] : VerdictRight(v, p, typed, verdict)
    BY DEF RunsRight
  <2>1. smp[p] = NewSmp /\ net[p] = <<>> /\ verdict[p] = {}
    BY DEF Init
  <2> QED
    BY <2>1, FewElems DEF NewSmp, SmpRight
<1>2. RunsRight => VerdictsRight
  <2> SUFFICES ASSUME RunsRight, NEW p \in Peer, NEW v \in verdict[p]
               PROVE  /\ typed[v.run[2]].by = Other(typed[v.run[1]].by)
                      /\ v.success <=> Agree(typed, v.run)
                      /\ p = typed[v.run[1]].by => v \in verdict[Other(p)]
    BY Zenon DEF VerdictsRight, Agree
  <2>1. VerdictRight(v, p, typed, verdict)
    BY DEF RunsRight
  <2>2. v.success <=> Agree(typed, v.run)
    BY <2>1, Zenon DEF VerdictRight
  <2>3. CASE RunOf(typed, v.run, p)
    BY <2>1, <2>2, <2>3, OtherPeer, Zenon DEF VerdictRight, RunOf, Typed
  <2>4. CASE RunOf(typed, v.run, Other(p))
    BY <2>2, <2>4, OtherPeer, Zenon DEF RunOf, Typed
  <2> QED
    BY <2>1, <2>3, <2>4 DEF VerdictRight
<1> QED
  BY <1>1, <1>2, TypeInit, TypeStep, RightStep, PTL DEF Spec

-----------------------------------------------------------------------------
(***************************************************************************)
(* Nobody waits for ever.  Without faults the queues are first in, first   *)
(* out: what a waiting peer has sent last, but for aborts, is either still *)
(* on its way, or it was handled and the answer is on its way, or it is a  *)
(* question that the other user has not answered yet.                      *)
(***************************************************************************)

\* After place n of the queue there are only aborts.
OnlyAborts(s, n) == \A k \in n + 1 .. Len(s) : s[k].type = 0

\* Message n of the queue is the last one of its sender's runs, and of this type.
LastIs(s, n, type) == s[n].type = type /\ OnlyAborts(s, n)

\* A peer with the state me waits for message 2: its message 1 is on its way in
\* the queue s to the other one, or waits there for an answer.
AwaitsMessage2(me, you, s) ==
  \/ \E n \in 1 .. Len(s) : LastIs(s, n, 1) /\ s[n].a = me.a
  \/ you.state_expect = 1 /\ you.message1 = me.a /\ OnlyAborts(s, 0)

\* A responder waits for message 3: if message 2 is the next one to be handled by a
\* peer that waits for it, it is one of that peer's run.
AwaitsMessage3(me, you, s) ==
  \E n \in 1 .. Len(s) :
    /\ LastIs(s, n, 2) /\ s[n].run = me.g
    /\ n = 1 /\ you.state_expect = 2 => you.a = me.g[1]

\* The same for an initiator that waits for message 4.
AwaitsMessage4(me, you, s) ==
  \E n \in 1 .. Len(s) :
    /\ LastIs(s, n, 3) /\ s[n].run = me.g
    /\ n = 1 /\ you.state_expect = 3 => you.g = me.g

\* me does not wait, or something is on its way to it in the queue r, or it waits
\* for what will be answered.
Awaits(me, you, r, s) ==
  \/ me.state_expect = 1
  \/ r # <<>>
  \/ me.state_expect = 2 /\ AwaitsMessage2(me, you, s)
  \/ me.state_expect = 3 /\ AwaitsMessage3(me, you, s)
  \/ me.state_expect = 4 /\ AwaitsMessage4(me, you, s)

\* The inductive invariant.
NobodyIsStuck ==
  count.faults = 0 =>
    \A p \in Peer : Awaits(smp[p], smp[Other(p)], net[p], net[Other(p)])

\* A message at the end of a queue.
LEMMA LastInQueue ==
  ASSUME NEW s \in Seq(Message), NEW m \in Message
  PROVE  LET t == s \o <<m>>
         IN /\ Len(s) \in Nat /\ Len(t) = Len(s) + 1 /\ t # <<>>
            /\ t[Len(s) + 1] = m
            /\ LastIs(t, Len(s) + 1, m.type)
            /\ s # <<>> => Len(s) + 1 # 1
<1> DEFINE t == s \o <<m>>
<1>1. Len(s) \in Nat /\ Len(t) = Len(s) + 1 /\ t[Len(s) + 1] = m
  OBVIOUS
<1>2. t # <<>> /\ (s # <<>> => Len(s) + 1 # 1)
  BY <1>1
<1> HIDE DEF t
<1>3. OnlyAborts(t, Len(s) + 1)
  BY <1>1 DEF OnlyAborts
<1> QED
  BY <1>1, <1>2, <1>3 DEF LastIs, t

\* An abort at the end of a queue changes nothing of what is the last message.
LEMMA AbortInQueue ==
  ASSUME NEW s \in Seq(Message)
  PROVE  LET t == s \o <<Abort>>
         IN /\ \A n \in 1 .. Len(s) : n \in 1 .. Len(t) /\ t[n] = s[n]
            /\ \A n \in 0 .. Len(s) : OnlyAborts(s, n) => OnlyAborts(t, n)
<1> DEFINE t == s \o <<Abort>>
<1>1. /\ Len(s) \in Nat /\ Len(t) = Len(s) + 1
      /\ \A n \in 1 .. Len(s) : t[n] = s[n]
      /\ t[Len(s) + 1].type = 0
  BY DEF Abort
<1> HIDE DEF t
<1>2. ASSUME NEW n \in 0 .. Len(s), OnlyAborts(s, n), NEW k \in n + 1 .. Len(t)
      PROVE  t[k].type = 0
  <2>1. k = Len(s) + 1 \/ (k \in n + 1 .. Len(s) /\ k \in 1 .. Len(s))
    BY <1>1
  <2> QED
    BY <1>1, <1>2, <2>1 DEF OnlyAborts
<1>3. \A n \in 1 .. Len(s) : n \in 1 .. Len(t) /\ t[n] = s[n]
  BY <1>1
<1> QED
  BY <1>2, <1>3 DEF OnlyAborts, t

\* The first message leaves a queue.
LEMMA FirstOfQueue ==
  ASSUME NEW s \in Seq(Message), s # <<>>
  PROVE  LET t == Without(s, 1)
         IN /\ 1 \in 1 .. Len(s) /\ Len(s) \in Nat /\ Len(t) = Len(s) - 1
            /\ t = <<>> => Len(s) = 1
            /\ \A n \in 2 .. Len(s) : n - 1 \in 1 .. Len(t) /\ t[n - 1] = s[n]
            /\ \A n \in 1 .. Len(s) : OnlyAborts(s, n) => OnlyAborts(t, n - 1)
            /\ OnlyAborts(s, 0) => OnlyAborts(t, 0) /\ s[1].type = 0
<1> DEFINE b == SubSeq(s, 2, Len(s))
<1>1. /\ Len(s) \in Nat /\ Len(s) # 0 /\ b \in Seq(Message) /\ Len(b) = Len(s) - 1
      /\ \A k \in 1 .. Len(s) - 1 : b[k] = s[k + 1]
  <2>1. Len(s) \in Nat /\ Len(s) # 0
    OBVIOUS
  <2>2. b \in Seq(Message)
    OBVIOUS
  <2>3. Len(b) = Len(s) - 1
    <3>1. \A n \in 1 .. Len(s) : Len(SubSeq(s, n + 1, Len(s))) = Len(s) - n
      OBVIOUS
    <3>2. 1 \in 1 .. Len(s) /\ 1 + 1 = 2
      BY <2>1
    <3> QED
      BY <3>1, <3>2, Zenon
  <2>4. \A k \in 1 .. Len(s) - 1 : b[k] = s[k + 1]
    BY <2>1
  <2> QED
    BY <2>1, <2>2, <2>3, <2>4
<1>2. SubSeq(s, 1, 0) = <<>>
  OBVIOUS
<1> HIDE DEF b
<1>3. Without(s, 1) = b
  <2>1. <<>> \o b = b
    BY <1>1
  <2>2. 1 - 1 = 0 /\ 1 + 1 = 2
    OBVIOUS
  <2> QED
    BY <1>2, <2>1, <2>2 DEF Without, b
<1>4. \A n \in 2 .. Len(s) : n - 1 \in 1 .. Len(b) /\ b[n - 1] = s[n]
  <2> SUFFICES ASSUME NEW n \in 2 .. Len(s)
               PROVE  n - 1 \in 1 .. Len(b) /\ b[n - 1] = s[n]
    OBVIOUS
  <2>1. n - 1 \in 1 .. Len(s) - 1 /\ (n - 1) + 1 = n
    BY <1>1
  <2> QED
    BY <1>1, <2>1
<1>5. ASSUME NEW n \in 0 .. Len(s), OnlyAborts(s, n), NEW k \in 1 .. Len(b), k >= n
      PROVE  b[k].type = 0
  <2>1. k + 1 \in n + 1 .. Len(s) /\ b[k] = s[k + 1]
    BY <1>1, <1>5
  <2> QED
    BY <1>5, <2>1 DEF OnlyAborts
<1>6. ASSUME NEW n \in 1 .. Len(s), OnlyAborts(s, n) PROVE OnlyAborts(b, n - 1)
  <2>1. \A k \in (n - 1) + 1 .. Len(b) : k \in 1 .. Len(b) /\ k >= n
    BY <1>1
  <2>2. n \in 0 .. Len(s)
    OBVIOUS
  <2> QED
    BY <1>5, <1>6, <2>1, <2>2 DEF OnlyAborts
<1>7. ASSUME OnlyAborts(s, 0) PROVE OnlyAborts(b, 0) /\ s[1].type = 0
  <2>1. 0 \in 0 .. Len(s) /\ 0 + 1 = 1 /\ 1 \in 1 .. Len(s)
    BY <1>1
  <2>2. \A k \in 1 .. Len(b) : k >= 0
    BY <1>1
  <2> QED
    BY <1>5, <1>7, <2>1, <2>2 DEF OnlyAborts
<1>8. 1 \in 1 .. Len(s) /\ (b = <<>> => Len(s) = 1)
  BY <1>1
<1> QED
  BY <1>1, <1>3, <1>4, <1>6, <1>7, <1>8

\* The queues after p has sent, or handled the first message.
LEMMA PostQueues ==
  ASSUME NEW p \in Peer, NEW out \in Seq(Message), Post(p, out),
         net \in [Peer -> Seq(Message)]
  PROVE  net'[p] = net[p] /\ net'[Other(p)] = net[Other(p)] \o out
  BY OtherPeer DEF Post

LEMMA HandleQueues ==
  ASSUME NEW p \in Peer, NEW out, Handle(p, 1, out),
         net \in [Peer -> Seq(Message)]
  PROVE  net'[p] = Without(net[p], 1) /\ net'[Other(p)] = net[Other(p)] \o out
<1> DEFINE t == Without(net[p], 1)
           s == net[Other(p)] \o out
<1>1. net' = [net EXCEPT ![p] = t, ![Other(p)] = s]
  BY OtherPeer DEF Handle
<1> HIDE DEF t, s
<1>2. net'[p] = t /\ net'[Other(p)] = s
  BY <1>1, OtherPeer
<1> QED
  BY <1>2 DEF t, s

\* Whoever has something on its way to it is not stuck, and neither is the other
\* one if it does not wait.
LEMMA EitherAwaits ==
  ASSUME NEW p \in Peer,
         Awaits(smp'[p], smp'[Other(p)], net'[p], net'[Other(p)]),
         Awaits(smp'[Other(p)], smp'[p], net'[Other(p)], net'[p])
  PROVE  NobodyIsStuck'
<1>1. \A q \in Peer : q = p \/ (q = Other(p) /\ Other(q) = p)
  BY DEF Peer, Other
<1> QED
  BY <1>1 DEF NobodyIsStuck

\* p sends m: the other peer is not stuck.
LEMMA SendingWakes ==
  ASSUME NEW s \in Seq(Message), NEW m \in Message
  PROVE  \A me, you, r : Awaits(me, you, s \o <<m>>, r)
  BY LastInQueue DEF Awaits

\* p starts a run: its message 1 is the last one.
LEMMA InitiateWaits ==
  ASSUME TypeInv, NobodyIsStuck, NEW p \in Peer, NEW answer \in Answer,
         Initiate(p, answer)
  PROVE  NobodyIsStuck'
<1> DEFINE q == Other(p)
           m == SmpMessage1(Len(typed) + 1)
<1>1. /\ net \in [Peer -> Seq(Message)] /\ smp \in [Peer -> SmpProtocol]
      /\ q \in Peer /\ q # p /\ Len(typed) \in Nat
  BY OtherPeer DEF TypeInv, TypeOK
<1>2. m \in Message /\ m.type = 1 /\ m.a = Len(typed) + 1
  BY <1>1, MessageTypes DEF SmpMessage1
<1>3. Post(p, <<m>>) /\ smp'[p].state_expect = 2 /\ smp'[p].a = Len(typed) + 1
  BY <1>1 DEF Initiate, SmpProtocol
<1> HIDE DEF m, q
<1>4. net'[p] = net[p] /\ net'[q] = net[q] \o <<m>>
  BY <1>1, <1>2, <1>3, PostQueues, OneMessage DEF q
<1> DEFINE s == net[q] \o <<m>>
<1>5. Len(net[q]) + 1 \in 1 .. Len(s) /\ LastIs(s, Len(net[q]) + 1, 1)
      /\ s[Len(net[q]) + 1] = m
  BY <1>1, <1>2, LastInQueue
<1>6. AwaitsMessage2(smp'[p], smp'[q], s)
  BY <1>2, <1>3, <1>5 DEF AwaitsMessage2
<1>7. Awaits(smp'[q], smp'[p], s, net'[p])
  BY <1>1, <1>2, SendingWakes
<1> QED
  BY <1>3, <1>4, <1>6, <1>7, EitherAwaits DEF Awaits, q

\* p sends an abort and goes on with its run.
LEMMA TooEarlyWaits ==
  ASSUME TypeInv, NobodyIsStuck, NEW p \in Peer, InitiateTooEarly(p),
         count.faults = 0
  PROVE  NobodyIsStuck'
<1> DEFINE q == Other(p)
           s == net[q] \o <<Abort>>
<1>1. net \in [Peer -> Seq(Message)] /\ q \in Peer /\ q # p
  BY OtherPeer DEF TypeInv, TypeOK
<1>2. Post(p, <<Abort>>) /\ smp' = smp
  BY DEF InitiateTooEarly
<1>3. net'[p] = net[p] /\ net'[q] = s
  BY <1>1, <1>2, PostQueues, OneMessage, MessageTypes
<1>4. Awaits(smp[p], smp[q], net[p], net[q])
  BY DEF NobodyIsStuck
<1>5. /\ \A n \in 1 .. Len(net[q]) : n \in 1 .. Len(s) /\ s[n] = net[q][n]
      /\ \A n \in 1 .. Len(net[q]) : OnlyAborts(net[q], n) => OnlyAborts(s, n)
      /\ OnlyAborts(net[q], 0) => OnlyAborts(s, 0)
  <2>1. 0 \in 0 .. Len(net[q]) /\ \A n \in 1 .. Len(net[q]) : n \in 0 .. Len(net[q])
    BY <1>1
  <2> QED
    BY <1>1, <2>1, AbortInQueue, Zenon
<1>6. Awaits(smp'[q], smp'[p], s, net'[p])
  BY <1>1, MessageTypes, SendingWakes
<1> HIDE DEF s, q
<1>7. Awaits(smp[p], smp[q], net[p], s)
  BY <1>4, <1>5, ZenonT(40)
     DEF Awaits, AwaitsMessage2, AwaitsMessage3, AwaitsMessage4, LastIs
<1> QED
  BY <1>2, <1>3, <1>6, <1>7, EitherAwaits DEF q

\* p is reset and sends an abort.
LEMMA AbortWaits ==
  ASSUME TypeInv, NEW p \in Peer, UserAborts(p)
  PROVE  NobodyIsStuck'
<1>1. /\ net \in [Peer -> Seq(Message)] /\ smp \in [Peer -> SmpProtocol]
      /\ Other(p) \in Peer /\ Other(p) # p
  BY OtherPeer DEF TypeInv, TypeOK
<1>2. Post(p, <<Abort>>) /\ smp'[p].state_expect = 1
  BY <1>1 DEF UserAborts, SmpProtocol
<1>3. net'[Other(p)] = net[Other(p)] \o <<Abort>>
  BY <1>1, <1>2, PostQueues, OneMessage, MessageTypes
<1>4. Awaits(smp'[Other(p)], smp'[p], net'[Other(p)], net'[p])
  BY <1>1, <1>3, MessageTypes, SendingWakes
<1> QED
  BY <1>2, <1>4, EitherAwaits DEF Awaits

\* p answers the question that it keeps.  If the other peer waits for the answer of
\* another run and nothing is on its way to it, then its message 1 is on its way.
LEMMA ProvideWaits ==
  ASSUME TypeInv, NobodyIsStuck, NEW p \in Peer, NEW answer \in Answer,
         ProvideSecret(p, answer), count.faults = 0
  PROVE  NobodyIsStuck'
<1> DEFINE q   == Other(p)
           run == <<smp[p].message1, Len(typed) + 1>>
           m   == SmpMessage2(run, <<q, session, answer>>)
<1>1. /\ net \in [Peer -> Seq(Message)] /\ smp \in [Peer -> SmpProtocol]
      /\ q \in Peer /\ q # p /\ Len(typed) \in Nat /\ session \in Nat
  BY OtherPeer, BoundsAssumption DEF TypeInv, TypeOK
<1>2. run \in Run /\ run[1] = smp[p].message1 /\ <<q, session, answer>> \in Secret
  BY <1>1 DEF Run, SmpProtocol, Secret
<1>3. /\ Post(p, <<m>>) /\ smp'[p].state_expect = 3 /\ smp'[p].g = run
      /\ smp'[q] = smp[q] /\ smp[p].state_expect = 1
  BY <1>1 DEF ProvideSecret, SmpProtocol
<1> HIDE DEF run
<1>4. m \in Message /\ m.type = 2 /\ m.run = run
  BY <1>2, MessageTypes DEF SmpMessage2
<1> HIDE DEF m
<1>5. net'[p] = net[p] /\ net'[q] = net[q] \o <<m>>
  BY <1>1, <1>3, <1>4, PostQueues, OneMessage
<1>6. Awaits(smp[q], smp[p], net[q], net[p])
  BY <1>1, OtherPeer DEF NobodyIsStuck
<1> HIDE DEF q
<1> DEFINE s == net[q] \o <<m>>
           n == Len(net[q]) + 1
<1>7. /\ n \in 1 .. Len(s) /\ LastIs(s, n, 2) /\ s[n].run = run
      /\ net[q] # <<>> => n # 1
  BY <1>1, <1>4, LastInQueue
<1>8. CASE net[p] # <<>>
  BY <1>1, <1>4, <1>5, <1>8, SendingWakes, EitherAwaits DEF Awaits, q
<1>9. CASE net[p] = <<>>
  <2>1. ASSUME n = 1, smp[q].state_expect = 2 PROVE smp[q].a = run[1]
    <3>1. net[q] = <<>>
      BY <1>7, <2>1
    <3>2. AwaitsMessage2(smp[q], smp[p], net[p])
      BY <1>6, <2>1, <3>1 DEF Awaits
    <3>3. 1 .. Len(net[p]) = {}
      BY <1>9
    <3> QED
      BY <1>2, <3>2, <3>3 DEF AwaitsMessage2
  <2>2. AwaitsMessage3(smp'[p], smp'[q], s)
    BY <1>3, <1>7, <2>1 DEF AwaitsMessage3
  <2>3. Awaits(smp'[q], smp'[p], s, net'[p])
    BY <1>1, <1>4, SendingWakes
  <2> QED
    BY <1>3, <1>5, <2>2, <2>3, EitherAwaits DEF Awaits, q
<1> QED
  BY <1>8, <1>9

\* A message that is handled without an answer leaves its receiver in state 1.  If
\* it was the last one of the sender, it was no valid answer that the sender waits
\* for the reply to, so that the sender waits for the next ones, or for the user.
LEMMA SilenceKeepsWaiting ==
  ASSUME NEW me, NEW you, NEW you2, NEW r,
         NEW s \in Seq(Message), s # <<>>, Awaits(me, you, r, s),
         you2.state_expect = 1,
         s[1].type = 0 => you2.message1 = you.message1,
         s[1].type = 1 => you2.message1 = s[1].a,
         s[1].type = 2 => you.state_expect = 2 /\ you.a # s[1].run[1],
         s[1].type = 3 => you.state_expect = 3 /\ s[1].run # you.g
  PROVE  Awaits(me, you2, r, Without(s, 1))
<1> DEFINE t == Without(s, 1)
<1>1. /\ Len(s) \in Nat
      /\ \A n \in 2 .. Len(s) : n - 1 \in 1 .. Len(t) /\ t[n - 1] = s[n]
      /\ \A n \in 1 .. Len(s) : OnlyAborts(s, n) => OnlyAborts(t, n - 1)
      /\ OnlyAborts(s, 0) => OnlyAborts(t, 0) /\ s[1].type = 0
  BY FirstOfQueue
<1> HIDE DEF t
\* A message behind the first one moves up.
<1>2. ASSUME NEW n \in 1 .. Len(s), NEW type, LastIs(s, n, type), n # 1
      PROVE  /\ n - 1 \in 1 .. Len(t) /\ LastIs(t, n - 1, type)
             /\ t[n - 1] = s[n]
  <2>1. n \in 2 .. Len(s)
    BY <1>1, <1>2
  <2> QED
    BY <1>1, <1>2, <2>1, Zenon DEF LastIs
<1>3. 1 # 2 /\ 1 # 3 /\ 1 - 1 = 0
  OBVIOUS
<1>4. ASSUME AwaitsMessage2(me, you, s) PROVE AwaitsMessage2(me, you2, t)
  <2>1. CASE \E n \in 1 .. Len(s) : LastIs(s, n, 1) /\ s[n].a = me.a
    <3>1. PICK n \in 1 .. Len(s) : LastIs(s, n, 1) /\ s[n].a = me.a
      BY <2>1
    <3>2. CASE n = 1
      <4>1. s[1].type = 1 /\ OnlyAborts(t, 0) /\ s[1].a = me.a
        BY <1>1, <1>3, <3>1, <3>2, Zenon DEF LastIs
      <4> QED
        BY <4>1 DEF AwaitsMessage2
    <3>3. CASE n # 1
      <4>1. n - 1 \in 1 .. Len(t) /\ LastIs(t, n - 1, 1) /\ t[n - 1].a = me.a
        BY <1>2, <3>1, <3>3, Zenon
      <4> QED
        BY <4>1, Zenon DEF AwaitsMessage2
    <3> QED
      BY <3>2, <3>3
  <2>2. CASE you.message1 = me.a /\ OnlyAborts(s, 0)
    BY <1>1, <2>2 DEF AwaitsMessage2
  <2> QED
    BY <1>4, <2>1, <2>2, Zenon DEF AwaitsMessage2
<1>5. ASSUME AwaitsMessage3(me, you, s) PROVE AwaitsMessage3(me, you2, t)
  <2>1. PICK n \in 1 .. Len(s) :
          /\ LastIs(s, n, 2) /\ s[n].run = me.g
          /\ n = 1 /\ you.state_expect = 2 => you.a = me.g[1]
    BY <1>5, Zenon DEF AwaitsMessage3
  <2>2. n # 1
    BY <2>1, Zenon DEF LastIs
  <2>3. n - 1 \in 1 .. Len(t) /\ LastIs(t, n - 1, 2) /\ t[n - 1].run = me.g
    BY <1>2, <2>1, <2>2, Zenon
  <2> QED
    BY <1>3, <2>3, Zenon DEF AwaitsMessage3
<1>6. ASSUME AwaitsMessage4(me, you, s) PROVE AwaitsMessage4(me, you2, t)
  <2>1. PICK n \in 1 .. Len(s) :
          /\ LastIs(s, n, 3) /\ s[n].run = me.g
          /\ n = 1 /\ you.state_expect = 3 => you.g = me.g
    BY <1>6, Zenon DEF AwaitsMessage4
  <2>2. n # 1
    BY <2>1, Zenon DEF LastIs
  <2>3. n - 1 \in 1 .. Len(t) /\ LastIs(t, n - 1, 3) /\ t[n - 1].run = me.g
    BY <1>2, <2>1, <2>2, Zenon
  <2> QED
    BY <1>3, <2>3, Zenon DEF AwaitsMessage4
<1> QED
  BY <1>4, <1>5, <1>6, Zenon DEF Awaits, t

\* What p does with the first message of its queue, and what it answers.
LEMMA AnswerOrSilence ==
  ASSUME TypeInv, NEW p \in Peer, net[p] # <<>>, Receive(p, 1)
  PROVE  LET m == net[p][1]
         IN \* Reset, with an answer: message 4 or an abort.
            \/ /\ smp'[p].state_expect = 1
               /\ \E out \in Message : Handle(p, 1, <<out>>)
            \* Message 2 is answered with message 3.
            \/ /\ smp'[p].state_expect = 4
               /\ m.type = 2 /\ smp'[p].g = m.run
               /\ \E same \in BOOLEAN : Handle(p, 1, <<SmpMessage3(m.run, same)>>)
            \* Nothing is answered.
            \/ /\ smp'[p].state_expect = 1
               /\ m.type = 0 => smp'[p].message1 = smp[p].message1
               /\ m.type = 1 => smp'[p].message1 = m.a
               /\ m.type = 2 => smp[p].state_expect = 2 /\ smp[p].a # m.run[1]
               /\ m.type = 3 => smp[p].state_expect = 3 /\ m.run # smp[p].g
               /\ Handle(p, 1, <<>>)
<1> DEFINE m == net[p][1]
           s == smp[p]
<1>1. /\ s \in SmpProtocol /\ m \in Message /\ smp \in [Peer -> SmpProtocol]
      /\ s.g \in Run
      /\ m.type \in 2 .. 4 => m.run \in Run
  <2>1. /\ smp \in [Peer -> SmpProtocol] /\ net \in [Peer -> Seq(Message)]
    BY DEF TypeInv, TypeOK
  <2>2. m \in Message /\ s \in SmpProtocol
    BY <2>1
  <2> QED
    BY <2>1, <2>2, MessageFields DEF SmpProtocol
<1> HIDE DEF m
<1>2. /\ [s EXCEPT !.state_expect = 1].state_expect = 1
      /\ [s EXCEPT !.state_expect = 1].message1 = s.message1
  BY <1>1 DEF SmpProtocol
<1>3. CASE ReceiveMessage1(p, 1)
  <2>1. /\ smp' = [smp EXCEPT ![p] = [s EXCEPT !.message1 = m.a]]
        /\ s.state_expect = 1 /\ m.type = 1 /\ Handle(p, 1, <<>>)
    BY <1>3 DEF ReceiveMessage1, m
  <2>2. smp'[p].state_expect = 1 /\ smp'[p].message1 = m.a
    BY <1>1, <2>1 DEF SmpProtocol
  <2> QED
    BY <2>1, <2>2 DEF m
<1>4. CASE ReceiveMessage2(p, 1)
  <2> DEFINE run  == <<s.a, m.run[2]>>
             same == run = m.run /\ m.secret = s.secret
  <2>1. /\ smp' = [smp EXCEPT ![p] =
                     [s EXCEPT !.state_expect = 4, !.g = run, !.same = same]]
        /\ m.type = 2 /\ m.run[1] = s.a
        /\ Handle(p, 1, <<SmpMessage3(run, same)>>)
    BY <1>4, Zenon DEF ReceiveMessage2, ValidMessage2, m
  <2>2. run = m.run
    BY <1>1, <2>1 DEF Run
  <2>3. same \in BOOLEAN
    OBVIOUS
  <2> HIDE DEF run, same
  <2>4. smp'[p].state_expect = 4 /\ smp'[p].g = m.run
    BY <1>1, <2>1, <2>2 DEF SmpProtocol
  <2> QED
    BY <2>1, <2>2, <2>3, <2>4, Zenon DEF m
<1>5. CASE ReceiveMessage3(p, 1)
  <2>1. /\ smp' = [smp EXCEPT ![p] = [s EXCEPT !.state_expect = 1]]
        /\ Handle(p, 1, <<SmpMessage4(s.g)>>)
    BY <1>5, Zenon DEF ReceiveMessage3
  <2>2. SmpMessage4(s.g) \in Message
    BY <1>1, MessageTypes
  <2>3. smp'[p].state_expect = 1
    BY <1>1, <1>2, <2>1
  <2> QED
    BY <2>1, <2>2, <2>3, Zenon
<1>6. CASE ReceiveMessage4(p, 1)
  <2>1. /\ smp' = [smp EXCEPT ![p] = [s EXCEPT !.state_expect = 1]]
        /\ m.type = 4 /\ Handle(p, 1, <<>>)
    BY <1>6, Zenon DEF ReceiveMessage4, m
  <2>2. smp'[p].state_expect = 1
    BY <1>1, <1>2, <2>1
  <2> QED
    BY <2>1, <2>2 DEF m
<1>7. CASE ReceiveInvalid(p, 1)
  <2>1. /\ smp' = [smp EXCEPT ![p] = [s EXCEPT !.state_expect = 1]]
        /\ m.type \in 2 .. 4 /\ s.state_expect = m.type /\ Handle(p, 1, <<>>)
    BY <1>7, Zenon DEF ReceiveInvalid, m
  <2>2. /\ m.type = 2 => m.run[1] # s.a
        /\ m.type = 3 => m.run # s.g
    <3>1. (CASE m.type = 2 -> ~ValidMessage2(s, m)
             [] m.type = 3 -> ~ValidMessage3(s, m)
             [] m.type = 4 -> ~ValidMessage4(s, m))
      BY <1>7, Zenon DEF ReceiveInvalid, m
    <3>2. 2 # 3 /\ 2 # 4 /\ 3 # 4
      OBVIOUS
    <3> HIDE DEF s
    <3>3. (m.type = 2 => ~ValidMessage2(s, m)) /\ (m.type = 3 => ~ValidMessage3(s, m))
      BY <3>1, <3>2
    <3> QED
      BY <3>3 DEF ValidMessage2, ValidMessage3
  <2>3. smp'[p].state_expect = 1
    BY <1>1, <1>2, <2>1
  <2> QED
    BY <2>1, <2>2, <2>3 DEF m
<1>8. CASE ReceiveUnexpected(p, 1)
  <2>1. /\ smp' = [smp EXCEPT ![p] = [s EXCEPT !.state_expect = 1]]
        /\ Handle(p, 1, <<Abort>>)
    BY <1>8, Zenon DEF ReceiveUnexpected
  <2>2. smp'[p].state_expect = 1
    BY <1>1, <1>2, <2>1
  <2> QED
    BY <2>1, <2>2, MessageTypes, Zenon
<1>9. CASE ReceiveAbort(p, 1)
  <2>1. /\ smp' = [smp EXCEPT ![p] = [s EXCEPT !.state_expect = 1]]
        /\ m.type = 0 /\ Handle(p, 1, <<>>)
    BY <1>9, Zenon DEF ReceiveAbort, m
  <2>2. smp'[p].state_expect = 1 /\ smp'[p].message1 = s.message1
    BY <1>1, <1>2, <2>1
  <2> QED
    BY <2>1, <2>2 DEF m
<1> QED
  BY <1>3, <1>4, <1>5, <1>6, <1>7, <1>8, <1>9 DEF Receive

\* p handles the next message.
LEMMA ReceiveWaits ==
  ASSUME TypeInv, NobodyIsStuck, NEW p \in Peer, ReceiveNext(p),
         count.faults = 0
  PROVE  NobodyIsStuck'
<1> DEFINE q == Other(p)
           m == net[p][1]
           t == Without(net[p], 1)
<1>1. /\ net \in [Peer -> Seq(Message)] /\ smp \in [Peer -> SmpProtocol]
      /\ q \in Peer /\ q # p /\ Other(q) = p
  BY OtherPeer DEF TypeInv, TypeOK
<1>2. net[p] # <<>> /\ Receive(p, 1)
  BY DEF ReceiveNext
<1>3. smp'[q] = smp[q]
  BY <1>1, <1>2 DEF Receive, ReceiveMessage1, ReceiveMessage2, ReceiveMessage3,
     ReceiveMessage4, ReceiveInvalid, ReceiveUnexpected, ReceiveAbort
<1>4. Awaits(smp[q], smp[p], net[q], net[p])
  BY <1>1 DEF NobodyIsStuck
<1>5. \A out : Handle(p, 1, out) => net'[p] = t /\ net'[q] = net[q] \o out
  BY <1>1, HandleQueues
<1>6. CASE smp'[p].state_expect = 1 /\ \E out \in Message : Handle(p, 1, <<out>>)
  <2>1. PICK out \in Message : Handle(p, 1, <<out>>)
    BY <1>6
  <2>2. Awaits(smp'[q], smp'[p], net'[q], net'[p])
    BY <1>1, <1>5, <2>1, SendingWakes
  <2> QED
    BY <1>6, <2>2, EitherAwaits DEF Awaits
<1>7. CASE /\ smp'[p].state_expect = 4
           /\ m.type = 2 /\ smp'[p].g = m.run
           /\ \E same \in BOOLEAN : Handle(p, 1, <<SmpMessage3(m.run, same)>>)
  <2>1. PICK same \in BOOLEAN : Handle(p, 1, <<SmpMessage3(m.run, same)>>)
    BY <1>7
  <2> DEFINE out == SmpMessage3(m.run, same)
             s   == net[q] \o <<out>>
             n   == Len(net[q]) + 1
  <2>2. m \in Message /\ m.run \in Run
    BY <1>1, <1>2, <1>7, MessageFields
  <2>3. out \in Message /\ out.type = 3 /\ out.run = m.run
    BY <2>2, MessageTypes DEF SmpMessage3
  <2> HIDE DEF out
  <2>4. net'[p] = t /\ net'[q] = s
    BY <1>5, <2>1 DEF out
  <2>5. /\ n \in 1 .. Len(s) /\ LastIs(s, n, 3) /\ s[n].run = m.run
        /\ net[q] # <<>> => n # 1
    BY <1>1, <2>3, LastInQueue
  <2>6. Awaits(smp'[q], smp'[p], net'[q], net'[p])
    BY <1>1, <2>3, <2>4, SendingWakes
  \* If nothing else is on its way to p, message 2 was the last one that q sent.
  <2>7. ASSUME t = <<>>, n = 1, smp[q].state_expect = 3 PROVE smp[q].g = m.run
    <3>1. net[q] = <<>>
      BY <2>5, <2>7
    <3>2. AwaitsMessage3(smp[q], smp[p], net[p])
      BY <1>4, <2>7, <3>1 DEF Awaits
    <3>3. 1 .. Len(net[p]) = {1}
      BY <1>1, <1>2, <2>7, FirstOfQueue
    <3> QED
      BY <3>2, <3>3 DEF AwaitsMessage3
  <2>8. CASE t = <<>>
    <3>1. AwaitsMessage4(smp'[p], smp'[q], s)
      BY <1>3, <1>7, <2>5, <2>7, <2>8 DEF AwaitsMessage4
    <3> QED
      BY <1>7, <2>4, <2>6, <3>1, EitherAwaits DEF Awaits
  <2>9. CASE t # <<>>
    BY <2>4, <2>6, <2>9, EitherAwaits DEF Awaits
  <2> QED
    BY <2>8, <2>9
<1>8. CASE /\ smp'[p].state_expect = 1
           /\ m.type = 0 => smp'[p].message1 = smp[p].message1
           /\ m.type = 1 => smp'[p].message1 = m.a
           /\ m.type = 2 => smp[p].state_expect = 2 /\ smp[p].a # m.run[1]
           /\ m.type = 3 => smp[p].state_expect = 3 /\ m.run # smp[p].g
           /\ Handle(p, 1, <<>>)
  <2>1. net'[p] = t /\ net'[q] = net[q]
    <3>1. net[q] \o <<>> = net[q]
      BY <1>1
    <3> QED
      BY <1>5, <1>8, <3>1
  <2>2. net[p] \in Seq(Message)
    BY <1>1
  <2> HIDE DEF q
  <2>3. Awaits(smp[q], smp'[p], net[q], t)
    BY <1>2, <1>4, <1>8, <2>2, SilenceKeepsWaiting
  <2> QED
    BY <1>3, <1>8, <2>1, <2>3, EitherAwaits DEF Awaits, q
<1> QED
  BY <1>2, <1>6, <1>7, <1>8, AnswerOrSilence, Zenon

\* The users' steps and the handlers wait only for what will come; a fault ends
\* the promise.
LEMMA StuckStep == TypeInv /\ NobodyIsStuck /\ [Next]_vars => NobodyIsStuck'
<1> SUFFICES ASSUME TypeInv, NobodyIsStuck, [Next]_vars, count'.faults = 0
             PROVE  NobodyIsStuck'
  BY DEF NobodyIsStuck
<1>0. TypeOK /\ count.faults \in Nat /\ MaxStarts \in Nat /\ MaxReplies \in Nat
      /\ MaxAborts \in Nat /\ MaxFaults \in Nat
  BY BoundsAssumption DEF TypeInv, TypeOK
<1>1. ASSUME NEW p \in Peer, NEW answer \in Answer, Initiate(p, answer)
      PROVE  NobodyIsStuck'
  BY <1>1, InitiateWaits
<1>2. ASSUME NEW p \in Peer, NEW answer \in Answer, ProvideSecret(p, answer)
      PROVE  NobodyIsStuck'
  <2>1. Counts("replies", MaxReplies)
    BY <1>2 DEF ProvideSecret
  <2>2. count'.faults = count.faults
    BY <1>0, <2>1, CountsType
  <2> QED
    BY <1>2, <2>2, ProvideWaits
<1>3. ASSUME NEW p \in Peer, InitiateTooEarly(p) PROVE NobodyIsStuck'
  <2>1. Counts("starts", MaxStarts)
    BY <1>3 DEF InitiateTooEarly
  <2>2. count'.faults = count.faults
    BY <1>0, <2>1, CountsType
  <2> QED
    BY <1>3, <2>2, TooEarlyWaits
<1>4. ASSUME NEW p \in Peer, UserAborts(p) PROVE NobodyIsStuck'
  BY <1>4, AbortWaits
<1>5. ASSUME NEW p \in Peer, ReceiveNext(p) PROVE NobodyIsStuck'
  <2>1. count' = count
    BY <1>5 DEF ReceiveNext
  <2> QED
    BY <1>5, <2>1, ReceiveWaits
<1>6. ASSUME NEW p \in Peer, ReceiveOutOfOrder(p) \/ Lose(p) \/ Renew(p) PROVE FALSE
  <2>1. Counts("faults", MaxFaults)
    BY <1>6 DEF ReceiveOutOfOrder, Lose, Renew
  <2>2. count'.faults = count.faults + 1
    BY <1>0, <2>1, CountsType
  <2> QED
    BY <1>0, <2>2
<1>7. CASE UNCHANGED vars
  BY <1>7, Zenon DEF vars, NobodyIsStuck
<1> QED
  BY <1>1, <1>2, <1>3, <1>4, <1>5, <1>6, <1>7 DEF Next

\* As long as nothing is lost, reordered or renewed, nobody waits for a message
\* that will not come: when the queues are empty, a peer in the middle of a run
\* has asked a question that the other user can still answer.  Aborts, a second
\* run started too early and runs of both peers at once do not change that,
\* although a message that does not verify is not answered.
THEOREM NobodyWaitsInVain == Spec => []QuietIsConsistent
<1>1. Init => NobodyIsStuck
  BY DEF Init, NewSmp, NobodyIsStuck, Awaits, Peer, Other
<1>2. TypeInv /\ NobodyIsStuck => QuietIsConsistent
  <2> SUFFICES ASSUME NobodyIsStuck, count.faults = 0,
                      \A p \in Peer : net[p] = <<>>, NEW p \in Peer
               PROVE  \/ smp[p].state_expect = 1
                      \/ /\ smp[p].state_expect = 2
                         /\ smp[Other(p)].state_expect = 1
                         /\ smp[Other(p)].message1 = smp[p].a
    BY DEF QuietIsConsistent
  <2>1. net[p] = <<>> /\ net[Other(p)] = <<>>
    BY OtherPeer
  <2>2. 1 .. Len(net[Other(p)]) = {}
    BY <2>1
  <2>3. Awaits(smp[p], smp[Other(p)], net[p], net[Other(p)])
    BY DEF NobodyIsStuck
  <2> QED
    BY <2>1, <2>2, <2>3, Zenon
       DEF Awaits, AwaitsMessage2, AwaitsMessage3, AwaitsMessage4
<1> QED
  BY <1>1, <1>2, TypeInit, TypeStep, StuckStep, PTL DEF Spec
=============================================================================
