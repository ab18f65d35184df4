---------------------- MODULE OrderEntryGatewayProofs ----------------------
(***************************************************************************)
(* Proofs about OrderEntryGateway for any number of connections, any       *)
(* accounts, frames and capacities: the engine sees one gapless order,     *)
(* nothing is routed to a session of another account or to one that has    *)
(* gone, and each report is in exactly one place.                          *)
(***************************************************************************)
EXTENDS OrderEntryGateway, SequenceTheorems, FiniteSetTheorems, WellFoundedInduction, TLAPS

-----------------------------------------------------------------------------
(***************************************************************************)
(* The pipeline behind the gateway.                                        *)
(***************************************************************************)
Sequenced == [request : Nat, command_sequence : Nat]

\* Every command that was given a number, oldest first.
All == processed \o Pipeline!InHand \o queue

PipelineTyping ==
    /\ queue \in Seq(Sequenced) /\ processed \in Seq(Sequenced)
    /\ m_command \in Sequenced \cup {None}
    /\ m_pc \in {"pop", "check", "process", "done"}
    /\ m_command # None <=> m_pc = "process"
    /\ next_sequence \in Nat /\ submits \in Nat /\ commands_rejected \in Nat
    /\ p_pc \in {"ready", "push"}

\* What submit() saw when it looked at the queue is still true when it pushes: the
\* mutex keeps other producers out, and the matching thread only makes room.
RoomSeen == p_pc = "push" => Len(queue) < Capacity

Numbered ==
    /\ Len(All) = next_sequence - 1
    /\ \A n \in 1 .. Len(All) :
          /\ All[n].command_sequence = n
          /\ All[n].request \in 1 .. submits
          /\ p_pc = "push" => All[n].request < submits
    /\ \A n \in 1 .. Len(All) - 1 : All[n].request < All[n + 1].request
    /\ Len(All) + commands_rejected = IF p_pc = "push" THEN submits - 1 ELSE submits

PipelineInv == PipelineTyping /\ RoomSeen /\ Numbered

\* Sequences of the same length with the same elements are the same.
LEMMA SameElements ==
    ASSUME NEW S, NEW s \in Seq(S), NEW t \in Seq(S), Len(s) = Len(t),
           \A k \in 1 .. Len(s) : s[k] = t[k]
    PROVE  s = t
  OBVIOUS

\* A command moves from the head of the queue into the hand ...
LEMMA IntoTheHand ==
    ASSUME NEW S, NEW a \in Seq(S), NEW q \in Seq(S), q # << >>
    PROVE  (a \o << >>) \o q = (a \o <<Head(q)>>) \o Tail(q)
<1> DEFINE l == (a \o << >>) \o q
           r == (a \o <<Head(q)>>) \o Tail(q)
<1>1. Head(q) \in S /\ Tail(q) \in Seq(S) /\ Len(Tail(q)) = Len(q) - 1 /\ Head(q) = q[1]
      /\ \A j \in 1 .. Len(q) - 1 : Tail(q)[j] = q[j + 1]
  OBVIOUS
<1>2. a \o << >> = a
  OBVIOUS
<1>3. PICK b \in Seq(S) : b = a \o <<Head(q)>> /\ Len(b) = Len(a) + 1 /\ b[Len(a) + 1] = q[1]
                          /\ \A j \in 1 .. Len(a) : b[j] = a[j]
  <2>1. PICK x \in S : x = Head(q) /\ x = q[1]
    BY <1>1
  <2>2. a \o <<x>> = Append(a, x)
    OBVIOUS
  <2>3. /\ Append(a, x) \in Seq(S) /\ Len(Append(a, x)) = Len(a) + 1
        /\ Append(a, x)[Len(a) + 1] = x /\ \A j \in 1 .. Len(a) : Append(a, x)[j] = a[j]
    OBVIOUS
  <2> QED
    BY <2>1, <2>2, <2>3
<1>4. l \in Seq(S) /\ Len(l) = Len(a) + Len(q)
  BY <1>2
<1>5. r \in Seq(S) /\ Len(r) = Len(a) + Len(q)
  BY <1>1, <1>3
<1>6. ASSUME NEW k \in 1 .. Len(a) + Len(q) PROVE l[k] = r[k]
  <2>1. Len(a) \in Nat /\ Len(q) \in Nat /\ Len(q) >= 1
    OBVIOUS
  <2>2. CASE k <= Len(a)
    BY <1>1, <1>2, <1>3, <2>1, <2>2
  <2>3. CASE k = Len(a) + 1
    BY <1>1, <1>2, <1>3, <2>1, <2>3
  <2>4. CASE k > Len(a) + 1
    <3>1. l[k] = q[k - Len(a)]
      BY <1>2, <2>1, <2>4
    <3>2. r[k] = Tail(q)[k - (Len(a) + 1)]
      BY <1>1, <1>3, <2>1, <2>4
    <3>3. k - (Len(a) + 1) \in 1 .. Len(q) - 1 /\ k - (Len(a) + 1) + 1 = k - Len(a)
      BY <2>1, <2>4
    <3> QED
      BY <1>1, <3>1, <3>2, <3>3
  <2> QED
    BY <2>1, <2>2, <2>3, <2>4
<1> QED
  BY <1>4, <1>5, <1>6, SameElements

\* ... from the hand to those processed ...
LEMMA OutOfTheHand ==
    ASSUME NEW S, NEW a \in Seq(S), NEW x \in S
    PROVE  a \o <<x>> = Append(a, x) \o << >>
<1>1. Append(a, x) \o << >> = Append(a, x)
  OBVIOUS
<1>2. a \o <<x>> = Append(a, x)
  OBVIOUS
<1> QED
  BY <1>1, <1>2

\* ... and a new one goes to the end.
LEMMA AtTheEnd ==
    ASSUME NEW S, NEW b \in Seq(S), NEW q \in Seq(S), NEW x \in S
    PROVE  b \o Append(q, x) = Append(b \o q, x)
<1>1. /\ Append(q, x) \in Seq(S) /\ Len(Append(q, x)) = Len(q) + 1
      /\ \A j \in 1 .. Len(q) : Append(q, x)[j] = q[j]
      /\ Append(q, x)[Len(q) + 1] = x
  OBVIOUS
<1>2. b \o q \in Seq(S) /\ Len(b \o q) = Len(b) + Len(q)
  OBVIOUS
<1>3. /\ b \o Append(q, x) \in Seq(S) /\ Len(b \o Append(q, x)) = Len(b) + Len(q) + 1
  BY <1>1
<1>4. Append(b \o q, x) \in Seq(S) /\ Len(Append(b \o q, x)) = Len(b) + Len(q) + 1
  BY <1>2
<1>5. ASSUME NEW k \in 1 .. Len(b) + Len(q) + 1
      PROVE  (b \o Append(q, x))[k] = Append(b \o q, x)[k]
  <2>1. Len(b) \in Nat /\ Len(q) \in Nat
    OBVIOUS
  <2>2. CASE k <= Len(b)
    BY <1>1, <1>2, <2>1, <2>2
  <2>3. CASE k > Len(b)
    <3>1. (b \o Append(q, x))[k] = Append(q, x)[k - Len(b)]
      BY <1>1, <2>1, <2>3
    <3>2. CASE k = Len(b) + Len(q) + 1
      BY <1>1, <1>2, <2>1, <3>1, <3>2
    <3>3. CASE k <= Len(b) + Len(q)
      <4>1. k - Len(b) \in 1 .. Len(q)
        BY <2>1, <2>3, <3>3
      <4>2. Append(b \o q, x)[k] = (b \o q)[k] /\ (b \o q)[k] = q[k - Len(b)]
        BY <1>2, <2>1, <2>3, <3>3
      <4> QED
        BY <1>1, <3>1, <4>1, <4>2
    <3> QED
      BY <2>1, <3>2, <3>3
  <2> QED
    BY <2>1, <2>2, <2>3
<1> QED
  BY <1>3, <1>4, <1>5, SameElements

\* The command in hand.
LEMMA HandFacts ==
    ASSUME PipelineTyping
    PROVE  /\ m_pc = "process" => m_command \in Sequenced /\ Pipeline!InHand = <<m_command>>
           /\ m_pc # "process" => m_command = None /\ Pipeline!InHand = << >>
           /\ Pipeline!InHand \in Seq(Sequenced)
           /\ processed \o Pipeline!InHand \in Seq(Sequenced)
           /\ All \in Seq(Sequenced) /\ Len(All) \in Nat
<1>1. /\ m_pc = "process" => m_command \in Sequenced /\ Pipeline!InHand = <<m_command>>
      /\ m_pc # "process" => m_command = None /\ Pipeline!InHand = << >>
  BY DEF PipelineTyping, Pipeline!InHand
<1>2. Pipeline!InHand \in Seq(Sequenced)
  <2>1. ASSUME NEW x \in Sequenced PROVE <<x>> \in Seq(Sequenced)
    OBVIOUS
  <2>2. << >> \in Seq(Sequenced)
    OBVIOUS
  <2>3. CASE m_pc = "process"
    BY <1>1, <2>1, <2>3
  <2>4. CASE m_pc # "process"
    BY <1>1, <2>2, <2>4
  <2> QED
    BY <2>3, <2>4
<1>3. processed \o Pipeline!InHand \in Seq(Sequenced)
  BY <1>2 DEF PipelineTyping
<1>4. All \in Seq(Sequenced)
  BY <1>3 DEF PipelineTyping, All
<1> QED
  BY <1>1, <1>2, <1>3, <1>4

LEMMA PipelineInit == Pipeline!Init => PipelineInv
<1> SUFFICES ASSUME Pipeline!Init PROVE PipelineInv
  OBVIOUS
<1> USE DEF Pipeline!Init, Pipeline!Channel!Init
<1>1. PipelineTyping
  BY DEF PipelineTyping
<1>2. All = << >>
  BY DEF All, Pipeline!InHand
<1>3. RoomSeen /\ Numbered
  BY <1>2 DEF RoomSeen, Numbered
<1> QED
  BY <1>1, <1>3 DEF PipelineInv

\* No step of the pipeline but the push changes what was numbered, and in what order.
LEMMA PipelineMoves ==
    ASSUME PipelineInv, Pipeline!TryPop \/ Pipeline!CheckStop \/ Pipeline!Process
    PROVE  PipelineInv'
<1> USE DEF PipelineInv
<1>1. UNCHANGED <<next_sequence, submits, p_pc, commands_rejected>>
  BY DEF Pipeline!TryPop, Pipeline!CheckStop, Pipeline!Process, Pipeline!producerVars
<1>2. PipelineTyping' /\ All' = All /\ (Len(queue) < Capacity => Len(queue') < Capacity)
  <2>1. queue \in Seq(Sequenced) /\ processed \in Seq(Sequenced) /\ Len(queue) \in Nat /\ Capacity \in Nat
    BY GatewayAssumption DEF PipelineTyping
  <2>2. CASE Pipeline!TryPop /\ queue = << >>
    <3>1. UNCHANGED <<queue, processed, m_command>> /\ m_pc = "pop" /\ m_pc' = "check"
      BY <2>2 DEF Pipeline!TryPop
    <3>2. PipelineTyping'
      BY <1>1, <3>1 DEF PipelineTyping
    <3>3. All' = All
      BY <3>1 DEF All, Pipeline!InHand
    <3> QED
      BY <3>1, <3>2, <3>3
  <2>3. CASE Pipeline!TryPop /\ queue # << >>
    <3>1. /\ queue' = Tail(queue) /\ m_command' = Head(queue) /\ processed' = processed
          /\ m_pc = "pop" /\ m_pc' = "process"
      BY <2>3 DEF Pipeline!TryPop, Pipeline!Channel!Pop
    <3>2. Head(queue) \in Sequenced /\ Tail(queue) \in Seq(Sequenced) /\ Len(Tail(queue)) = Len(queue) - 1
      BY <2>1, <2>3
    <3>3. Head(queue) # None
      BY <3>2, GatewayAssumption DEF Sequenced
    <3>4. PipelineTyping'
      BY <1>1, <3>1, <3>2, <3>3 DEF PipelineTyping
    <3>5. Pipeline!InHand = << >> /\ Pipeline!InHand' = <<Head(queue)>>
      BY <3>1, <3>3, HandFacts DEF Pipeline!InHand
    <3>6. All' = All
      BY <2>1, <2>3, <3>1, <3>5, IntoTheHand DEF All
    <3> QED
      BY <2>1, <3>1, <3>2, <3>4, <3>6
  <2>4. CASE Pipeline!CheckStop
    <3>1. UNCHANGED <<queue, processed, m_command>> /\ m_pc = "check" /\ m_pc' \in {"done", "pop"}
      BY <2>4 DEF Pipeline!CheckStop
    <3>2. PipelineTyping'
      BY <1>1, <3>1 DEF PipelineTyping
    <3>3. All' = All
      BY <3>1 DEF All, Pipeline!InHand
    <3> QED
      BY <3>1, <3>2, <3>3
  <2>5. CASE Pipeline!Process
    <3>1. /\ m_pc = "process" /\ processed' = Append(processed, m_command) /\ m_command' = None
          /\ m_pc' = "pop" /\ queue' = queue
      BY <2>5 DEF Pipeline!Process
    <3>2. m_command \in Sequenced /\ Pipeline!InHand = <<m_command>> /\ Pipeline!InHand' = << >>
      BY <3>1, HandFacts DEF Pipeline!InHand
    <3>3. PipelineTyping'
      BY <1>1, <2>1, <3>1, <3>2 DEF PipelineTyping
    <3>4. processed \o <<m_command>> = Append(processed, m_command) \o << >>
      BY <2>1, <3>2, OutOfTheHand
    <3>5. All' = All
      BY <3>1, <3>2, <3>4 DEF All
    <3> QED
      BY <3>1, <3>3, <3>5
  <2> QED
    BY <2>2, <2>3, <2>4, <2>5
<1>3. RoomSeen' /\ Numbered'
  BY <1>1, <1>2 DEF RoomSeen, Numbered
<1> QED
  BY <1>2, <1>3

\* submit() numbers a command only when it can be queued.
LEMMA PipelineSubmits ==
    ASSUME PipelineInv, Pipeline!SubmitCheck \/ Pipeline!SubmitPush
    PROVE  PipelineInv'
<1> USE GatewayAssumption DEF PipelineInv
<1>1. UNCHANGED <<m_pc, m_command, processed>>
  BY DEF Pipeline!SubmitCheck, Pipeline!SubmitPush, Pipeline!matcherVars
<1>2. /\ submits \in Nat /\ next_sequence \in Nat /\ commands_rejected \in Nat
      /\ queue \in Seq(Sequenced) /\ Len(queue) \in Nat /\ Capacity \in Nat
      /\ All \in Seq(Sequenced) /\ Len(All) \in Nat
  BY HandFacts DEF PipelineTyping
<1>3. CASE Pipeline!SubmitCheck
  <2>1. /\ p_pc = "ready" /\ submits' = submits + 1 /\ UNCHANGED <<queue, next_sequence>>
        /\ \/ commands_rejected' = commands_rejected + 1 /\ p_pc' = "ready"
           \/ commands_rejected' = commands_rejected /\ p_pc' = "push" /\ ~(Len(queue) >= Capacity)
    BY <1>3 DEF Pipeline!SubmitCheck
  <2>2. All' = All
    BY <1>1, <2>1 DEF All, Pipeline!InHand
  <2>3. PipelineTyping' /\ RoomSeen'
    BY <1>1, <1>2, <2>1 DEF PipelineTyping, RoomSeen
  <2>4. \A n \in 1 .. Len(All) : All[n].request \in 1 .. submits
    BY DEF Numbered
  <2>5. \A r \in 1 .. submits : r \in 1 .. submits + 1 /\ r < submits + 1
    BY <1>2
  <2>6. Len(All) + commands_rejected = submits
    BY <2>1 DEF Numbered
  <2>7. Len(All) + commands_rejected' = IF p_pc' = "push" THEN submits' - 1 ELSE submits'
    BY <1>2, <2>1, <2>6
  <2>8. Numbered'
    BY <2>1, <2>2, <2>4, <2>5, <2>7 DEF Numbered
  <2> QED
    BY <2>3, <2>8
<1>4. CASE Pipeline!SubmitPush
  <2> DEFINE x == [request |-> submits, command_sequence |-> next_sequence]
  <2>1. p_pc = "push" /\ Len(queue) < Capacity
    BY <1>4 DEF Pipeline!SubmitPush, RoomSeen
  <2>2. /\ next_sequence' = next_sequence + 1 /\ queue' = Append(queue, x)
        /\ p_pc' = "ready" /\ UNCHANGED <<submits, commands_rejected>>
    BY <1>4, <2>1 DEF Pipeline!SubmitPush, Pipeline!Channel!Push, Pipeline!sequence
  <2>3. x \in Sequenced
    BY <1>2 DEF Sequenced
  <2>4. x.request = submits /\ x.command_sequence = next_sequence
    OBVIOUS
  <2> HIDE DEF x
  <2>5. PipelineTyping' /\ RoomSeen'
    BY <1>1, <1>2, <2>2, <2>3 DEF PipelineTyping, RoomSeen
  <2>6. All' = Append(All, x)
    <3>1. Pipeline!InHand' = Pipeline!InHand
      BY <1>1 DEF Pipeline!InHand
    <3>2. PICK b \in Seq(Sequenced) : b = processed \o Pipeline!InHand
      BY HandFacts
    <3>3. All = b \o queue /\ All' = b \o Append(queue, x)
      BY <1>1, <2>2, <3>1, <3>2 DEF All
    <3>4. b \o Append(queue, x) = Append(b \o queue, x)
      <4>1. PICK q \in Seq(Sequenced) : q = queue
        BY <1>2
      <4>2. b \o Append(q, x) = Append(b \o q, x)
        BY <2>3, AtTheEnd
      <4> QED
        BY <4>1, <4>2
    <3> QED
      BY <3>3, <3>4
  <2>7. PICK m \in Nat : m = Len(All)
    BY <1>2
  <2>8. /\ Len(All') = m + 1 /\ All'[m + 1] = x
        /\ \A n \in 1 .. m : All'[n] = All[n]
    BY <1>2, <2>3, <2>6, <2>7
  <2>9. /\ m = next_sequence - 1
        /\ \A n \in 1 .. m : /\ All[n].command_sequence = n /\ All[n].request \in 1 .. submits
                             /\ All[n].request < submits
        /\ \A n \in 1 .. m - 1 : All[n].request < All[n + 1].request
        /\ m + commands_rejected = submits - 1
    BY <2>1, <2>7 DEF Numbered
  <2>10. submits \in 1 .. submits
    BY <1>2, <2>7, <2>9
  <2>11. ASSUME NEW n \in 1 .. m + 1
         PROVE  All'[n].command_sequence = n /\ All'[n].request \in 1 .. submits
    <3>1. CASE n \in 1 .. m
      BY <2>8, <2>9, <3>1
    <3>2. CASE n = m + 1
      <4>1. All'[n] = x
        BY <2>8, <3>2
      <4>2. n = next_sequence
        BY <1>2, <2>9, <3>2
      <4> QED
        BY <2>4, <2>10, <4>1, <4>2
    <3> QED
      BY <2>7, <3>1, <3>2
  <2>12. ASSUME NEW n \in 1 .. m PROVE All'[n].request < All'[n + 1].request
    <3>1. CASE n = m
      BY <2>4, <2>8, <2>9, <3>1
    <3>2. CASE n # m
      <4>1. n \in 1 .. m - 1 /\ n + 1 \in 1 .. m
        BY <2>7, <3>2
      <4> QED
        BY <2>8, <2>9, <4>1
    <3> QED
      BY <3>1, <3>2
  <2>13. Len(All') + commands_rejected = submits /\ Len(All') = next_sequence' - 1 /\ Len(All') - 1 = m
    <3>1. Len(All') = m + 1 /\ m + commands_rejected = submits - 1 /\ m = next_sequence - 1
          /\ next_sequence' = next_sequence + 1
      BY <2>2, <2>8, <2>9
    <3>2. ASSUME NEW u \in Nat, NEW v \in Nat, NEW w \in Nat, m + v = u - 1, m = w - 1
          PROVE  m + 1 + v = u /\ m + 1 = w + 1 - 1 /\ m + 1 - 1 = m
      BY <3>2
    <3>3. m + 1 + commands_rejected = submits /\ m + 1 = next_sequence + 1 - 1 /\ m + 1 - 1 = m
      BY <1>2, <3>1, <3>2
    <3>4. Len(All') = m + 1 /\ next_sequence' = next_sequence + 1
      BY <3>1
    <3>5. Len(All') + commands_rejected = submits
      BY <3>3, <3>4
    <3>6. Len(All') = next_sequence' - 1
      <4>1. m + 1 = next_sequence /\ next_sequence \in Nat
        BY <1>2, <3>1, <3>2
      <4>2. next_sequence' - 1 = next_sequence
        BY <3>4, <4>1
      <4> QED
        BY <3>4, <4>1, <4>2
    <3>7. Len(All') - 1 = m
      BY <3>3, <3>4
    <3> QED
      BY <3>5, <3>6, <3>7
  <2>14. Numbered'
    BY <2>2, <2>8, <2>11, <2>12, <2>13 DEF Numbered
  <2> QED
    BY <2>5, <2>14
<1> QED
  BY <1>3, <1>4

\* What the gateway does to the pipeline is what the pipeline does.
LEMMA PipelineSteps ==
    ASSUME PipelineInv, [Next]_vars
    PROVE  PipelineInv'
<1>1. \/ Pipeline!SubmitCheck \/ Pipeline!SubmitPush
      \/ Pipeline!TryPop \/ Pipeline!CheckStop \/ Pipeline!Process
      \/ UNCHANGED <<queue, next_sequence, submits, p_pc, commands_rejected, m_pc, m_command,
                     processed>>
  <2>1. CASE UNCHANGED pipelineVars
    BY <2>1 DEF pipelineVars
  <2>2. CASE MatchingStep
    BY <2>2 DEF MatchingStep, route_event, MatchingTakes, MatchingProcesses, MatchingIdles,
                pipelineVars
  <2>3. CASE StopStep
    BY <2>3 DEF StopStep, ShutSockets, JoinConnections, PipelineStopped, Pipeline!RequestStop,
                Pipeline!Join, Pipeline!producerVars, Pipeline!matcherVars, pipelineVars
  <2>4. ASSUME NEW s \in Sessions, ReaderStep(s) PROVE <1>1!:
    BY <2>4 DEF ReaderStep, claim_order_ownership, SubmitBegin, SubmitEnd, ReaderCloses,
                unbind_session, pipelineVars
  <2>5. ASSUME NEW s \in Sessions, WriterStep(s) PROVE UNCHANGED pipelineVars
    BY <2>5 DEF WriterStep, WriterTop, WriterQueues, WriterFails
  <2>6. CASE Client \/ accept_loop \/ StopRequested
    BY <2>6 DEF Client, accept_loop, StopRequested, ReadRequest, ReadNoRequest, HangUp,
                WriterWrites, pipelineVars
  <2>7. CASE UNCHANGED vars
    BY <2>7 DEF vars, pipelineVars
  <2> QED
    BY <2>1, <2>2, <2>3, <2>4, <2>5, <2>6, <2>7 DEF Next
<1>2. CASE UNCHANGED <<queue, next_sequence, submits, p_pc, commands_rejected, m_pc, m_command,
                       processed>>
  <2>1. All' = All
    BY <1>2 DEF All, Pipeline!InHand
  <2> QED
    BY <1>2, <2>1 DEF PipelineInv, PipelineTyping, RoomSeen, Numbered
<1> QED
  BY <1>1, <1>2, PipelineMoves, PipelineSubmits

\* With any number of readers submitting and the matching thread taking, the commands
\* processed, in hand and queued are numbered 1, 2, 3, ... without a gap.
THEOREM GaplessOrderHolds == Spec => []GaplessOrder
<1>1. Init => PipelineInv
  BY PipelineInit DEF Init
<1>2. PipelineInv /\ [Next]_vars => PipelineInv'
  BY PipelineSteps
<1>3. PipelineInv => GaplessOrder
  <2> SUFFICES ASSUME PipelineInv PROVE Pipeline!GaplessOrder
    BY DEF GaplessOrder
  <2>1. Len(All) \in Nat /\ All = processed \o Pipeline!InHand \o queue
    BY HandFacts DEF PipelineInv, All
  <2> QED
    BY <2>1 DEF PipelineInv, Numbered, Pipeline!GaplessOrder
<1> QED
  BY <1>1, <1>2, <1>3, PTL DEF Spec
-----------------------------------------------------------------------------
(***************************************************************************)
(* The sessions: what is registered for them and where the reports are.    *)
(***************************************************************************)
OrderKey == Accounts \X Nat

\* An execution report, and the gateway's own answer, which has no number.
OrderReport == [account : Accounts, id : Nat, n : Nat \ {0}]
OwnAnswer   == [account : Accounts, id : Nat, n : {0}]
Message     == OrderReport \union OwnAnswer

ConnectionSet ==
    [reader : {"none", "read", "deaf", "claim", "submit", "push", "unbind", "done"},
     request : Request \union {None},
     writer : {"none", "top", "queues", "write", "done"},
     message : Message \union {None}, account : Accounts \union {None},
     closed : BOOLEAN, shut : BOOLEAN, outbound : Seq(OrderReport),
     session_outbound : Seq(OwnAnswer), replay_backlog : Seq(OrderReport),
     written : Seq(Message)]

SessionTyping ==
    /\ conn \in [Sessions -> ConnectionSet]
    /\ account_sessions \in [Accounts -> Seq(Sessions)]
    /\ order_owner \in [DOMAIN order_owner -> Sessions] /\ DOMAIN order_owner \subseteq OrderKey

\* What a reader and a writer have in hand.
Coherent(c) ==
    /\ c.reader \in {"claim", "submit"} => c.request \in Request /\ c.request.account = c.account
    /\ c.writer = "write" => c.message \in Message
    /\ c.writer \notin {"write", "done"} => c.message = None
    /\ c.account = None => c.replay_backlog = << >>
    /\ c.reader = "none" => c.writer = "none"

\* The maps name sessions of the account whose reader is there, each list one once.
Known(c, a) == c.account = a /\ c.reader \notin {"none", "done"}

Registered ==
    /\ \A a \in Accounts : \A i \in 1 .. Len(account_sessions[a]) :
          /\ Known(conn[account_sessions[a][i]], a)
          /\ \A j \in 1 .. i - 1 : account_sessions[a][j] # account_sessions[a][i]
    /\ \A k \in DOMAIN order_owner : Known(conn[order_owner[k]], k[1])

SessionInv ==
    SessionTyping /\ (\A s \in Sessions : Coherent(conn[s])) /\ Registered

\* Where a report may be.
In(q, r) == \E i \in 1 .. Len(q) : q[i] = r
Held(c, r) == c.message = r \/ In(c.written, r) \/ In(c.replay_backlog, r) \/ In(c.outbound, r)

\* No number is there twice.
Once(q) == \A i \in 1 .. Len(q) : \A j \in 1 .. i - 1 : q[j].n # q[i].n

\* Reports 1 .. n are each with a session of their account, retained for it, or dropped,
\* and in one of these places only; a retained report is there once.
Filed(n, c, p, d) ==
    /\ n \in Nat /\ p \in [Accounts -> Seq(OrderReport)] /\ d \subseteq 1 .. n
    /\ \A a \in Accounts : \A r \in OrderReport : In(p[a], r) => r.account = a /\ r.n <= n
    /\ \A a \in Accounts : Once(p[a])
    /\ \A s \in Sessions : \A r \in OrderReport :
          Held(c[s], r) => r.account = c[s].account /\ r.n <= n
    /\ \A k \in 1 .. n : \/ k \in d
                         \/ \E a \in Accounts, r \in OrderReport : r.n = k /\ In(p[a], r)
                         \/ \E s \in Sessions, r \in OrderReport : r.n = k /\ Held(c[s], r)
    /\ \A a \in Accounts : \A r \in OrderReport : In(p[a], r) => r.n \notin d
    /\ \A s \in Sessions : \A r \in OrderReport : Held(c[s], r) => r.n \notin d
    /\ \A a \in Accounts, s \in Sessions : \A r, q \in OrderReport :
          In(p[a], r) /\ Held(c[s], q) => r.n # q.n
    /\ \A a, b \in Accounts : \A r, q \in OrderReport :
          In(p[a], r) /\ In(p[b], q) /\ r.n = q.n => a = b
    /\ \A s, t \in Sessions : \A r, q \in OrderReport :
          Held(c[s], r) /\ Held(c[t], q) /\ r.n = q.n => s = t

Conserved == Filed(reports, conn, pending_reports, dropped)

\* The engine's orders and events name orders of the accounts.
EventSet ==
    {e \in [type : {"OrderAccepted", "OrderRejected", "OrderCancelled"}, keys : Seq(OrderKey)]
           \union [type : {"OrderReplaced"}, keys : Seq(OrderKey), to : OrderKey]
           \union [type : {"TradeExecuted"}, keys : Seq(OrderKey), filled : SUBSET OrderKey] :
        /\ Len(e.keys) \in {1, 2}
        /\ e.type = "OrderReplaced" => e.to[1] = e.keys[1][1]}

EngineInv ==
    /\ submitted \in Seq(Request) /\ Len(submitted) = submits
    /\ live \subseteq OrderKey /\ events \in Seq(EventSet)

GatewayInv == PipelineInv /\ SessionInv /\ Conserved /\ EngineInv

-----------------------------------------------------------------------------
\* What the queue operations do to what is in a queue.
LEMMA InAppend ==
    ASSUME NEW S, NEW q \in Seq(S), NEW x \in S, NEW r
    PROVE  In(Append(q, x), r) <=> In(q, r) \/ r = x
<1>1. /\ Len(Append(q, x)) = Len(q) + 1 /\ Append(q, x)[Len(q) + 1] = x
      /\ Len(q) \in Nat /\ \A i \in 1 .. Len(q) : Append(q, x)[i] = q[i]
  OBVIOUS
<1>2. \A i \in 1 .. Len(q) + 1 : i \in 1 .. Len(q) \/ i = Len(q) + 1
  BY <1>1
<1>3. Len(q) + 1 \in 1 .. Len(q) + 1 /\ \A i \in 1 .. Len(q) : i \in 1 .. Len(q) + 1
  BY <1>1
<1> QED
  BY <1>1, <1>2, <1>3 DEF In

LEMMA InTail ==
    ASSUME NEW S, NEW q \in Seq(S), q # << >>, NEW r
    PROVE  In(q, r) <=> r = Head(q) \/ In(Tail(q), r)
<1>1. /\ Len(q) \in Nat /\ Len(q) >= 1 /\ Head(q) = q[1] /\ Len(Tail(q)) = Len(q) - 1
      /\ \A i \in 1 .. Len(q) - 1 : Tail(q)[i] = q[i + 1]
  OBVIOUS
<1>2. \A i \in 1 .. Len(q) : i = 1 \/ (i - 1 \in 1 .. Len(q) - 1 /\ i - 1 + 1 = i)
  BY <1>1
<1>3. 1 \in 1 .. Len(q) /\ \A i \in 1 .. Len(q) - 1 : i + 1 \in 1 .. Len(q)
  BY <1>1
<1>4. In(q, r) => r = Head(q) \/ In(Tail(q), r)
  BY <1>1, <1>2 DEF In
<1>5. r = Head(q) \/ In(Tail(q), r) => In(q, r)
  BY <1>1, <1>3 DEF In
<1> QED
  BY <1>4, <1>5

LEMMA InEmpty == \A r : ~In(<< >>, r)
  BY DEF In

LEMMA MinIsLeast ==
    ASSUME NEW I \in SUBSET Nat, I # {}
    PROVE  Min(I) \in I
<1> DEFINE R == OpToRel(<, Nat)
<1>1. PICK m \in I : \A y \in I : ~(<<y, m>> \in R)
  BY NatLessThanWellFounded, WFMin, Zenon
<1>2. \A u, v \in Nat : <<v, u>> \in R <=> v < u
  BY DEF OpToRel
<1> HIDE DEF R
<1>3. ASSUME NEW y \in I PROVE m <= y
  <2>1. m \in Nat /\ y \in Nat /\ ~(y < m)
    BY <1>1, <1>2
  <2> QED
    BY <2>1
<1> QED
  BY <1>3 DEF Min

\* std::erase of a value that is there at most once.
LEMMA Removed ==
    ASSUME NEW S, NEW q \in Seq(S), NEW x \in S,
           \A i \in 1 .. Len(q) : \A j \in 1 .. i - 1 : q[j] # q[i]
    PROVE  LET p == RemoveFirst(q, x)
           IN  /\ p \in Seq(S)
               /\ \A i \in 1 .. Len(p) : p[i] # x /\ \E k \in 1 .. Len(q) : p[i] = q[k]
               /\ \A i \in 1 .. Len(p) : \A j \in 1 .. i - 1 : p[j] # p[i]
<1> DEFINE p == RemoveFirst(q, x)
<1>1. CASE ~ \E i \in 1 .. Len(q) : q[i] = x
  <2>1. p = q
    BY <1>1 DEF RemoveFirst
  <2> QED
    BY <1>1, <2>1
<1>2. CASE \E i \in 1 .. Len(q) : q[i] = x
  <2>1. PICK k : k = SelectInSeq(q, LAMBDA v : v = x)
    OBVIOUS
  <2>2. k = Min({i \in 1 .. Len(q) : q[i] = x})
    BY <1>2, <2>1 DEF SelectInSeq
  <2>3. k \in 1 .. Len(q) /\ q[k] = x
    BY <1>2, <2>2, MinIsLeast
  <2>4. p = SubSeq(q, 1, k - 1) \o SubSeq(q, k + 1, Len(q))
    BY <1>2, <2>1 DEF RemoveFirst, RemoveAt
  <2>5. PICK n \in Nat : n = Len(q)
    OBVIOUS
  <2>6. /\ SubSeq(q, 1, k - 1) \in Seq(S) /\ Len(SubSeq(q, 1, k - 1)) = k - 1
        /\ \A i \in 1 .. k - 1 : SubSeq(q, 1, k - 1)[i] = q[i]
    <3>1. k - 1 \in Int /\ \A i \in 1 .. k - 1 : q[i] \in S
      BY <2>3
    <3> HIDE DEF p
    <3>2. /\ SubSeq(q, 1, k - 1) \in Seq(S)
          /\ Len(SubSeq(q, 1, k - 1)) = IF 1 <= k - 1 THEN k - 1 - 1 + 1 ELSE 0
          /\ \A i \in 1 .. k - 1 - 1 + 1 : SubSeq(q, 1, k - 1)[i] = q[1 + i - 1]
      BY <3>1, SubSeqProperties
    <3> QED
      BY <2>3, <3>2
  <2>7. /\ SubSeq(q, k + 1, n) \in Seq(S) /\ Len(SubSeq(q, k + 1, n)) = n - k
        /\ \A i \in 1 .. n - k : SubSeq(q, k + 1, n)[i] = q[k + i]
    <3>1. k + 1 \in Int /\ n \in Int /\ \A i \in k + 1 .. n : q[i] \in S
      BY <2>3, <2>5
    <3>2. /\ SubSeq(q, k + 1, n) \in Seq(S)
          /\ Len(SubSeq(q, k + 1, n)) = IF k + 1 <= n THEN n - (k + 1) + 1 ELSE 0
          /\ \A i \in 1 .. n - (k + 1) + 1 : SubSeq(q, k + 1, n)[i] = q[k + 1 + i - 1]
      BY <3>1, SubSeqProperties
    <3> QED
      BY <2>3, <2>5, <3>2
  <2>8. PICK u, v \in Seq(S) : /\ p = u \o v /\ Len(u) = k - 1 /\ Len(v) = n - k
                               /\ \A i \in 1 .. k - 1 : u[i] = q[i]
                               /\ \A i \in 1 .. n - k : v[i] = q[k + i]
    BY <2>4, <2>5, <2>6, <2>7
  <2> HIDE DEF p
  <2>9. p \in Seq(S) /\ Len(p) = n - 1
    BY <2>3, <2>5, <2>8
  <2>10. ASSUME NEW i \in 1 .. n - 1 PROVE p[i] = IF i < k THEN q[i] ELSE q[i + 1]
    <3>1. CASE i < k
      BY <2>3, <2>5, <2>8, <3>1
    <3>2. CASE i >= k
      <4>1. p[i] = v[i - (k - 1)]
        BY <2>3, <2>5, <2>8, <3>2
      <4>2. PICK w \in 1 .. n - k : w = i - (k - 1) /\ k + w = i + 1
        BY <2>3, <2>5, <3>2
      <4>3. p[i] = q[i + 1]
        BY <2>8, <4>1, <4>2
      <4> QED
        BY <2>3, <3>2, <4>3
    <3> QED
      BY <2>3, <3>1, <3>2
  <2>11. \A i, j \in 1 .. n : i # j => q[i] # q[j]
    BY <2>5
  <2>12. ASSUME NEW i \in 1 .. n - 1 PROVE \E m \in 1 .. n : m # k /\ p[i] = q[m]
    <3>1. CASE i < k
      BY <2>3, <2>5, <2>10, <3>1
    <3>2. CASE i >= k
      <4>1. i + 1 \in 1 .. n /\ i + 1 # k /\ p[i] = q[i + 1]
        BY <2>3, <2>5, <2>10, <3>2
      <4> QED
        BY <4>1
    <3> QED
      BY <2>3, <3>1, <3>2
  <2>13. ASSUME NEW i \in 1 .. n - 1, NEW j \in 1 .. i - 1 PROVE p[j] # p[i]
    <3>1. j \in 1 .. n - 1 /\ j < i
      BY <2>5
    <3>2. CASE i < k
      BY <2>3, <2>5, <2>10, <2>11, <3>1, <3>2
    <3>3. CASE i >= k /\ j < k
      BY <2>3, <2>5, <2>10, <2>11, <3>1, <3>3
    <3>4. CASE i >= k /\ j >= k
      BY <2>3, <2>5, <2>10, <2>11, <3>1, <3>4
    <3> QED
      BY <2>3, <3>1, <3>2, <3>3, <3>4
  <2>14. \A i \in 1 .. Len(p) : p[i] # x /\ \E m \in 1 .. Len(q) : p[i] = q[m]
    BY <2>3, <2>5, <2>9, <2>11, <2>12
  <2>15. \A i \in 1 .. Len(p) : \A j \in 1 .. i - 1 : p[j] # p[i]
    BY <2>9, <2>13
  <2> QED
    BY <2>9, <2>14, <2>15 DEF p
<1> QED
  BY <1>1, <1>2

-----------------------------------------------------------------------------
\* How reports move from place to place.  Nothing moves ...
LEMMA FiledSame ==
    ASSUME NEW n, NEW c, NEW x, NEW p, NEW d, Filed(n, c, p, d),
           \A s \in Sessions : x[s].account = c[s].account,
           \A s \in Sessions : \A r \in OrderReport : Held(x[s], r) <=> Held(c[s], r)
    PROVE  Filed(n, x, p, d)
  BY DEF Filed

\* ... a session that binds takes what is retained for its account ...
LEMMA FiledBound ==
    ASSUME NEW n, NEW c, NEW x, NEW p, NEW d, Filed(n, c, p, d),
           NEW s \in Sessions, NEW a \in Accounts, c[s].account = None, x[s].account = a,
           \A r \in OrderReport : Held(x[s], r) <=> Held(c[s], r) \/ In(p[a], r),
           \A t \in Sessions \ {s} : x[t] = c[t]
    PROVE  Filed(n, x, [p EXCEPT ![a] = << >>], d)
<1> DEFINE y == [p EXCEPT ![a] = << >>]
<1>1. p \in [Accounts -> Seq(OrderReport)] /\ n \in Nat /\ d \subseteq 1 .. n
  BY DEF Filed
<1>2. y \in [Accounts -> Seq(OrderReport)] /\ y[a] = << >> /\ \A b \in Accounts \ {a} : y[b] = p[b]
  <2>1. << >> \in Seq(OrderReport)
    OBVIOUS
  <2> QED
    BY <1>1, <2>1
<1> HIDE DEF y
<1>3. \A r \in OrderReport : ~In(y[a], r)
  BY <1>2, InEmpty
<1>4. \A r \in OrderReport : ~Held(c[s], r)
  <2>1. \A r \in OrderReport : r.account \in Accounts
    BY DEF OrderReport
  <2> QED
    BY <2>1, GatewayAssumption DEF Filed
<1>5. \A r \in OrderReport : Held(x[s], r) <=> In(p[a], r)
  BY <1>4
<1>6. \A b \in Accounts : \A r \in OrderReport : In(y[b], r) <=> b # a /\ In(p[b], r)
  BY <1>2, <1>3
<1>7. \A t \in Sessions : \A r \in OrderReport :
         Held(x[t], r) <=> IF t = s THEN In(p[a], r) ELSE Held(c[t], r)
  BY <1>5
<1>8. \A b \in Accounts : Once(y[b])
  <2> TAKE b \in Accounts
  <2>1. CASE b = a
    BY <1>2, <2>1 DEF Once
  <2>2. CASE b # a
    BY <1>2, <2>2 DEF Filed
  <2> QED
    BY <2>1, <2>2
<1>9. \A t \in Sessions : \A r \in OrderReport :
         Held(x[t], r) => r.account = x[t].account /\ r.n <= n
  BY <1>7 DEF Filed
<1>10. ASSUME NEW k \in 1 .. n
       PROVE  \/ k \in d
              \/ \E b \in Accounts, r \in OrderReport : r.n = k /\ In(y[b], r)
              \/ \E t \in Sessions, r \in OrderReport : r.n = k /\ Held(x[t], r)
  <2>1. CASE k \in d
    BY <2>1
  <2>2. CASE \E b \in Accounts, r \in OrderReport : r.n = k /\ In(p[b], r)
    BY <1>6, <1>7, <2>2
  <2>3. CASE \E t \in Sessions, r \in OrderReport : r.n = k /\ Held(c[t], r)
    BY <1>4, <1>7, <2>3
  <2> QED
    BY <2>1, <2>2, <2>3 DEF Filed
<1>11. \A b \in Accounts : \A r \in OrderReport : In(y[b], r) => r.account = b /\ r.n <= n
  BY <1>6 DEF Filed
<1>12. /\ \A b \in Accounts : \A r \in OrderReport : In(y[b], r) => r.n \notin d
       /\ \A t \in Sessions : \A r \in OrderReport : Held(x[t], r) => r.n \notin d
  BY <1>6, <1>7 DEF Filed
<1>13. \A b \in Accounts, t \in Sessions : \A r, q \in OrderReport :
          In(y[b], r) /\ Held(x[t], q) => r.n # q.n
  BY <1>6, <1>7 DEF Filed
<1>14. \A b, e \in Accounts : \A r, q \in OrderReport :
          In(y[b], r) /\ In(y[e], q) /\ r.n = q.n => b = e
  BY <1>6 DEF Filed
<1>15. \A t, u \in Sessions : \A r, q \in OrderReport :
          Held(x[t], r) /\ Held(x[u], q) /\ r.n = q.n => t = u
  BY <1>7 DEF Filed
<1> QED
  BY <1>1, <1>2, <1>8, <1>9, <1>10, <1>11, <1>12, <1>13, <1>14, <1>15 DEF Filed, y

\* ... a new report goes to a session of its account ...
LEMMA FiledDelivered ==
    ASSUME NEW n, NEW c, NEW x, NEW p, NEW d, Filed(n, c, p, d),
           NEW s \in Sessions, NEW w \in OrderReport, w.n = n + 1, w.account = c[s].account,
           \A t \in Sessions : x[t].account = c[t].account,
           \A r \in OrderReport : Held(x[s], r) <=> Held(c[s], r) \/ r = w,
           \A t \in Sessions \ {s} : \A r \in OrderReport : Held(x[t], r) <=> Held(c[t], r)
    PROVE  Filed(n + 1, x, p, d)
<1>1. n \in Nat /\ p \in [Accounts -> Seq(OrderReport)] /\ d \subseteq 1 .. n
  BY DEF Filed
<1>2. n + 1 \in Nat /\ n + 1 \notin d /\ d \subseteq 1 .. n + 1
      /\ \A k \in 1 .. n + 1 : k \in 1 .. n \/ k = n + 1
  BY <1>1
<1>3. \A r \in OrderReport : r.n \in Nat /\ (r.n <= n => r.n <= n + 1 /\ r.n # n + 1)
  BY <1>1 DEF OrderReport
<1>4. \A t \in Sessions : \A r \in OrderReport :
         Held(x[t], r) <=> Held(c[t], r) \/ (t = s /\ r = w)
  OBVIOUS
<1>5. n + 1 <= n + 1
  BY <1>1
<1>6. \A a \in Accounts : \A r \in OrderReport : In(p[a], r) => r.account = a /\ r.n <= n + 1
  BY <1>3 DEF Filed
<1>7. \A t \in Sessions : \A r \in OrderReport :
         Held(x[t], r) => r.account = x[t].account /\ r.n <= n + 1
  BY <1>3, <1>4, <1>5 DEF Filed
<1>8. ASSUME NEW k \in 1 .. n + 1
      PROVE  \/ k \in d
             \/ \E a \in Accounts, r \in OrderReport : r.n = k /\ In(p[a], r)
             \/ \E t \in Sessions, r \in OrderReport : r.n = k /\ Held(x[t], r)
  <2>1. CASE k = n + 1
    BY <1>4, <2>1
  <2>2. CASE k \in 1 .. n
    BY <1>4, <2>2 DEF Filed
  <2> QED
    BY <1>2, <2>1, <2>2
<1>9. \A t \in Sessions : \A r \in OrderReport : Held(x[t], r) => r.n \notin d
  BY <1>2, <1>4 DEF Filed
<1>10. \A a \in Accounts, t \in Sessions : \A r, q \in OrderReport :
          In(p[a], r) /\ Held(x[t], q) => r.n # q.n
  BY <1>3, <1>4 DEF Filed
<1>11. \A t, u \in Sessions : \A r, q \in OrderReport :
          Held(x[t], r) /\ Held(x[u], q) /\ r.n = q.n => t = u
  BY <1>3, <1>4 DEF Filed
<1> QED
  BY <1>1, <1>2, <1>6, <1>7, <1>8, <1>9, <1>10, <1>11 DEF Filed

\* ... or is dropped ...
LEMMA FiledDropped ==
    ASSUME NEW n, NEW c, NEW p, NEW d, Filed(n, c, p, d)
    PROVE  Filed(n + 1, c, p, d \union {n + 1})
<1>1. n \in Nat /\ d \subseteq 1 .. n
  BY DEF Filed
<1>2. n + 1 \in Nat /\ d \union {n + 1} \subseteq 1 .. n + 1
      /\ \A k \in 1 .. n + 1 : k \in 1 .. n \/ k = n + 1
  BY <1>1
<1>3. \A r \in OrderReport : r.n \in Nat /\ (r.n <= n => r.n <= n + 1 /\ r.n # n + 1)
  BY <1>1 DEF OrderReport
<1>4. \A k \in 1 .. n + 1 :
         \/ k \in d \union {n + 1}
         \/ \E a \in Accounts, r \in OrderReport : r.n = k /\ In(p[a], r)
         \/ \E t \in Sessions, r \in OrderReport : r.n = k /\ Held(c[t], r)
  BY <1>2 DEF Filed
<1> QED
  BY <1>2, <1>3, <1>4 DEF Filed

\* ... or is retained, after those that are ...
LEMMA FiledRetained ==
    ASSUME NEW n, NEW c, NEW p, NEW d, Filed(n, c, p, d),
           NEW a \in Accounts, NEW w \in OrderReport, w.n = n + 1, w.account = a
    PROVE  Filed(n + 1, c, [p EXCEPT ![a] = Append(@, w)], d)
<1> DEFINE y == [p EXCEPT ![a] = Append(@, w)]
<1>1. n \in Nat /\ p \in [Accounts -> Seq(OrderReport)] /\ d \subseteq 1 .. n
  BY DEF Filed
<1>2. n + 1 \in Nat /\ n + 1 \notin d /\ d \subseteq 1 .. n + 1 /\ n + 1 <= n + 1
      /\ \A k \in 1 .. n + 1 : k \in 1 .. n \/ k = n + 1
  BY <1>1
<1>3. \A r \in OrderReport : r.n \in Nat /\ (r.n <= n => r.n <= n + 1 /\ r.n # n + 1)
  BY <1>1 DEF OrderReport
<1>4. PICK q \in Seq(OrderReport) : q = p[a]
  BY <1>1
<1>5. /\ Append(q, w) \in Seq(OrderReport) /\ Len(Append(q, w)) = Len(q) + 1 /\ Len(q) \in Nat
      /\ Append(q, w)[Len(q) + 1] = w /\ \A i \in 1 .. Len(q) : Append(q, w)[i] = q[i]
  OBVIOUS
<1>6. y \in [Accounts -> Seq(OrderReport)] /\ y[a] = Append(q, w)
      /\ \A b \in Accounts \ {a} : y[b] = p[b]
  BY <1>1, <1>4, <1>5
<1> HIDE DEF y
<1>7. \A r : In(Append(q, w), r) <=> In(q, r) \/ r = w
  BY InAppend
<1>8. \A b \in Accounts : \A r \in OrderReport : In(y[b], r) <=> In(p[b], r) \/ (b = a /\ r = w)
  BY <1>4, <1>6, <1>7
<1>9. \A b \in Accounts : \A r \in OrderReport : In(y[b], r) => r.account = b /\ r.n <= n + 1
  BY <1>2, <1>3, <1>8 DEF Filed
<1>10. \A b \in Accounts : Once(y[b])
  <2> TAKE b \in Accounts
  <2>1. CASE b # a
    BY <1>6, <2>1 DEF Filed
  <2>2. CASE b = a
    <3>1. \A i \in 1 .. Len(q) : q[i] \in OrderReport /\ In(p[a], q[i])
      BY <1>4 DEF In
    <3>2. \A i \in 1 .. Len(q) : q[i].n # n + 1
      BY <1>3, <3>1 DEF Filed
    <3>3. \A i \in 1 .. Len(q) : \A j \in 1 .. i - 1 : q[j].n # q[i].n
      BY <1>4 DEF Filed, Once
    <3>4. ASSUME NEW i \in 1 .. Len(q) + 1, NEW j \in 1 .. i - 1
          PROVE  Append(q, w)[j].n # Append(q, w)[i].n
      <4>1. j \in 1 .. Len(q) /\ Append(q, w)[j] = q[j]
        BY <1>5
      <4>2. CASE i = Len(q) + 1
        BY <1>5, <3>2, <4>1, <4>2
      <4>3. CASE i \in 1 .. Len(q)
        BY <1>5, <3>3, <4>1, <4>3
      <4> QED
        BY <1>5, <4>2, <4>3
    <3>5. Once(Append(q, w))
      BY <1>5, <3>4 DEF Once
    <3> QED
      BY <1>6, <2>2, <3>5
  <2> QED
    BY <2>1, <2>2
<1>11. \A t \in Sessions : \A r \in OrderReport :
          Held(c[t], r) => r.account = c[t].account /\ r.n <= n + 1
  BY <1>3 DEF Filed
<1>12. ASSUME NEW k \in 1 .. n + 1
       PROVE  \/ k \in d
              \/ \E b \in Accounts, r \in OrderReport : r.n = k /\ In(y[b], r)
              \/ \E t \in Sessions, r \in OrderReport : r.n = k /\ Held(c[t], r)
  <2>1. CASE k = n + 1
    BY <1>8, <2>1
  <2>2. CASE k \in 1 .. n
    BY <1>8, <2>2 DEF Filed
  <2> QED
    BY <1>2, <2>1, <2>2
<1>13. \A b \in Accounts : \A r \in OrderReport : In(y[b], r) => r.n \notin d
  BY <1>2, <1>8 DEF Filed
<1>14. \A b \in Accounts, t \in Sessions : \A r, v \in OrderReport :
          In(y[b], r) /\ Held(c[t], v) => r.n # v.n
  BY <1>3, <1>8 DEF Filed
<1>15. \A b, e \in Accounts : \A r, v \in OrderReport :
          In(y[b], r) /\ In(y[e], v) /\ r.n = v.n => b = e
  BY <1>3, <1>8 DEF Filed
<1> QED
  BY <1>2, <1>6, <1>9, <1>10, <1>11, <1>12, <1>13, <1>14, <1>15 DEF Filed, y

\* ... for which the oldest may have to go.
LEMMA FiledEvicted ==
    ASSUME NEW n, NEW c, NEW p, NEW d, Filed(n, c, p, d), NEW a \in Accounts, p[a] # << >>
    PROVE  Filed(n, c, [p EXCEPT ![a] = Tail(@)], d \union {Head(p[a]).n})
<1> DEFINE y == [p EXCEPT ![a] = Tail(@)]
<1>1. n \in Nat /\ p \in [Accounts -> Seq(OrderReport)] /\ d \subseteq 1 .. n
  BY DEF Filed
<1>2. PICK q \in Seq(OrderReport) : q = p[a] /\ q # << >>
  BY <1>1
<1>3. /\ Tail(q) \in Seq(OrderReport) /\ Len(Tail(q)) = Len(q) - 1 /\ Len(q) \in Nat /\ Len(q) >= 1
      /\ \A i \in 1 .. Len(q) - 1 : Tail(q)[i] = q[i + 1]
  BY <1>2
<1>4. PICK h \in OrderReport : h = Head(q) /\ h = q[1]
  BY <1>2
<1>5. y \in [Accounts -> Seq(OrderReport)] /\ y[a] = Tail(q) /\ \A b \in Accounts \ {a} : y[b] = p[b]
  BY <1>1, <1>2, <1>3
<1> HIDE DEF y
<1>6. \A i \in 1 .. Len(q) : \A j \in 1 .. i - 1 : q[j].n # q[i].n
  BY <1>2 DEF Filed, Once
<1>7. \A r : In(q, r) <=> r = h \/ In(Tail(q), r)
  BY <1>2, <1>4, InTail
<1>8. \A r \in OrderReport : In(Tail(q), r) => r.n # h.n
  <2> SUFFICES ASSUME NEW i \in 1 .. Len(q) - 1 PROVE Tail(q)[i].n # h.n
    BY <1>3 DEF In
  <2>1. i + 1 \in 1 .. Len(q) /\ 1 \in 1 .. i + 1 - 1
    BY <1>3
  <2>2. q[1].n # q[i + 1].n
    BY <1>6, <2>1
  <2> QED
    BY <1>3, <1>4, <2>2
<1>9. In(p[a], h) /\ h.n \in 1 .. n
  <2>1. In(p[a], h)
    BY <1>2, <1>7
  <2>2. h.n <= n
    BY <2>1 DEF Filed
  <2>3. h.n \in Nat \ {0}
    BY DEF OrderReport
  <2> QED
    BY <1>1, <2>1, <2>2, <2>3
<1>10. \A b \in Accounts : \A r \in OrderReport :
          In(y[b], r) <=> In(p[b], r) /\ ~(b = a /\ r.n = h.n)
  <2> TAKE b \in Accounts
  <2> TAKE r \in OrderReport
  <2>1. CASE b # a
    BY <1>5, <2>1
  <2>2. CASE b = a
    BY <1>2, <1>5, <1>7, <1>8, <2>2
  <2> QED
    BY <2>1, <2>2
<1>11. \A b \in Accounts : \A r \in OrderReport : In(y[b], r) => r.account = b /\ r.n <= n
  BY <1>10 DEF Filed
<1>12. \A b \in Accounts : Once(y[b])
  <2> TAKE b \in Accounts
  <2>1. CASE b # a
    BY <1>5, <2>1 DEF Filed
  <2>2. CASE b = a
    <3>1. ASSUME NEW i \in 1 .. Len(q) - 1, NEW j \in 1 .. i - 1
          PROVE  Tail(q)[j].n # Tail(q)[i].n
      <4>1. i + 1 \in 1 .. Len(q) /\ j + 1 \in 1 .. i + 1 - 1 /\ j \in 1 .. Len(q) - 1
        BY <1>3
      <4> QED
        BY <1>3, <1>6, <4>1
    <3>2. Once(Tail(q))
      BY <1>3, <3>1 DEF Once
    <3> QED
      BY <1>5, <2>2, <3>2
  <2> QED
    BY <2>1, <2>2
<1>13. d \union {h.n} \subseteq 1 .. n
  BY <1>1, <1>9
<1>14. ASSUME NEW k \in 1 .. n
       PROVE  \/ k \in d \union {h.n}
              \/ \E b \in Accounts, r \in OrderReport : r.n = k /\ In(y[b], r)
              \/ \E t \in Sessions, r \in OrderReport : r.n = k /\ Held(c[t], r)
  BY <1>10 DEF Filed
<1>15. \A b \in Accounts : \A r \in OrderReport : In(y[b], r) => r.n \notin d \union {h.n}
  BY <1>9, <1>10 DEF Filed
<1>16. \A t \in Sessions : \A r \in OrderReport : Held(c[t], r) => r.n \notin d \union {h.n}
  BY <1>9 DEF Filed
<1>17. \A b \in Accounts, t \in Sessions : \A r, v \in OrderReport :
          In(y[b], r) /\ Held(c[t], v) => r.n # v.n
  BY <1>10 DEF Filed
<1>18. \A b, e \in Accounts : \A r, v \in OrderReport :
          In(y[b], r) /\ In(y[e], v) /\ r.n = v.n => b = e
  BY <1>10 DEF Filed
<1>19. h = Head(p[a])
  BY <1>2, <1>4
<1>20. \A t \in Sessions : \A r \in OrderReport :
          Held(c[t], r) => r.account = c[t].account /\ r.n <= n
  BY DEF Filed
<1>21. Filed(n, c, y, d \union {h.n})
  BY <1>1, <1>5, <1>11, <1>12, <1>13, <1>14, <1>15, <1>16, <1>17, <1>18, <1>20 DEF Filed
<1> QED
  BY <1>19, <1>21 DEF y

-----------------------------------------------------------------------------
\* A step of one connection's threads that leaves it its account and its reports ...
LEMMA OneConnection ==
    ASSUME SessionInv, Conserved, NEW s \in Sessions, NEW e \in ConnectionSet,
           conn' = [conn EXCEPT ![s] = e], Coherent(e), e.account = conn[s].account,
           \A r \in OrderReport : Held(e, r) <=> Held(conn[s], r),
           UNCHANGED <<pending_reports, reports, dropped>>
    PROVE  /\ conn' \in [Sessions -> ConnectionSet] /\ conn'[s] = e
           /\ \A t \in Sessions \ {s} : conn'[t] = conn[t]
           /\ \A t \in Sessions : Coherent(conn'[t])
           /\ Conserved'
<1>1. conn \in [Sessions -> ConnectionSet]
  BY DEF SessionInv, SessionTyping
<1>2. conn' \in [Sessions -> ConnectionSet] /\ conn'[s] = e
      /\ \A t \in Sessions \ {s} : conn'[t] = conn[t]
  BY <1>1
<1>3. \A t \in Sessions : Coherent(conn'[t])
  BY <1>2 DEF SessionInv
<1>4. \A t \in Sessions : conn'[t].account = conn[t].account
  BY <1>2
<1>5. \A t \in Sessions : \A r \in OrderReport : Held(conn'[t], r) <=> Held(conn[t], r)
  BY <1>2
<1>6. Filed(reports, conn', pending_reports, dropped)
  BY <1>4, <1>5, FiledSame DEF Conserved
<1> QED
  BY <1>2, <1>3, <1>6 DEF Conserved

\* ... and does not make its reader leave.
LEMMA OneSession ==
    ASSUME SessionInv, Conserved, NEW s \in Sessions, NEW e \in ConnectionSet,
           conn' = [conn EXCEPT ![s] = e], Coherent(e), e.account = conn[s].account,
           e.reader = conn[s].reader \/ e.reader \notin {"none", "done"},
           \A r \in OrderReport : Held(e, r) <=> Held(conn[s], r),
           UNCHANGED routing, UNCHANGED <<reports, dropped>>
    PROVE  SessionInv' /\ Conserved'
<1> USE DEF routing
<1>1. /\ conn' \in [Sessions -> ConnectionSet] /\ conn'[s] = e
      /\ \A t \in Sessions \ {s} : conn'[t] = conn[t]
      /\ \A t \in Sessions : Coherent(conn'[t])
      /\ Conserved'
  BY OneConnection
<1>2. SessionTyping'
  BY <1>1 DEF SessionInv, SessionTyping
<1>3. ASSUME NEW t \in Sessions, NEW a, Known(conn[t], a) PROVE Known(conn'[t], a)
  BY <1>1, <1>3 DEF Known
<1>4. Registered'
  BY <1>3 DEF SessionInv, SessionTyping, Registered
<1> QED
  BY <1>1, <1>2, <1>4 DEF SessionInv

\* In particular one that touches none of its queues but that of the gateway's answers.
LEMMA Steady ==
    ASSUME SessionInv, Conserved, NEW s \in Sessions, NEW c \in ConnectionSet, c = conn[s],
           NEW e \in ConnectionSet, conn' = [conn EXCEPT ![s] = e],
           e.message = c.message, e.account = c.account, e.written = c.written,
           e.replay_backlog = c.replay_backlog, e.outbound = c.outbound,
           \/ e.reader = c.reader /\ e.request = c.request
           \/ e.reader \in {"read", "deaf", "push", "unbind"}
           \/ e.reader = "submit" /\ c.reader = "claim" /\ e.request = c.request
           \/ e.reader = "claim" /\ e.request \in Request /\ e.request.account = c.account,
           \/ e.writer = c.writer
           \/ e.writer = "top" /\ c.writer \in {"none", "queues"} /\ e.reader # "none"
           \/ e.writer = "queues" /\ c.writer = "top"
           \/ e.writer = "done" /\ c.writer # "none",
           UNCHANGED routing, UNCHANGED <<reports, dropped>>
    PROVE  SessionInv' /\ Conserved'
<1>1. Coherent(c)
  BY DEF SessionInv
<1>2. Coherent(e)
  <2>1. e.reader \in {"claim", "submit"} => e.request \in Request /\ e.request.account = e.account
    BY <1>1 DEF Coherent
  <2>2. /\ e.writer = "write" => e.message \in Message
        /\ e.writer \notin {"write", "done"} => e.message = None
        /\ e.account = None => e.replay_backlog = << >>
    BY <1>1 DEF Coherent
  <2>3. e.reader = "none" => e.writer = "none"
    BY <1>1 DEF Coherent
  <2> QED
    BY <2>1, <2>2, <2>3 DEF Coherent
<1>3. \A r \in OrderReport : Held(e, r) <=> Held(c, r)
  BY DEF Held
<1>4. e.reader = c.reader \/ e.reader \notin {"none", "done"}
  OBVIOUS
<1> QED
  BY <1>2, <1>3, <1>4, OneSession

LEMMA RequestFacts ==
    /\ \A r \in Request : r.account \in Accounts /\ r.id \in Nat
    /\ \A r \in Request : r.type = "ReplaceOrder" => r.new_id \in Nat
  BY DEF Request

\* What a frame can make the reader do.
LEMMA WantedIsRequest ==
    ASSUME NEW f \in Frames, Wanted(f) # None
    PROVE  Wanted(f) \in Request
  BY GatewayAssumption DEF Wanted

LEMMA Accepts ==
    ASSUME SessionInv, Conserved, accept_loop
    PROVE  SessionInv' /\ Conserved'
<1>1. PICK s \in Sessions : /\ conn[s].reader = "none"
                            /\ conn' = [conn EXCEPT ![s].reader = "read", ![s].writer = "top"]
  BY DEF accept_loop
<1>2. PICK c \in ConnectionSet : c = conn[s] /\ Coherent(c)
  BY DEF SessionInv, SessionTyping
<1>3. PICK e : e = [c EXCEPT !.reader = "read", !.writer = "top"]
  OBVIOUS
<1>4. e \in ConnectionSet
  BY <1>3 DEF ConnectionSet
<1>5. conn' = [conn EXCEPT ![s] = e] /\ UNCHANGED routing /\ UNCHANGED <<reports, dropped>>
  BY <1>1, <1>2, <1>3 DEF accept_loop, engineVars, SessionInv, SessionTyping
<1>6. /\ e.message = c.message /\ e.account = c.account /\ e.written = c.written
      /\ e.replay_backlog = c.replay_backlog /\ e.outbound = c.outbound
      /\ e.reader = "read" /\ e.writer = "top"
  BY <1>3 DEF ConnectionSet
<1>7. c.writer = "none"
  BY <1>1, <1>2 DEF Coherent
<1> QED
  BY <1>2, <1>4, <1>5, <1>6, <1>7, Steady

LEMMA ClientLeaves ==
    ASSUME SessionInv, Conserved, NEW s \in Sessions, HangUp(s)
    PROVE  SessionInv' /\ Conserved'
<1>1. PICK c \in ConnectionSet : c = conn[s]
  BY DEF SessionInv, SessionTyping
<1>2. PICK e : e = [c EXCEPT !.shut = TRUE]
  OBVIOUS
<1>3. e \in ConnectionSet
  BY <1>2 DEF ConnectionSet
<1>4. conn' = [conn EXCEPT ![s] = e] /\ UNCHANGED routing /\ UNCHANGED <<reports, dropped>>
  BY <1>1, <1>2 DEF HangUp, engineVars, SessionInv, SessionTyping
<1>5. /\ e.message = c.message /\ e.account = c.account /\ e.written = c.written
      /\ e.replay_backlog = c.replay_backlog /\ e.outbound = c.outbound
      /\ e.reader = c.reader /\ e.writer = c.writer /\ e.request = c.request
  BY <1>2 DEF ConnectionSet
<1> QED
  BY <1>1, <1>3, <1>4, <1>5, Steady

LEMMA ReadsOther ==
    ASSUME SessionInv, Conserved, NEW s \in Sessions, ReadNoRequest(s)
    PROVE  SessionInv' /\ Conserved'
<1>1. PICK c \in ConnectionSet : c = conn[s]
  BY DEF SessionInv, SessionTyping
<1>2. PICK reader \in {"read", "deaf"} : conn' = [conn EXCEPT ![s].reader = reader]
  BY DEF ReadNoRequest
<1>3. PICK e : e = [c EXCEPT !.reader = reader]
  OBVIOUS
<1>4. e \in ConnectionSet
  BY <1>3 DEF ConnectionSet
<1>5. conn' = [conn EXCEPT ![s] = e] /\ UNCHANGED routing /\ UNCHANGED <<reports, dropped>>
  BY <1>1, <1>2, <1>3 DEF ReadNoRequest, engineVars, SessionInv, SessionTyping
<1>6. /\ e.message = c.message /\ e.account = c.account /\ e.written = c.written
      /\ e.replay_backlog = c.replay_backlog /\ e.outbound = c.outbound
      /\ e.reader = reader /\ e.writer = c.writer
  BY <1>3 DEF ConnectionSet
<1> QED
  BY <1>1, <1>4, <1>5, <1>6, Steady

LEMMA Submits ==
    ASSUME SessionInv, Conserved, NEW s \in Sessions, SubmitBegin(s) \/ SubmitEnd(s)
    PROVE  SessionInv' /\ Conserved'
<1>1. PICK c \in ConnectionSet : c = conn[s]
  BY DEF SessionInv, SessionTyping
<1>2. PICK reader \in {"read", "push"}, request \in {c.request, None} :
         conn' = [conn EXCEPT ![s].reader = reader, ![s].request = request]
  <2>1. CASE SubmitBegin(s)
    BY <2>1 DEF SubmitBegin
  <2>2. CASE SubmitEnd(s)
    BY <1>1, <2>2 DEF SubmitEnd, SessionInv, SessionTyping, ConnectionSet
  <2> QED
    BY <2>1, <2>2
<1>3. PICK e : e = [c EXCEPT !.reader = reader, !.request = request]
  OBVIOUS
<1>4. e \in ConnectionSet
  BY <1>3 DEF ConnectionSet
<1>5. conn' = [conn EXCEPT ![s] = e] /\ UNCHANGED routing /\ UNCHANGED <<reports, dropped>>
  BY <1>1, <1>2, <1>3 DEF SubmitBegin, SubmitEnd, engineVars, SessionInv, SessionTyping
<1>6. /\ e.message = c.message /\ e.account = c.account /\ e.written = c.written
      /\ e.replay_backlog = c.replay_backlog /\ e.outbound = c.outbound
      /\ e.reader = reader /\ e.writer = c.writer
  BY <1>3 DEF ConnectionSet
<1> QED
  BY <1>1, <1>4, <1>5, <1>6, Steady

LEMMA Closes ==
    ASSUME SessionInv, Conserved, NEW s \in Sessions, ReaderCloses(s)
    PROVE  SessionInv' /\ Conserved'
<1>1. PICK c \in ConnectionSet : c = conn[s]
  BY DEF SessionInv, SessionTyping
<1>2. PICK e : e = [c EXCEPT !.closed = TRUE, !.reader = "unbind"]
  OBVIOUS
<1>3. e \in ConnectionSet
  BY <1>2 DEF ConnectionSet
<1>4. conn' = [conn EXCEPT ![s] = e] /\ UNCHANGED routing /\ UNCHANGED <<reports, dropped>>
  BY <1>1, <1>2 DEF ReaderCloses, engineVars, SessionInv, SessionTyping
<1>5. /\ e.message = c.message /\ e.account = c.account /\ e.written = c.written
      /\ e.replay_backlog = c.replay_backlog /\ e.outbound = c.outbound
      /\ e.reader = "unbind" /\ e.writer = c.writer
  BY <1>2 DEF ConnectionSet
<1> QED
  BY <1>1, <1>3, <1>4, <1>5, Steady

-----------------------------------------------------------------------------
\* The writer's look at the backlog: the head moves into its hand.
LEMMA LooksAtBacklog ==
    ASSUME SessionInv, Conserved, NEW s \in Sessions, WriterTop(s)
    PROVE  SessionInv' /\ Conserved'
<1>1. PICK c \in ConnectionSet : c = conn[s] /\ Coherent(c) /\ c.writer = "top"
  BY DEF WriterTop, SessionInv, SessionTyping
<1>2. PICK e : /\ \/ e = [c EXCEPT !.writer = "done"]
                  \/ /\ c.replay_backlog # << >>
                     /\ e = [c EXCEPT !.message = Head(c.replay_backlog), !.writer = "write",
                                      !.replay_backlog = Tail(@)]
                  \/ e = [c EXCEPT !.writer = "queues"]
               /\ conn' = [conn EXCEPT ![s] = e]
  BY <1>1 DEF WriterTop
<1>3. UNCHANGED routing /\ UNCHANGED <<reports, dropped>>
  BY DEF WriterTop, engineVars
<1>4. CASE e = [c EXCEPT !.writer = "done"] \/ e = [c EXCEPT !.writer = "queues"]
  <2>1. e \in ConnectionSet
    BY <1>4 DEF ConnectionSet
  <2>2. /\ e.message = c.message /\ e.account = c.account /\ e.written = c.written
        /\ e.replay_backlog = c.replay_backlog /\ e.outbound = c.outbound
        /\ e.reader = c.reader /\ e.request = c.request /\ e.writer \in {"done", "queues"}
    BY <1>4 DEF ConnectionSet
  <2> QED
    BY <1>1, <1>2, <1>3, <2>1, <2>2, Steady
<1>5. CASE /\ c.replay_backlog # << >>
           /\ e = [c EXCEPT !.message = Head(c.replay_backlog), !.writer = "write",
                            !.replay_backlog = Tail(@)]
  <2>1. PICK q \in Seq(OrderReport) : q = c.replay_backlog /\ q # << >>
    BY <1>5 DEF ConnectionSet
  <2>2. Head(q) \in OrderReport /\ Tail(q) \in Seq(OrderReport)
    BY <2>1
  <2>3. e \in ConnectionSet
    BY <1>5, <2>1, <2>2 DEF ConnectionSet, Message
  <2>4. /\ e.message = Head(q) /\ e.account = c.account /\ e.written = c.written
        /\ e.replay_backlog = Tail(q) /\ e.outbound = c.outbound
        /\ e.reader = c.reader /\ e.request = c.request /\ e.writer = "write"
    BY <1>5, <2>1 DEF ConnectionSet
  <2>5. Coherent(e)
    <3>1. c.account # None /\ c.reader # "none"
      BY <1>1, <2>1 DEF Coherent
    <3> QED
      BY <1>1, <2>2, <2>4, <3>1 DEF Coherent, Message
  <2>6. c.message = None
    BY <1>1 DEF Coherent
  <2>7. \A r \in OrderReport : Held(e, r) <=> Held(c, r)
    <3> TAKE r \in OrderReport
    <3>1. In(q, r) <=> r = Head(q) \/ In(Tail(q), r)
      BY <2>1, InTail
    <3>2. r # None
      BY GatewayAssumption DEF OrderReport
    <3> QED
      BY <2>1, <2>4, <2>6, <3>1, <3>2 DEF Held
  <2> QED
    BY <1>1, <1>2, <1>3, <2>3, <2>4, <2>5, <2>7, OneSession
<1> QED
  BY <1>2, <1>4, <1>5

\* Its look at the two queues.
LEMMA LooksAtQueues ==
    ASSUME SessionInv, Conserved, NEW s \in Sessions, WriterQueues(s)
    PROVE  SessionInv' /\ Conserved'
<1>1. PICK c \in ConnectionSet : c = conn[s] /\ Coherent(c) /\ c.writer = "queues"
  BY DEF WriterQueues, SessionInv, SessionTyping
<1>2. PICK e : /\ \/ /\ c.session_outbound # << >>
                     /\ e = [c EXCEPT !.message = Head(c.session_outbound), !.writer = "write",
                                      !.session_outbound = Tail(@)]
                  \/ /\ c.outbound # << >>
                     /\ e = [c EXCEPT !.message = Head(c.outbound), !.writer = "write",
                                      !.outbound = Tail(@)]
                  \/ e = [c EXCEPT !.writer = "top"]
               /\ conn' = [conn EXCEPT ![s] = e]
  BY <1>1 DEF WriterQueues
<1>3. UNCHANGED routing /\ UNCHANGED <<reports, dropped>>
  BY DEF WriterQueues, engineVars
<1>4. c.message = None /\ c.reader # "none"
  BY <1>1 DEF Coherent
<1>5. \A r \in OrderReport : r # None /\ r \notin OwnAnswer
  BY GatewayAssumption DEF OrderReport, OwnAnswer
<1>6. CASE e = [c EXCEPT !.writer = "top"]
  <2>1. e \in ConnectionSet
    BY <1>6 DEF ConnectionSet
  <2>2. /\ e.message = c.message /\ e.account = c.account /\ e.written = c.written
        /\ e.replay_backlog = c.replay_backlog /\ e.outbound = c.outbound
        /\ e.reader = c.reader /\ e.request = c.request /\ e.writer = "top"
    BY <1>6 DEF ConnectionSet
  <2> QED
    BY <1>1, <1>2, <1>3, <1>4, <2>1, <2>2, Steady
<1>7. CASE /\ c.session_outbound # << >>
           /\ e = [c EXCEPT !.message = Head(c.session_outbound), !.writer = "write",
                            !.session_outbound = Tail(@)]
  <2>1. PICK q \in Seq(OwnAnswer) : q = c.session_outbound /\ q # << >>
    BY <1>7 DEF ConnectionSet
  <2>2. Head(q) \in OwnAnswer /\ Tail(q) \in Seq(OwnAnswer)
    BY <2>1
  <2>3. e \in ConnectionSet
    BY <1>7, <2>1, <2>2 DEF ConnectionSet, Message
  <2>4. /\ e.message = Head(q) /\ e.account = c.account /\ e.written = c.written
        /\ e.replay_backlog = c.replay_backlog /\ e.outbound = c.outbound
        /\ e.reader = c.reader /\ e.request = c.request /\ e.writer = "write"
    BY <1>7, <2>1 DEF ConnectionSet
  <2>5. Coherent(e)
    BY <1>1, <1>4, <2>2, <2>4 DEF Coherent, Message
  <2>6. \A r \in OrderReport : Held(e, r) <=> Held(c, r)
    BY <1>4, <1>5, <2>2, <2>4 DEF Held
  <2> QED
    BY <1>1, <1>2, <1>3, <2>3, <2>4, <2>5, <2>6, OneSession
<1>8. CASE /\ c.outbound # << >>
           /\ e = [c EXCEPT !.message = Head(c.outbound), !.writer = "write",
                            !.outbound = Tail(@)]
  <2>1. PICK q \in Seq(OrderReport) : q = c.outbound /\ q # << >>
    BY <1>8 DEF ConnectionSet
  <2>2. Head(q) \in OrderReport /\ Tail(q) \in Seq(OrderReport)
    BY <2>1
  <2>3. e \in ConnectionSet
    BY <1>8, <2>1, <2>2 DEF ConnectionSet, Message
  <2>4. /\ e.message = Head(q) /\ e.account = c.account /\ e.written = c.written
        /\ e.replay_backlog = c.replay_backlog /\ e.outbound = Tail(q)
        /\ e.reader = c.reader /\ e.request = c.request /\ e.writer = "write"
    BY <1>8, <2>1 DEF ConnectionSet
  <2>5. Coherent(e)
    BY <1>1, <1>4, <2>2, <2>4 DEF Coherent, Message
  <2>6. \A r \in OrderReport : Held(e, r) <=> Held(c, r)
    <3> TAKE r \in OrderReport
    <3>1. In(q, r) <=> r = Head(q) \/ In(Tail(q), r)
      BY <2>1, InTail
    <3> QED
      BY <1>4, <1>5, <2>1, <2>4, <3>1 DEF Held
  <2> QED
    BY <1>1, <1>2, <1>3, <2>3, <2>4, <2>5, <2>6, OneSession
<1> QED
  BY <1>2, <1>6, <1>7, <1>8

\* What is in hand is written, or stays there when the socket is gone.
LEMMA Writes ==
    ASSUME SessionInv, Conserved, NEW s \in Sessions, WriterWrites(s) \/ WriterFails(s)
    PROVE  SessionInv' /\ Conserved'
<1>1. PICK c \in ConnectionSet : c = conn[s] /\ Coherent(c) /\ c.writer = "write"
  BY DEF WriterWrites, WriterFails, SessionInv, SessionTyping
<1>2. UNCHANGED routing /\ UNCHANGED <<reports, dropped>>
  BY DEF WriterWrites, WriterFails, engineVars
<1>3. c.message \in Message /\ c.reader # "none"
  BY <1>1 DEF Coherent
<1>4. CASE WriterFails(s)
  <2>1. PICK e : e = [c EXCEPT !.writer = "done"]
    OBVIOUS
  <2>2. e \in ConnectionSet /\ conn' = [conn EXCEPT ![s] = e]
    BY <1>1, <1>4, <2>1 DEF WriterFails, ConnectionSet, SessionInv, SessionTyping
  <2>3. /\ e.message = c.message /\ e.account = c.account /\ e.written = c.written
        /\ e.replay_backlog = c.replay_backlog /\ e.outbound = c.outbound
        /\ e.reader = c.reader /\ e.request = c.request /\ e.writer = "done"
    BY <2>1 DEF ConnectionSet
  <2> QED
    BY <1>1, <1>2, <2>2, <2>3, Steady
<1>5. CASE WriterWrites(s)
  <2>1. PICK q \in Seq(Message), m \in Message : q = c.written /\ m = c.message
    BY <1>3 DEF ConnectionSet
  <2>2. Append(q, m) \in Seq(Message)
    BY <2>1
  <2>3. PICK e : e = [c EXCEPT !.written = Append(q, m), !.message = None, !.writer = "top"]
    OBVIOUS
  <2>4. e \in ConnectionSet
    BY <2>2, <2>3 DEF ConnectionSet
  <2>5. conn' = [conn EXCEPT ![s] = e]
    BY <1>1, <1>5, <2>1, <2>3 DEF WriterWrites, ConnectionSet, SessionInv, SessionTyping
  <2>6. /\ e.message = None /\ e.account = c.account /\ e.written = Append(q, m)
        /\ e.replay_backlog = c.replay_backlog /\ e.outbound = c.outbound
        /\ e.reader = c.reader /\ e.request = c.request /\ e.writer = "top"
    BY <2>3 DEF ConnectionSet
  <2>7. Coherent(e)
    BY <1>1, <1>3, <2>6 DEF Coherent
  <2>8. \A r \in OrderReport : Held(e, r) <=> Held(c, r)
    <3> TAKE r \in OrderReport
    <3>1. In(Append(q, m), r) <=> In(q, r) \/ r = m
      BY <2>1, InAppend
    <3>2. r # None
      BY GatewayAssumption DEF OrderReport
    <3> QED
      BY <2>1, <2>6, <3>1, <3>2 DEF Held
  <2> QED
    BY <1>1, <1>2, <2>4, <2>5, <2>6, <2>7, <2>8, OneSession
<1> QED
  BY <1>4, <1>5

-----------------------------------------------------------------------------
\* The sessions that the maps name.
LEMMA Named ==
    ASSUME SessionInv
    PROVE  /\ \A a \in Accounts : \A i \in 1 .. Len(account_sessions[a]) :
                 /\ account_sessions[a][i] \in Sessions
                 /\ Known(conn[account_sessions[a][i]], a)
           /\ \A k \in DOMAIN order_owner : /\ k \in OrderKey /\ k[1] \in Accounts
                                            /\ order_owner[k] \in Sessions
                                            /\ Known(conn[order_owner[k]], k[1])
<1>1. \A a \in Accounts : \A i \in 1 .. Len(account_sessions[a]) :
         account_sessions[a][i] \in Sessions
  BY DEF SessionInv, SessionTyping
<1>2. \A k \in DOMAIN order_owner : k \in OrderKey /\ k[1] \in Accounts /\ order_owner[k] \in Sessions
  BY DEF SessionInv, SessionTyping, OrderKey
<1> QED
  BY <1>1, <1>2 DEF SessionInv, Registered

\* The first request of a session: it becomes one of the account's.
LEMMA Binds ==
    ASSUME SessionInv, Conserved, NEW s \in Sessions, NEW r \in Request,
           conn[s].account = None, bind_session(s, r), UNCHANGED <<order_owner, reports, dropped>>
    PROVE  SessionInv' /\ Conserved'
<1>1. PICK c \in ConnectionSet : c = conn[s] /\ Coherent(c) /\ c.account = None
  BY DEF SessionInv, SessionTyping
<1>2. PICK a \in Accounts : a = r.account
  BY RequestFacts
<1>3. PICK p \in Seq(OrderReport) : p = pending_reports[a]
  BY DEF Conserved, Filed
<1>4. PICK e : e = [c EXCEPT !.account = a, !.request = r, !.reader = "claim", !.replay_backlog = p]
  OBVIOUS
<1>5. e \in ConnectionSet
  BY <1>4 DEF ConnectionSet
<1>6. /\ e.account = a /\ e.request = r /\ e.reader = "claim" /\ e.replay_backlog = p
      /\ e.message = c.message /\ e.written = c.written /\ e.outbound = c.outbound
      /\ e.writer = c.writer
  BY <1>4 DEF ConnectionSet
<1>7. conn' = [conn EXCEPT ![s] = e]
  BY <1>1, <1>2, <1>3, <1>4 DEF bind_session, SessionInv, SessionTyping, ConnectionSet
<1>8. conn' \in [Sessions -> ConnectionSet] /\ conn'[s] = e
      /\ \A t \in Sessions \ {s} : conn'[t] = conn[t]
  BY <1>5, <1>7 DEF SessionInv, SessionTyping
<1>9. a # None
  BY GatewayAssumption
<1>10. Coherent(e)
  BY <1>1, <1>2, <1>6, <1>9 DEF Coherent
<1>11. \A t \in Sessions : Coherent(conn'[t])
  BY <1>8, <1>10 DEF SessionInv
<1>12. PICK q \in Seq(Sessions) : q = account_sessions[a]
  BY DEF SessionInv, SessionTyping
<1>13. /\ Append(q, s) \in Seq(Sessions) /\ Len(Append(q, s)) = Len(q) + 1 /\ Len(q) \in Nat
       /\ Append(q, s)[Len(q) + 1] = s /\ \A i \in 1 .. Len(q) : Append(q, s)[i] = q[i]
  OBVIOUS
<1>14. /\ account_sessions' \in [Accounts -> Seq(Sessions)] /\ account_sessions'[a] = Append(q, s)
       /\ \A b \in Accounts \ {a} : account_sessions'[b] = account_sessions[b]
  BY <1>2, <1>12, <1>13 DEF bind_session, SessionInv, SessionTyping
<1>15. SessionTyping'
  BY <1>8, <1>14 DEF SessionInv, SessionTyping
<1>16. \A b \in Accounts : ~Known(conn[s], b)
  BY <1>1, GatewayAssumption DEF Known
<1>17. Registered'
  <2>1. ASSUME NEW b \in Accounts, NEW i \in 1 .. Len(account_sessions[b])
        PROVE  /\ account_sessions[b][i] # s /\ Known(conn'[account_sessions[b][i]], b)
               /\ \A j \in 1 .. i - 1 : account_sessions[b][j] # account_sessions[b][i]
    <3>1. account_sessions[b][i] \in Sessions /\ Known(conn[account_sessions[b][i]], b)
      BY Named
    <3>2. \A j \in 1 .. i - 1 : account_sessions[b][j] # account_sessions[b][i]
      BY DEF SessionInv, Registered
    <3> QED
      BY <1>8, <1>16, <3>1, <3>2
  <2>2. ASSUME NEW b \in Accounts, NEW i \in 1 .. Len(account_sessions'[b])
        PROVE  /\ Known(conn'[account_sessions'[b][i]], b)
               /\ \A j \in 1 .. i - 1 : account_sessions'[b][j] # account_sessions'[b][i]
    <3>1. CASE b # a
      BY <1>14, <2>1, <3>1
    <3>2. CASE b = a /\ i = Len(q) + 1
      <4>1. account_sessions'[b][i] = s /\ Known(conn'[s], b)
        BY <1>6, <1>8, <1>13, <1>14, <3>2 DEF Known
      <4>2. ASSUME NEW j \in 1 .. i - 1 PROVE account_sessions'[b][j] # s
        <5>1. j \in 1 .. Len(q)
          BY <1>13, <3>2
        <5>2. q[j] # s /\ Append(q, s)[j] = q[j]
          BY <1>12, <1>13, <2>1, <5>1
        <5> QED
          BY <1>14, <3>2, <5>2
      <4> QED
        BY <4>1, <4>2
    <3>3. CASE b = a /\ i # Len(q) + 1
      <4>1. i \in 1 .. Len(q) /\ \A j \in 1 .. i - 1 : j \in 1 .. Len(q)
        BY <1>13, <1>14, <3>3
      <4>2. /\ Append(q, s)[i] = q[i] /\ Known(conn'[q[i]], a)
            /\ \A j \in 1 .. i - 1 : Append(q, s)[j] = q[j] /\ q[j] # q[i]
        BY <1>12, <1>13, <2>1, <4>1
      <4> QED
        BY <1>14, <3>3, <4>2
    <3> QED
      BY <3>1, <3>2, <3>3
  <2>3. \A k \in DOMAIN order_owner : Known(conn'[order_owner[k]], k[1])
    BY <1>8, <1>16, Named
  <2> QED
    BY <2>2, <2>3 DEF Registered
<1>18. Conserved'
  <2>1. c.replay_backlog = << >>
    BY <1>1 DEF Coherent
  <2>2. \A w \in OrderReport : Held(e, w) <=> Held(c, w) \/ In(p, w)
    BY <1>6, <2>1, InEmpty DEF Held
  <2>3. pending_reports' = [pending_reports EXCEPT ![a] = << >>]
    BY <1>2 DEF bind_session
  <2>4. Filed(reports, conn, pending_reports, dropped)
    BY DEF Conserved
  <2>5. conn[s].account = None /\ conn'[s].account = a
    BY <1>6, <1>8
  <2>6. \A w \in OrderReport : Held(conn'[s], w) <=> Held(conn[s], w) \/ In(pending_reports[a], w)
    BY <1>1, <1>3, <1>8, <2>2
  <2>7. Filed(reports, conn', [pending_reports EXCEPT ![a] = << >>], dropped)
    BY <1>8, <2>4, <2>5, <2>6, FiledBound
  <2> QED
    BY <2>3, <2>7 DEF Conserved
<1> QED
  BY <1>11, <1>15, <1>17, <1>18 DEF SessionInv

LEMMA ReadsRequest ==
    ASSUME SessionInv, Conserved, NEW s \in Sessions, ReadRequest(s)
    PROVE  SessionInv' /\ Conserved'
<1>1. PICK c \in ConnectionSet : c = conn[s] /\ Coherent(c)
  BY DEF SessionInv, SessionTyping
<1>2. PICK r \in Request :
         \/ conn[s].account = None /\ bind_session(s, r)
         \/ conn[s].account \notin {None, r.account} /\ reject_account_mismatch(s, r)
         \/ /\ conn[s].account = r.account
            /\ conn' = [conn EXCEPT ![s].request = r, ![s].reader = "claim"]
            /\ UNCHANGED <<account_sessions, pending_reports>>
  <2>1. \A f \in Frames : Wanted(f) # None => Wanted(f) \in Request
    BY WantedIsRequest
  <2> QED
    BY <2>1 DEF ReadRequest
<1>3. UNCHANGED <<order_owner, reports, dropped>>
  BY DEF ReadRequest, engineVars
<1>4. CASE conn[s].account = None /\ bind_session(s, r)
  BY <1>3, <1>4, Binds
<1>5. CASE reject_account_mismatch(s, r)
  <2>1. [account |-> r.account, id |-> r.id, n |-> 0] \in OwnAnswer
    BY RequestFacts DEF OwnAnswer
  <2>2. PICK q \in Seq(OwnAnswer) : conn' = [conn EXCEPT ![s].session_outbound = q]
    <3>1. PICK o \in Seq(OwnAnswer) : o = conn[s].session_outbound
      BY <1>1 DEF ConnectionSet
    <3>2. Append(o, [account |-> r.account, id |-> r.id, n |-> 0]) \in Seq(OwnAnswer)
      BY <2>1
    <3> QED
      BY <1>5, <3>1, <3>2 DEF reject_account_mismatch
  <2>3. PICK e : e = [c EXCEPT !.session_outbound = q]
    OBVIOUS
  <2>4. e \in ConnectionSet
    BY <2>3 DEF ConnectionSet
  <2>5. conn' = [conn EXCEPT ![s] = e] /\ UNCHANGED routing
    BY <1>1, <1>3, <1>5, <2>2, <2>3
       DEF reject_account_mismatch, routing, SessionInv, SessionTyping
  <2>6. /\ e.message = c.message /\ e.account = c.account /\ e.written = c.written
        /\ e.replay_backlog = c.replay_backlog /\ e.outbound = c.outbound
        /\ e.reader = c.reader /\ e.writer = c.writer /\ e.request = c.request
    BY <2>3 DEF ConnectionSet
  <2> QED
    BY <1>1, <1>3, <2>4, <2>5, <2>6, Steady
<1>6. CASE /\ conn[s].account = r.account
           /\ conn' = [conn EXCEPT ![s].request = r, ![s].reader = "claim"]
           /\ UNCHANGED <<account_sessions, pending_reports>>
  <2>1. PICK e : e = [c EXCEPT !.request = r, !.reader = "claim"]
    OBVIOUS
  <2>2. e \in ConnectionSet
    BY <2>1 DEF ConnectionSet
  <2>3. conn' = [conn EXCEPT ![s] = e] /\ UNCHANGED routing
    BY <1>1, <1>3, <1>6, <2>1 DEF routing, SessionInv, SessionTyping
  <2>4. /\ e.message = c.message /\ e.account = c.account /\ e.written = c.written
        /\ e.replay_backlog = c.replay_backlog /\ e.outbound = c.outbound
        /\ e.reader = "claim" /\ e.writer = c.writer /\ e.request = r
    BY <2>1 DEF ConnectionSet
  <2>5. e.request \in Request /\ e.request.account = c.account
    BY <1>1, <1>6, <2>4
  <2> QED
    BY <1>1, <1>3, <2>2, <2>3, <2>4, <2>5, Steady
<1> QED
  BY <1>2, <1>4, <1>5, <1>6

-----------------------------------------------------------------------------
\* The lists of sessions are as they were, and all the sessions in them too.
LEMMA ListsKept ==
    ASSUME SessionInv, UNCHANGED account_sessions,
           \A t \in Sessions : \A a \in Accounts : Known(conn[t], a) => Known(conn'[t], a)
    PROVE  \A a \in Accounts : \A i \in 1 .. Len(account_sessions'[a]) :
              /\ Known(conn'[account_sessions'[a][i]], a)
              /\ \A j \in 1 .. i - 1 : account_sessions'[a][j] # account_sessions'[a][i]
<1>1. \A a \in Accounts : \A i \in 1 .. Len(account_sessions[a]) :
         /\ Known(conn'[account_sessions[a][i]], a)
         /\ \A j \in 1 .. i - 1 : account_sessions[a][j] # account_sessions[a][i]
  BY Named DEF SessionInv, Registered
<1> QED
  BY <1>1

\* An order belongs to the session that first named it.
LEMMA Claims ==
    ASSUME SessionInv, Conserved, NEW s \in Sessions, claim_order_ownership(s)
    PROVE  SessionInv' /\ Conserved'
<1>1. PICK c \in ConnectionSet : c = conn[s] /\ Coherent(c) /\ c.reader = "claim"
  BY DEF claim_order_ownership, SessionInv, SessionTyping
<1>2. PICK e : e = [c EXCEPT !.reader = "submit"]
  OBVIOUS
<1>3. e \in ConnectionSet /\ conn' = [conn EXCEPT ![s] = e]
  BY <1>1, <1>2 DEF claim_order_ownership, ConnectionSet, SessionInv, SessionTyping
<1>4. /\ e.message = c.message /\ e.account = c.account /\ e.written = c.written
      /\ e.replay_backlog = c.replay_backlog /\ e.outbound = c.outbound
      /\ e.reader = "submit" /\ e.writer = c.writer /\ e.request = c.request
  BY <1>2 DEF ConnectionSet
<1>5. Coherent(e) /\ \A r \in OrderReport : Held(e, r) <=> Held(c, r)
  BY <1>1, <1>4 DEF Coherent, Held
<1>6. UNCHANGED <<account_sessions, pending_reports, reports, dropped>>
  BY DEF claim_order_ownership, engineVars
<1>7. /\ conn' \in [Sessions -> ConnectionSet] /\ conn'[s] = e
      /\ \A t \in Sessions \ {s} : conn'[t] = conn[t]
      /\ \A t \in Sessions : Coherent(conn'[t])
      /\ Conserved'
  BY <1>1, <1>3, <1>4, <1>5, <1>6, OneConnection
<1>8. \A t \in Sessions : \A a \in Accounts : Known(conn[t], a) => Known(conn'[t], a)
  BY <1>1, <1>4, <1>7 DEF Known
<1>9. PICK r \in Request : r = c.request /\ r.account = c.account
  BY <1>1 DEF Coherent
<1>10. PICK k \in OrderKey : k = Key(r) /\ k[1] = c.account
  <2>1. PICK a \in Accounts, i \in Nat : a = r.account /\ i = r.id
    BY RequestFacts
  <2>2. Key(r) = <<a, i>> /\ <<a, i>> \in OrderKey /\ <<a, i>>[1] = a
    BY <2>1 DEF Key, OrderKey
  <2> QED
    BY <1>9, <2>1, <2>2
<1>11. Known(conn'[s], k[1])
  BY <1>4, <1>7, <1>10 DEF Known
<1>12. \A j \in DOMAIN order_owner : Known(conn'[order_owner[j]], j[1])
  BY <1>8, Named
<1>13. /\ order_owner' \in [DOMAIN order_owner' -> Sessions] /\ DOMAIN order_owner' \subseteq OrderKey
       /\ \A j \in DOMAIN order_owner' : Known(conn'[order_owner'[j]], j[1])
  <2>1. CASE order_owner' = order_owner
    BY <1>12, <2>1 DEF SessionInv, SessionTyping
  <2>2. CASE order_owner' = With(order_owner, k, s)
    <3>1. order_owner' = [j \in DOMAIN order_owner \union {k} |-> IF j = k THEN s ELSE order_owner[j]]
      BY <2>2 DEF With
    <3>2. DOMAIN order_owner' = DOMAIN order_owner \union {k}
      BY <3>1
    <3>3. \A j \in DOMAIN order_owner' : order_owner'[j] = IF j = k THEN s ELSE order_owner[j]
      BY <3>1
    <3>4. \A j \in DOMAIN order_owner' : order_owner'[j] \in Sessions /\ j \in OrderKey
      BY <3>2, <3>3, Named
    <3>5. \A j \in DOMAIN order_owner' : Known(conn'[order_owner'[j]], j[1])
      BY <1>11, <1>12, <3>2, <3>3
    <3> QED
      BY <3>1, <3>4, <3>5
  <2> QED
    BY <1>1, <1>9, <1>10, <2>1, <2>2 DEF claim_order_ownership
<1>14. SessionTyping'
  BY <1>6, <1>7, <1>13 DEF SessionInv, SessionTyping
<1>15. Registered'
  BY <1>6, <1>8, <1>13, ListsKept DEF Registered
<1> QED
  BY <1>7, <1>14, <1>15 DEF SessionInv

\* What is left of a map without some of its keys.
LEMMA WithoutFacts ==
    ASSUME NEW f, NEW ks
    PROVE  /\ DOMAIN Without(f, ks) = DOMAIN f \ ks
           /\ \A k \in DOMAIN f \ ks : Without(f, ks)[k] = f[k]
           /\ \A T : (\A k \in DOMAIN f \ ks : f[k] \in T) => Without(f, ks) \in [DOMAIN f \ ks -> T]
<1>1. Without(f, ks) = [k \in DOMAIN f \ ks |-> f[k]]
  BY DEF Without, Restrict
<1> QED
  BY <1>1

\* The reader leaves, and with it goes all that named its session.
LEMMA Unbinds ==
    ASSUME SessionInv, Conserved, NEW s \in Sessions, unbind_session(s)
    PROVE  SessionInv' /\ Conserved'
<1>1. PICK c \in ConnectionSet : c = conn[s] /\ Coherent(c) /\ c.reader = "unbind"
  BY DEF unbind_session, SessionInv, SessionTyping
<1>2. PICK e : e = [c EXCEPT !.reader = "done"]
  OBVIOUS
<1>3. e \in ConnectionSet /\ conn' = [conn EXCEPT ![s] = e]
  BY <1>1, <1>2 DEF unbind_session, ConnectionSet, SessionInv, SessionTyping
<1>4. /\ e.message = c.message /\ e.account = c.account /\ e.written = c.written
      /\ e.replay_backlog = c.replay_backlog /\ e.outbound = c.outbound
      /\ e.reader = "done" /\ e.writer = c.writer /\ e.request = c.request
  BY <1>2 DEF ConnectionSet
<1>5. Coherent(e) /\ \A r \in OrderReport : Held(e, r) <=> Held(c, r)
  BY <1>1, <1>4 DEF Coherent, Held
<1>6. UNCHANGED <<pending_reports, reports, dropped>>
  BY DEF unbind_session, engineVars
<1>7. /\ conn' \in [Sessions -> ConnectionSet] /\ conn'[s] = e
      /\ \A t \in Sessions \ {s} : conn'[t] = conn[t]
      /\ \A t \in Sessions : Coherent(conn'[t])
      /\ Conserved'
  BY <1>1, <1>3, <1>4, <1>5, <1>6, OneConnection
<1>8. \A a \in Accounts : Known(conn[s], a) => a = c.account
  BY <1>1 DEF Known
<1>9. CASE c.account = None
  <2>1. UNCHANGED <<account_sessions, order_owner>>
    BY <1>1, <1>9 DEF unbind_session
  <2>2. \A t \in Sessions : \A a \in Accounts : Known(conn[t], a) => Known(conn'[t], a)
    BY <1>7, <1>8, <1>9, GatewayAssumption
  <2>3. \A k \in DOMAIN order_owner : Known(conn'[order_owner[k]], k[1])
    BY <2>2, Named
  <2>4. SessionTyping'
    BY <1>7, <2>1 DEF SessionInv, SessionTyping
  <2>5. Registered'
    BY <2>1, <2>2, <2>3, ListsKept DEF Registered
  <2> QED
    BY <1>7, <2>4, <2>5 DEF SessionInv
<1>10. CASE c.account # None
  <2>1. PICK a \in Accounts : a = c.account
    BY <1>10 DEF ConnectionSet
  <2>2. PICK q \in Seq(Sessions) : q = account_sessions[a]
    BY DEF SessionInv, SessionTyping
  <2>3. \A i \in 1 .. Len(q) : /\ q[i] \in Sessions /\ Known(conn[q[i]], a)
                               /\ \A j \in 1 .. i - 1 : q[j] # q[i]
    BY <2>2, Named DEF SessionInv, Registered
  <2>4. PICK p : p = RemoveFirst(q, s)
    OBVIOUS
  <2>5. /\ p \in Seq(Sessions)
        /\ \A i \in 1 .. Len(p) : p[i] # s /\ \E k \in 1 .. Len(q) : p[i] = q[k]
        /\ \A i \in 1 .. Len(p) : \A j \in 1 .. i - 1 : p[j] # p[i]
    <3>1. \A i \in 1 .. Len(q) : \A j \in 1 .. i - 1 : q[j] # q[i]
      BY <2>3
    <3>2. /\ RemoveFirst(q, s) \in Seq(Sessions)
          /\ \A i \in 1 .. Len(RemoveFirst(q, s)) : /\ RemoveFirst(q, s)[i] # s
                                                   /\ \E k \in 1 .. Len(q) : RemoveFirst(q, s)[i] = q[k]
          /\ \A i \in 1 .. Len(RemoveFirst(q, s)) : \A j \in 1 .. i - 1 :
                RemoveFirst(q, s)[j] # RemoveFirst(q, s)[i]
      BY <3>1, Removed
    <3> QED
      BY <2>4, <3>2
  <2>6. /\ account_sessions' = [account_sessions EXCEPT ![a] = p]
        /\ order_owner' = Without(order_owner, {k \in DOMAIN order_owner : order_owner[k] = s})
    BY <1>1, <1>10, <2>1, <2>2, <2>4 DEF unbind_session
  <2>7. /\ account_sessions' \in [Accounts -> Seq(Sessions)] /\ account_sessions'[a] = p
        /\ \A b \in Accounts \ {a} : account_sessions'[b] = account_sessions[b]
    BY <2>5, <2>6 DEF SessionInv, SessionTyping
  <2>8. \A t \in Sessions \ {s} : \A b : Known(conn[t], b) => Known(conn'[t], b)
    BY <1>7
  <2>9. ASSUME NEW b \in Accounts, NEW i \in 1 .. Len(account_sessions'[b])
        PROVE  /\ Known(conn'[account_sessions'[b][i]], b)
               /\ \A j \in 1 .. i - 1 : account_sessions'[b][j] # account_sessions'[b][i]
    <3>1. CASE b # a
      <4>1. account_sessions'[b] = account_sessions[b]
        BY <2>7, <3>1
      <4>2. account_sessions[b][i] \in Sessions /\ Known(conn[account_sessions[b][i]], b)
        BY <4>1, Named
      <4>3. account_sessions[b][i] # s
        BY <1>8, <2>1, <3>1, <4>2
      <4>4. \A j \in 1 .. i - 1 : account_sessions[b][j] # account_sessions[b][i]
        BY <4>1 DEF SessionInv, Registered
      <4> QED
        BY <2>8, <4>1, <4>2, <4>3, <4>4
    <3>2. CASE b = a
      <4>1. account_sessions'[b] = p /\ i \in 1 .. Len(p)
        BY <2>7, <3>2
      <4>2. PICK k \in 1 .. Len(q) : p[i] = q[k] /\ p[i] # s
        BY <2>5, <4>1
      <4>3. p[i] \in Sessions \ {s} /\ Known(conn[p[i]], b)
        BY <2>3, <3>2, <4>2
      <4>4. Known(conn'[p[i]], b)
        BY <2>8, <4>3
      <4>5. \A j \in 1 .. i - 1 : p[j] # p[i]
        BY <2>5, <4>1
      <4> QED
        BY <4>1, <4>4, <4>5
    <3> QED
      BY <3>1, <3>2
  <2>10. PICK ks : ks = {k \in DOMAIN order_owner : order_owner[k] = s}
    OBVIOUS
  <2>11. DOMAIN order_owner' = DOMAIN order_owner \ ks
         /\ \A k \in DOMAIN order_owner \ ks : order_owner'[k] = order_owner[k]
    BY <2>6, <2>10, WithoutFacts
  <2>12. \A k \in DOMAIN order_owner \ ks : order_owner[k] \in Sessions \ {s}
    BY <2>10, Named
  <2>13. order_owner' \in [DOMAIN order_owner' -> Sessions]
    BY <2>6, <2>10, <2>11, <2>12, WithoutFacts
  <2>14. \A k \in DOMAIN order_owner' : Known(conn'[order_owner'[k]], k[1])
    BY <2>8, <2>11, <2>12, Named
  <2>15. SessionTyping'
    BY <1>7, <2>7, <2>11, <2>13 DEF SessionInv, SessionTyping
  <2>16. Registered'
    BY <2>9, <2>14 DEF Registered
  <2> QED
    BY <1>7, <2>15, <2>16 DEF SessionInv
<1> QED
  BY <1>9, <1>10

\* stop() shuts every socket down.
LEMMA Shuts ==
    ASSUME SessionInv, Conserved, ShutSockets
    PROVE  SessionInv' /\ Conserved'
<1>1. UNCHANGED <<account_sessions, order_owner, pending_reports, reports, dropped>>
  BY DEF ShutSockets, routing, engineVars
<1>2. conn \in [Sessions -> ConnectionSet]
  BY DEF SessionInv, SessionTyping
<1>3. ASSUME NEW t \in Sessions
      PROVE  /\ conn'[t] \in ConnectionSet /\ Coherent(conn'[t])
             /\ conn'[t].account = conn[t].account /\ conn'[t].reader = conn[t].reader
             /\ \A r \in OrderReport : Held(conn'[t], r) <=> Held(conn[t], r)
  <2>1. PICK c \in ConnectionSet : c = conn[t] /\ Coherent(c)
    BY DEF SessionInv, SessionTyping
  <2>2. conn'[t] = c \/ conn'[t] = [c EXCEPT !.shut = TRUE]
    BY <2>1 DEF ShutSockets
  <2>3. CASE conn'[t] = [c EXCEPT !.shut = TRUE]
    <3>1. PICK e : e = [c EXCEPT !.shut = TRUE] /\ e = conn'[t]
      BY <2>3
    <3>2. e \in ConnectionSet
      BY <3>1 DEF ConnectionSet
    <3>3. /\ e.message = c.message /\ e.account = c.account /\ e.written = c.written
          /\ e.replay_backlog = c.replay_backlog /\ e.outbound = c.outbound
          /\ e.reader = c.reader /\ e.writer = c.writer /\ e.request = c.request
      BY <3>1 DEF ConnectionSet
    <3>4. Coherent(e) /\ \A r \in OrderReport : Held(e, r) <=> Held(c, r)
      BY <2>1, <3>3 DEF Coherent, Held
    <3> QED
      BY <2>1, <3>1, <3>2, <3>3, <3>4
  <2> QED
    BY <2>1, <2>2, <2>3
<1>4. conn' \in [Sessions -> ConnectionSet]
  BY <1>3 DEF ShutSockets
<1>5. SessionTyping'
  BY <1>1, <1>4 DEF SessionInv, SessionTyping
<1>6. \A t \in Sessions : \A a : Known(conn[t], a) => Known(conn'[t], a)
  BY <1>3 DEF Known
<1>7. \A k \in DOMAIN order_owner' : Known(conn'[order_owner'[k]], k[1])
  BY <1>1, <1>6, Named
<1>8. Registered'
  BY <1>1, <1>6, <1>7, ListsKept DEF Registered
<1>9. Filed(reports, conn', pending_reports, dropped)
  BY <1>3, FiledSame DEF Conserved
<1> QED
  BY <1>1, <1>3, <1>5, <1>8, <1>9 DEF SessionInv, Conserved

-----------------------------------------------------------------------------
(***************************************************************************)
(* Routing.                                                                *)
(***************************************************************************)
\* A report goes to a session of the order's account, or to none.
LEMMA TargetFacts ==
    ASSUME SessionInv, NEW key \in OrderKey
    PROVE  \/ Target(key) = None
           \/ Target(key) \in Sessions /\ conn[Target(key)].account = key[1]
<1>1. CASE key \in DOMAIN order_owner /\ Open(order_owner[key])
  BY <1>1, Named DEF Target, Known
<1>2. CASE ~(key \in DOMAIN order_owner /\ Open(order_owner[key]))
  <2>1. PICK a \in Accounts : a = key[1]
    BY DEF OrderKey
  <2>2. PICK q \in Seq(Sessions) : q = account_sessions[a]
    BY DEF SessionInv, SessionTyping
  <2>3. PICK first : first = SelectInSeq(q, Open)
    OBVIOUS
  <2>4. Target(key) = IF first = 0 THEN None ELSE q[first]
    BY <1>2, <2>1, <2>2, <2>3 DEF Target
  <2>5. first = 0 \/ first \in 1 .. Len(q)
    <3>1. PICK I : I = {i \in 1 .. Len(q) : Open(q[i])}
      OBVIOUS
    <3>2. first = IF I # {} THEN Min(I) ELSE 0
      BY <2>3, <3>1 DEF SelectInSeq
    <3>3. I \in SUBSET Nat /\ I \subseteq 1 .. Len(q)
      BY <3>1
    <3> QED
      BY <3>2, <3>3, MinIsLeast
  <2>6. CASE first \in 1 .. Len(q)
    <3>1. q[first] \in Sessions /\ Known(conn[q[first]], a)
      BY <2>2, <2>6, Named
    <3>2. first # 0
      BY <2>6
    <3> QED
      BY <2>1, <2>4, <3>1, <3>2 DEF Known
  <2> QED
    BY <2>4, <2>5, <2>6
<1> QED
  BY <1>1, <1>2

\* Routing adds to the queues of reports and changes nothing else of a connection.
Routed(c) ==
    /\ c \in [Sessions -> ConnectionSet]
    /\ \A t \in Sessions : /\ Coherent(c[t])
                           /\ c[t].account = conn[t].account /\ c[t].reader = conn[t].reader

LEMMA Placed ==
    ASSUME SessionInv, NEW z, Filed(z.n, z.conn, z.pending, z.dropped), Routed(z.conn),
           NEW key \in OrderKey
    PROVE  /\ Filed(Place(z, key).n, Place(z, key).conn, Place(z, key).pending,
                    Place(z, key).dropped)
           /\ Routed(Place(z, key).conn)
<1>1. PICK n, c, p, d : /\ n \in Nat
                      /\ n = z.n /\ c = z.conn /\ p = z.pending /\ d = z.dropped
  BY DEF Filed
<1>2. Filed(n, c, p, d) /\ Routed(c)
  BY <1>1
<1>3. PICK a \in Accounts, id \in Nat : a = key[1] /\ id = key[2]
  BY DEF OrderKey
<1>4. PICK w \in OrderReport : w = Report(key, n + 1) /\ w.n = n + 1 /\ w.account = a
  <2>1. PICK m \in Nat \ {0} : m = n + 1
    BY <1>1
  <2>2. Report(key, m) = [account |-> a, id |-> id, n |-> m]
    BY <1>3 DEF Report
  <2>3. [account |-> a, id |-> id, n |-> m] \in OrderReport
    BY DEF OrderReport
  <2> QED
    BY <2>1, <2>2, <2>3
<1>5. Place(z, key).n = n + 1
  BY <1>1, <1>4 DEF Place
<1>6. PICK q \in Seq(OrderReport) : q = p[a]
  BY <1>2 DEF Filed
<1>7. CASE Target(key) = None
  <2>1. Place(z, key).conn = c
    BY <1>1, <1>7 DEF Place
  <2>2. CASE pending_report_capacity = 0
    <3>1. Place(z, key).pending = p
      BY <1>1, <2>2 DEF Place
    <3>2. Place(z, key).dropped = d \union {n + 1}
      BY <1>1, <1>4, <1>7, <2>2 DEF Place
    <3>3. Filed(n + 1, c, p, d \union {n + 1})
      BY <1>2, FiledDropped
    <3> QED
      BY <1>2, <1>5, <2>1, <3>1, <3>2, <3>3
  <2>3. CASE pending_report_capacity # 0 /\ ~(Len(q) >= pending_report_capacity)
    <3>1. Place(z, key).pending = [p EXCEPT ![a] = Append(@, w)]
      BY <1>1, <1>3, <1>4, <1>6, <1>7, <2>3 DEF Place
    <3>2. Place(z, key).dropped = d
      BY <1>1, <1>3, <1>6, <1>7, <2>3 DEF Place
    <3>3. Filed(n + 1, c, [p EXCEPT ![a] = Append(@, w)], d)
      BY <1>2, <1>4, FiledRetained
    <3> QED
      BY <1>2, <1>5, <2>1, <3>1, <3>2, <3>3
  <2>4. CASE pending_report_capacity # 0 /\ Len(q) >= pending_report_capacity
    <3>1. Place(z, key).pending = [p EXCEPT ![a] = Append(Tail(@), w)]
      BY <1>1, <1>3, <1>4, <1>6, <1>7, <2>4 DEF Place
    <3>2. Place(z, key).dropped = d \union {Head(p[a]).n}
      BY <1>1, <1>3, <1>6, <1>7, <2>4 DEF Place
    <3>3. q # << >>
      BY <2>4, GatewayAssumption
    <3>4. PICK y, m : y = [p EXCEPT ![a] = Tail(@)] /\ m = d \union {Head(p[a]).n}
      OBVIOUS
    <3>5. Filed(n, c, y, m)
      BY <1>2, <1>6, <3>3, <3>4, FiledEvicted
    <3>6. Filed(n + 1, c, [y EXCEPT ![a] = Append(@, w)], m)
      BY <1>4, <3>5, FiledRetained
    <3>7. [y EXCEPT ![a] = Append(@, w)] = [p EXCEPT ![a] = Append(Tail(@), w)]
      BY <1>2, <3>4 DEF Filed
    <3> QED
      BY <1>2, <1>5, <2>1, <3>1, <3>2, <3>4, <3>6, <3>7
  <2> QED
    BY <2>2, <2>3, <2>4
<1>8. CASE Target(key) # None
  <2>1. PICK s \in Sessions : s = Target(key) /\ conn[s].account = a
    BY <1>3, <1>8, TargetFacts
  <2>2. Place(z, key).pending = p
    BY <1>1, <1>8 DEF Place
  <2>3. PICK b \in ConnectionSet : b = c[s] /\ Coherent(b) /\ b.account = a /\ b.reader = conn[s].reader
    BY <1>2, <2>1 DEF Routed
  <2>4. CASE Len(b.outbound) >= OutboundCapacity
    <3>1. Place(z, key).conn = c
      BY <1>1, <1>8, <2>1, <2>3, <2>4 DEF Place
    <3>2. Place(z, key).dropped = d \union {n + 1}
      BY <1>1, <1>4, <1>8, <2>1, <2>3, <2>4 DEF Place
    <3>3. Filed(n + 1, c, p, d \union {n + 1})
      BY <1>2, FiledDropped
    <3> QED
      BY <1>2, <1>5, <2>2, <3>1, <3>2, <3>3
  <2>5. CASE ~(Len(b.outbound) >= OutboundCapacity)
    <3>1. Place(z, key).dropped = d
      BY <1>1, <1>8, <2>1, <2>3, <2>5 DEF Place
    <3>2. Place(z, key).conn = [c EXCEPT ![s].outbound = Append(@, w)]
      BY <1>1, <1>4, <1>8, <2>1, <2>3, <2>5 DEF Place
    <3>3. PICK o \in Seq(OrderReport) : o = b.outbound
      BY DEF ConnectionSet
    <3>4. PICK e : e = [b EXCEPT !.outbound = Append(o, w)]
      OBVIOUS
    <3>5. e \in ConnectionSet
      <4>1. Append(o, w) \in Seq(OrderReport)
        BY <3>3
      <4> QED
        BY <3>4, <4>1 DEF ConnectionSet
    <3>6. /\ e.message = b.message /\ e.account = b.account /\ e.written = b.written
          /\ e.replay_backlog = b.replay_backlog /\ e.outbound = Append(o, w)
          /\ e.reader = b.reader /\ e.writer = b.writer /\ e.request = b.request
      BY <3>4 DEF ConnectionSet
    <3>7. Coherent(e)
      BY <2>3, <3>6 DEF Coherent
    <3>8. \A r \in OrderReport : Held(e, r) <=> Held(b, r) \/ r = w
      <4> TAKE r \in OrderReport
      <4>1. In(Append(o, w), r) <=> In(o, r) \/ r = w
        BY InAppend
      <4> QED
        BY <3>3, <3>6, <4>1 DEF Held
    <3>9. PICK x : x = [c EXCEPT ![s].outbound = Append(@, w)]
      OBVIOUS
    <3>10. x = [c EXCEPT ![s] = e]
      BY <1>2, <2>3, <3>3, <3>4, <3>9 DEF Routed
    <3>11. x \in [Sessions -> ConnectionSet] /\ x[s] = e /\ \A t \in Sessions \ {s} : x[t] = c[t]
      BY <1>2, <3>5, <3>10 DEF Routed
    <3>12. Routed(x)
      BY <1>2, <2>3, <3>6, <3>7, <3>11 DEF Routed
    <3>13. \A t \in Sessions : x[t].account = c[t].account
      BY <2>3, <3>6, <3>11
    <3>14. \A r \in OrderReport : Held(x[s], r) <=> Held(c[s], r) \/ r = w
      BY <2>3, <3>8, <3>11
    <3>15. \A t \in Sessions \ {s} : \A r \in OrderReport : Held(x[t], r) <=> Held(c[t], r)
      BY <3>11
    <3>16. w.account = c[s].account
      BY <1>4, <2>3
    <3>17. Filed(n + 1, x, p, d)
      BY <1>2, <1>4, <3>13, <3>14, <3>15, <3>16, FiledDelivered
    <3> QED
      BY <1>5, <2>2, <3>1, <3>2, <3>9, <3>12, <3>17
  <2> QED
    BY <2>4, <2>5
<1> QED
  BY <1>7, <1>8

\* The map of owners, and what it may become.
Owners(f) ==
    /\ f \in [DOMAIN f -> Sessions] /\ DOMAIN f \subseteq OrderKey
    /\ \A k \in DOMAIN f : Known(conn[f[k]], k[1])

LEMMA FewerOwners ==
    ASSUME NEW f, Owners(f), NEW ks
    PROVE  Owners(Without(f, ks))
<1>1. \A k \in DOMAIN f : f[k] \in Sessions /\ k \in OrderKey
  BY DEF Owners
<1>2. /\ DOMAIN Without(f, ks) = DOMAIN f \ ks
      /\ \A k \in DOMAIN f \ ks : Without(f, ks)[k] = f[k]
      /\ Without(f, ks) \in [DOMAIN f \ ks -> Sessions]
  BY <1>1, WithoutFacts
<1> QED
  BY <1>1, <1>2 DEF Owners

LEMMA OneMoreOwner ==
    ASSUME NEW f, Owners(f), NEW k \in OrderKey, NEW s \in Sessions, Known(conn[s], k[1])
    PROVE  Owners(With(f, k, s))
<1>1. PICK g : g = With(f, k, s)
  OBVIOUS
<1>2. g = [j \in DOMAIN f \union {k} |-> IF j = k THEN s ELSE f[j]]
  BY <1>1 DEF With
<1>3. DOMAIN g = DOMAIN f \union {k} /\ \A j \in DOMAIN g : g[j] = IF j = k THEN s ELSE f[j]
  BY <1>2
<1>4. \A j \in DOMAIN f : f[j] \in Sessions /\ j \in OrderKey /\ Known(conn[f[j]], j[1])
  BY DEF Owners
<1>5. g \in [DOMAIN g -> Sessions]
  BY <1>2, <1>3, <1>4
<1>6. DOMAIN g \subseteq OrderKey /\ \A j \in DOMAIN g : Known(conn[g[j]], j[1])
  BY <1>3, <1>4
<1> QED
  BY <1>1, <1>5, <1>6 DEF Owners

LEMMA EventFacts ==
    ASSUME NEW e \in EventSet
    PROVE  /\ e.keys \in Seq(OrderKey) /\ Len(e.keys) \in {1, 2} /\ Head(e.keys) = e.keys[1]
           /\ e.keys[1] \in OrderKey /\ (Len(e.keys) # 1 => e.keys[2] \in OrderKey)
           /\ e.type = "OrderReplaced" => e.to \in OrderKey /\ e.to[1] = e.keys[1][1]
<1>1. e.keys \in Seq(OrderKey) /\ Len(e.keys) \in {1, 2}
  BY DEF EventSet
<1>2. PICK q \in Seq(OrderKey) : q = e.keys /\ Len(q) \in {1, 2}
  BY <1>1
<1>3. Head(q) = q[1] /\ q[1] \in OrderKey /\ (Len(q) # 1 => q[2] \in OrderKey)
  BY <1>2
<1>4. e.type = "OrderReplaced" => e.to \in OrderKey /\ e.to[1] = e.keys[1][1]
  BY DEF EventSet
<1> QED
  BY <1>1, <1>2, <1>3, <1>4

LEMMA OwnersKept ==
    ASSUME SessionInv, NEW e \in EventSet
    PROVE  Owners(update_order_ownership(e))
<1>1. Owners(order_owner)
  BY DEF Owners, SessionInv, SessionTyping, Registered
<1>2. CASE e.type = "OrderReplaced"
  <2>1. PICK k \in OrderKey : k = Head(e.keys) /\ e.to \in OrderKey /\ e.to[1] = k[1]
    BY <1>2, EventFacts
  <2>2. CASE k \in DOMAIN order_owner
    <3>1. PICK s \in Sessions : s = order_owner[k] /\ Known(conn[s], k[1])
      BY <2>2, Named
    <3>2. update_order_ownership(e) = Without(With(order_owner, e.to, s), {k})
      BY <1>2, <2>1, <2>2, <3>1 DEF update_order_ownership
    <3>3. PICK to \in OrderKey : to = e.to /\ to[1] = k[1]
      BY <2>1
    <3>4. Owners(With(order_owner, to, s))
      BY <1>1, <3>1, <3>3, OneMoreOwner
    <3> QED
      BY <3>2, <3>3, <3>4, FewerOwners
  <2>3. CASE k \notin DOMAIN order_owner
    <3>1. update_order_ownership(e) = order_owner
      BY <1>2, <2>1, <2>3 DEF update_order_ownership
    <3> QED
      BY <1>1, <3>1
  <2> QED
    BY <2>2, <2>3
<1>3. CASE e.type # "OrderReplaced"
  <2>1. \/ update_order_ownership(e) = order_owner
        \/ \E ks : update_order_ownership(e) = Without(order_owner, ks)
    BY <1>3 DEF update_order_ownership
  <2> QED
    BY <1>1, <2>1, FewerOwners
<1> QED
  BY <1>2, <1>3

\* One event is routed.
LEMMA Routes ==
    ASSUME SessionInv, Conserved, EngineInv, route_event
    PROVE  SessionInv' /\ Conserved'
<1>1. PICK e \in EventSet : e = Head(events)
  BY DEF EngineInv, route_event
<1>2. PICK z : z = [n |-> reports, conn |-> conn, pending |-> pending_reports, dropped |-> dropped]
  OBVIOUS
<1>3. z.n = reports /\ z.conn = conn /\ z.pending = pending_reports /\ z.dropped = dropped
  BY <1>2
<1>4. Filed(z.n, z.conn, z.pending, z.dropped) /\ Routed(z.conn)
  BY <1>3 DEF Conserved, Routed, SessionInv, SessionTyping
<1>5. PICK first : first = Place(z, e.keys[1])
  OBVIOUS
<1>6. Filed(first.n, first.conn, first.pending, first.dropped) /\ Routed(first.conn)
  <2>1. e.keys[1] \in OrderKey
    BY EventFacts
  <2> QED
    BY <1>4, <1>5, <2>1, Placed
<1>7. PICK routed : routed = IF Len(e.keys) = 1 THEN first ELSE Place(first, e.keys[2])
  OBVIOUS
<1>8. Filed(routed.n, routed.conn, routed.pending, routed.dropped) /\ Routed(routed.conn)
  <2>1. CASE Len(e.keys) = 1
    BY <1>6, <1>7, <2>1
  <2>2. CASE Len(e.keys) # 1
    <3>1. e.keys[2] \in OrderKey
      BY <2>2, EventFacts
    <3> QED
      BY <1>6, <1>7, <2>2, <3>1, Placed
  <2> QED
    BY <2>1, <2>2
<1>9. /\ reports' = routed.n /\ conn' = routed.conn /\ pending_reports' = routed.pending
      /\ dropped' = routed.dropped /\ order_owner' = update_order_ownership(e)
      /\ account_sessions' = account_sessions
  BY <1>1, <1>2, <1>5, <1>7 DEF route_event
<1>10. Conserved'
  BY <1>8, <1>9 DEF Conserved
<1>11. /\ conn' \in [Sessions -> ConnectionSet]
       /\ \A t \in Sessions : /\ Coherent(conn'[t])
                              /\ conn'[t].account = conn[t].account
                              /\ conn'[t].reader = conn[t].reader
  BY <1>8, <1>9 DEF Routed
<1>12. \A t \in Sessions : \A a : Known(conn[t], a) => Known(conn'[t], a)
  BY <1>11 DEF Known
<1>13. /\ order_owner' \in [DOMAIN order_owner' -> Sessions] /\ DOMAIN order_owner' \subseteq OrderKey
       /\ \A k \in DOMAIN order_owner' : Known(conn'[order_owner'[k]], k[1])
  <2>1. PICK f : f = update_order_ownership(e)
    OBVIOUS
  <2>2. /\ f \in [DOMAIN f -> Sessions] /\ DOMAIN f \subseteq OrderKey
        /\ \A k \in DOMAIN f : Known(conn[f[k]], k[1])
    BY <2>1, OwnersKept DEF Owners
  <2>3. \A k \in DOMAIN f : f[k] \in Sessions
    BY <2>2
  <2>4. \A k \in DOMAIN f : Known(conn'[f[k]], k[1])
    BY <1>12, <2>2, <2>3
  <2> QED
    BY <1>9, <2>1, <2>2, <2>4
<1>14. SessionTyping'
  BY <1>9, <1>11, <1>13 DEF SessionInv, SessionTyping
<1>15. Registered'
  BY <1>9, <1>12, <1>13, ListsKept DEF Registered
<1> QED
  BY <1>10, <1>11, <1>14, <1>15 DEF SessionInv

-----------------------------------------------------------------------------
\* The command in hand is one that was submitted.
LEMMA CommandFacts ==
    ASSUME PipelineInv, EngineInv, m_pc = "process"
    PROVE  Command \in Request
<1>1. m_command \in Sequenced /\ Pipeline!InHand = <<m_command>>
  BY HandFacts DEF PipelineInv
<1>2. processed \in Seq(Sequenced) /\ queue \in Seq(Sequenced) /\ submits \in Nat
  BY DEF PipelineInv, PipelineTyping
<1>3. PICK x \in Sequenced, p \in Seq(Sequenced), q \in Seq(Sequenced) :
         x = m_command /\ p = processed /\ q = queue
  BY <1>1, <1>2
<1>4. All = (p \o <<x>>) \o q
  BY <1>1, <1>3 DEF All
<1>5. Len(p) + 1 \in 1 .. Len((p \o <<x>>) \o q) /\ ((p \o <<x>>) \o q)[Len(p) + 1] = x
  <2>1. p \o <<x>> = Append(p, x) /\ Append(p, x) \in Seq(Sequenced)
    OBVIOUS
  <2>2. PICK u \in Seq(Sequenced) : u = Append(p, x)
    BY <2>1
  <2>3. Len(u) = Len(p) + 1 /\ u[Len(p) + 1] = x
    BY <2>2
  <2>4. Len(u \o q) = Len(u) + Len(q) /\ \A i \in 1 .. Len(u) : (u \o q)[i] = u[i]
    OBVIOUS
  <2>5. Len(p) \in Nat /\ Len(q) \in Nat
    OBVIOUS
  <2> QED
    BY <2>1, <2>2, <2>3, <2>4, <2>5
<1>6. x.request \in 1 .. submits
  BY <1>4, <1>5 DEF PipelineInv, Numbered
<1> QED
  BY <1>3, <1>6 DEF EngineInv, Command

\* What the engine does to an order of the accounts gives events about such orders.
LEMMA MatchingFacts ==
    ASSUME NEW first \in EventSet, NEW key \in OrderKey, NEW others \in SUBSET OrderKey,
           NEW restsOrNot \in SUBSET BOOLEAN, Matching(first, key, others, restsOrNot)
    PROVE  events' \in Seq(EventSet) /\ live' \subseteq OrderKey
<1>1. PICK rests \in restsOrNot :
         LET left(filled) == (others \union (IF rests THEN {key} ELSE {})) \ filled
         IN  \/ events' = <<first>> /\ live' = left({})
             \/ \E contra \in others : \E filled \in {{key}, {contra}, {key, contra}} :
                   /\ \E keys \in {<<key, contra>>, <<contra, key>>} :
                         events' = <<first, [type |-> "TradeExecuted", keys |-> keys,
                                             filled |-> filled]>>
                   /\ live' = left(filled)
  BY DEF Matching
<1>2. CASE events' = <<first>> /\ live' = (others \union (IF rests THEN {key} ELSE {})) \ {}
  BY <1>2
<1>3. ASSUME NEW contra \in others, NEW filled \in {{key}, {contra}, {key, contra}},
             NEW keys \in {<<key, contra>>, <<contra, key>>},
             events' = <<first, [type |-> "TradeExecuted", keys |-> keys, filled |-> filled]>>,
             live' = (others \union (IF rests THEN {key} ELSE {})) \ filled
      PROVE  events' \in Seq(EventSet) /\ live' \subseteq OrderKey
  <2>1. contra \in OrderKey /\ filled \in SUBSET OrderKey
    OBVIOUS
  <2>2. keys \in Seq(OrderKey) /\ Len(keys) = 2
    BY <2>1
  <2>3. PICK t : t = [type |-> "TradeExecuted", keys |-> keys, filled |-> filled]
    OBVIOUS
  <2>4. t \in EventSet
    BY <2>1, <2>2, <2>3 DEF EventSet
  <2>5. <<first, t>> \in Seq(EventSet)
    BY <2>4
  <2> QED
    BY <1>3, <2>1, <2>3, <2>5
<1> QED
  BY <1>1, <1>2, <1>3

LEMMA Processes ==
    ASSUME PipelineInv, EngineInv, m_pc = "process", ProcessEvents
    PROVE  events' \in Seq(EventSet) /\ live' \subseteq OrderKey
<1>1. PICK c \in Request : c = Command
  BY CommandFacts
<1>2. PICK a \in Accounts, id \in Nat : a = c.account /\ id = c.id
  BY RequestFacts
<1>3. PICK key \in OrderKey : key = Key(c) /\ key[1] = a
  <2>1. <<a, id>> \in OrderKey /\ <<a, id>>[1] = a
    BY DEF OrderKey
  <2> QED
    BY <1>2, <2>1 DEF Key
<1>4. live \subseteq OrderKey
  BY DEF EngineInv
<1>5. ASSUME NEW type \in {"OrderAccepted", "OrderRejected", "OrderCancelled"}
      PROVE  Event(type, key) \in EventSet /\ <<Event(type, key)>> \in Seq(EventSet)
  <2>1. <<key>> \in Seq(OrderKey) /\ Len(<<key>>) = 1
    OBVIOUS
  <2>2. PICK t : t = [type |-> type, keys |-> <<key>>]
    OBVIOUS
  <2>3. t \in EventSet
    BY <2>1, <2>2 DEF EventSet
  <2> QED
    BY <2>2, <2>3 DEF Event
<1>6. \/ events' = <<Event("OrderRejected", key)>> /\ live' = live
      \/ Matching(Event("OrderAccepted", key), key, live, BOOLEAN)
      \/ /\ c.type = "ReplaceOrder"
         /\ Matching([type |-> "OrderReplaced", keys |-> <<key>>, to |-> <<c.account, c.new_id>>],
                     <<c.account, c.new_id>>, live \ {key}, {TRUE})
      \/ events' = <<Event("OrderCancelled", key)>> /\ live' = live \ {key}
  BY <1>1, <1>3 DEF ProcessEvents
<1>7. CASE Matching(Event("OrderAccepted", key), key, live, BOOLEAN)
  <2>1. PICK first \in EventSet : first = Event("OrderAccepted", key)
    BY <1>5
  <2>2. Matching(first, key, live, BOOLEAN)
    BY <1>7, <2>1
  <2> QED
    BY <1>4, <2>2, MatchingFacts
<1>8. CASE /\ c.type = "ReplaceOrder"
           /\ Matching([type |-> "OrderReplaced", keys |-> <<key>>, to |-> <<c.account, c.new_id>>],
                       <<c.account, c.new_id>>, live \ {key}, {TRUE})
  <2>1. PICK to \in OrderKey : to = <<c.account, c.new_id>> /\ to[1] = a
    <3>1. PICK new \in Nat : new = c.new_id
      BY <1>8, RequestFacts
    <3>2. <<a, new>> \in OrderKey /\ <<a, new>>[1] = a
      BY DEF OrderKey
    <3> QED
      BY <1>2, <3>1, <3>2
  <2>2. PICK first : first = [type |-> "OrderReplaced", keys |-> <<key>>, to |-> to]
    OBVIOUS
  <2>3. <<key>> \in Seq(OrderKey) /\ Len(<<key>>) = 1 /\ <<key>>[1] = key
    OBVIOUS
  <2>4. first \in EventSet
    BY <1>3, <2>1, <2>2, <2>3 DEF EventSet
  <2>5. Matching(first, to, live \ {key}, {TRUE})
    BY <1>8, <2>1, <2>2
  <2>6. live \ {key} \in SUBSET OrderKey /\ {TRUE} \in SUBSET BOOLEAN
    BY <1>4
  <2> QED
    BY <2>4, <2>5, <2>6, MatchingFacts
<1> QED
  BY <1>4, <1>5, <1>6, <1>7, <1>8

-----------------------------------------------------------------------------
(***************************************************************************)
(* The steps together.                                                     *)
(***************************************************************************)
LEMMA EngineSteps ==
    ASSUME GatewayInv, [Next]_vars
    PROVE  EngineInv'
<1> USE DEF GatewayInv
<1>1. CASE UNCHANGED <<submitted, submits, live, events>>
  BY <1>1 DEF EngineInv
<1>2. ASSUME NEW s \in Sessions, SubmitBegin(s) PROVE EngineInv'
  <2>1. conn[s].request \in Request
    <3>1. conn[s].reader = "submit" /\ Coherent(conn[s])
      BY <1>2 DEF SubmitBegin, SessionInv
    <3> QED
      BY <3>1 DEF Coherent
  <2>2. submitted' = Append(submitted, conn[s].request) /\ submits' = submits + 1
        /\ UNCHANGED <<live, events>>
    BY <1>2 DEF SubmitBegin, Pipeline!SubmitCheck, engineVars
  <2>3. PICK r \in Request, q \in Seq(Request) : r = conn[s].request /\ q = submitted
    BY <2>1 DEF EngineInv
  <2>4. Append(q, r) \in Seq(Request) /\ Len(Append(q, r)) = Len(q) + 1
    OBVIOUS
  <2>5. submitted' \in Seq(Request) /\ Len(submitted') = submits'
    BY <2>2, <2>3, <2>4 DEF EngineInv
  <2> QED
    BY <2>2, <2>5 DEF EngineInv
<1>3. ASSUME NEW s \in Sessions, SubmitEnd(s) PROVE UNCHANGED <<submitted, submits, live, events>>
  BY <1>3 DEF SubmitEnd, Pipeline!SubmitPush, engineVars
<1>4. CASE MatchingProcesses
  <2>1. m_pc = "process" /\ ProcessEvents /\ UNCHANGED <<submitted, submits>>
    BY <1>4 DEF MatchingProcesses, Pipeline!Process, Pipeline!producerVars, submitVars
  <2>2. events' \in Seq(EventSet) /\ live' \subseteq OrderKey
    BY <2>1, Processes
  <2> QED
    BY <2>1, <2>2 DEF EngineInv
<1>5. CASE route_event
  <2>1. events' = Tail(events) /\ events # << >> /\ UNCHANGED <<submitted, submits, live>>
    BY <1>5 DEF route_event, submitVars, pipelineVars
  <2>2. PICK q \in Seq(EventSet) : q = events /\ q # << >>
    BY <2>1 DEF EngineInv
  <2>3. Tail(q) \in Seq(EventSet)
    BY <2>2
  <2> QED
    BY <2>1, <2>2, <2>3 DEF EngineInv
<1>6. CASE MatchingTakes \/ MatchingIdles \/ StopStep \/ StopRequested \/ accept_loop
  <2>1. UNCHANGED <<submitted, submits, live, events>>
    BY <1>6 DEF MatchingTakes, MatchingIdles, Pipeline!TryPop, Pipeline!CheckStop,
         Pipeline!producerVars, StopStep, ShutSockets, JoinConnections, PipelineStopped,
         Pipeline!RequestStop, Pipeline!Join, StopRequested, accept_loop, submitVars, engineVars,
         pipelineVars
  <2> QED
    BY <1>1, <2>1
<1>7. ASSUME NEW s \in Sessions,
             \/ ReadRequest(s) \/ ReadNoRequest(s) \/ HangUp(s) \/ WriterWrites(s)
             \/ claim_order_ownership(s) \/ ReaderCloses(s) \/ unbind_session(s) \/ WriterStep(s)
      PROVE  EngineInv'
  <2>1. UNCHANGED <<submitted, submits, live, events>>
    BY <1>7 DEF ReadRequest, ReadNoRequest, HangUp, WriterWrites, claim_order_ownership,
         ReaderCloses, unbind_session, WriterStep, WriterTop, WriterQueues, WriterFails,
         submitVars, engineVars, pipelineVars
  <2> QED
    BY <1>1, <2>1
<1>8. CASE UNCHANGED vars
  BY <1>1, <1>8 DEF vars, submitVars, engineVars, pipelineVars
<1> QED
  BY <1>1, <1>2, <1>3, <1>4, <1>5, <1>6, <1>7, <1>8 DEF Next, Client, MatchingStep, ReaderStep

LEMMA SessionSteps ==
    ASSUME GatewayInv, [Next]_vars
    PROVE  SessionInv' /\ Conserved'
<1> USE DEF GatewayInv
<1>1. CASE UNCHANGED <<conn, account_sessions, order_owner, pending_reports, reports, dropped>>
  BY <1>1 DEF SessionInv, SessionTyping, Registered, Conserved
<1>2. CASE Client \/ accept_loop
  BY <1>2, Accepts, ReadsRequest, ReadsOther, ClientLeaves, Writes DEF Client
<1>3. ASSUME NEW s \in Sessions, ReaderStep(s) \/ WriterStep(s) PROVE SessionInv' /\ Conserved'
  BY <1>3, Claims, Submits, Closes, Unbinds, LooksAtBacklog, LooksAtQueues, Writes
     DEF ReaderStep, WriterStep
<1>4. CASE route_event \/ ShutSockets
  BY <1>4, Routes, Shuts
<1>5. CASE \/ MatchingTakes \/ MatchingProcesses \/ MatchingIdles
           \/ JoinConnections \/ PipelineStopped \/ StopRequested
  <2>1. UNCHANGED <<conn, account_sessions, order_owner, pending_reports, reports, dropped>>
    BY <1>5 DEF MatchingTakes, MatchingProcesses, MatchingIdles, JoinConnections,
         PipelineStopped, StopRequested, routing, engineVars
  <2> QED
    BY <1>1, <2>1
<1>6. CASE UNCHANGED vars
  BY <1>1, <1>6 DEF vars, engineVars, routing
<1> QED
  BY <1>2, <1>3, <1>4, <1>5, <1>6 DEF Next, MatchingStep, StopStep

LEMMA GatewayStarts == Init => GatewayInv
<1> SUFFICES ASSUME Init PROVE GatewayInv
  OBVIOUS
<1>1. PipelineInv /\ submits = 0
  BY PipelineInit DEF Init, Pipeline!Init
<1>2. EngineInv
  <2>1. << >> \in Seq(Request) /\ << >> \in Seq(EventSet) /\ Len(<< >>) = 0
    OBVIOUS
  <2> QED
    BY <1>1, <2>1 DEF Init, EngineInv
<1>3. Connection \in ConnectionSet
  <2>1. << >> \in Seq(OrderReport) /\ << >> \in Seq(OwnAnswer) /\ << >> \in Seq(Message)
    OBVIOUS
  <2> QED
    BY <2>1 DEF Connection, ConnectionSet
<1>4. /\ Connection.reader = "none" /\ Connection.writer = "none" /\ Connection.message = None
      /\ Connection.account = None /\ Connection.replay_backlog = << >>
      /\ Connection.written = << >> /\ Connection.outbound = << >>
  BY DEF Connection
<1>5. Coherent(Connection)
  BY <1>4 DEF Coherent
<1>6. conn \in [Sessions -> ConnectionSet] /\ \A s \in Sessions : conn[s] = Connection
  BY <1>3 DEF Init
<1>7. /\ account_sessions \in [Accounts -> Seq(Sessions)]
      /\ \A a \in Accounts : account_sessions[a] = << >>
  <2>1. << >> \in Seq(Sessions)
    OBVIOUS
  <2> QED
    BY <2>1 DEF Init
<1>8. DOMAIN order_owner = {} /\ order_owner \in [DOMAIN order_owner -> Sessions]
  BY DEF Init
<1>9. SessionTyping
  BY <1>6, <1>7, <1>8 DEF SessionTyping
<1>10. Registered
  <2>1. \A a \in Accounts : 1 .. Len(account_sessions[a]) = {}
    BY <1>7
  <2> QED
    BY <1>8, <2>1 DEF Registered
<1>11. SessionInv
  BY <1>5, <1>6, <1>9, <1>10 DEF SessionInv
<1>12. /\ pending_reports \in [Accounts -> Seq(OrderReport)]
       /\ \A a \in Accounts : pending_reports[a] = << >>
       /\ reports = 0 /\ dropped = {}
  <2>1. << >> \in Seq(OrderReport)
    OBVIOUS
  <2> QED
    BY <2>1 DEF Init
<1>13. \A s \in Sessions : \A r \in OrderReport : ~Held(conn[s], r)
  <2>1. \A r \in OrderReport : r # None
    BY GatewayAssumption DEF OrderReport
  <2> QED
    BY <1>4, <1>6, <2>1, InEmpty DEF Held
<1>14. \A a \in Accounts : \A r \in OrderReport : ~In(pending_reports[a], r)
  BY <1>12, InEmpty
<1>15. \A a \in Accounts : Once(pending_reports[a])
  <2>1. Once(<< >>)
    BY DEF Once
  <2> QED
    BY <1>12, <2>1
<1>16. 0 \in Nat /\ {} \subseteq 1 .. 0 /\ 1 .. 0 = {}
  OBVIOUS
<1>17. Filed(0, conn, pending_reports, {})
  BY <1>12, <1>13, <1>14, <1>15, <1>16 DEF Filed
<1>18. Conserved
  BY <1>12, <1>17 DEF Conserved
<1> QED
  BY <1>1, <1>2, <1>11, <1>18 DEF GatewayInv

\* The inductive invariant: the maps name only sessions that are there and are the
\* account's, and each report has its place.
THEOREM GatewayInvariance == Spec => []GatewayInv
<1>1. Init => GatewayInv
  BY GatewayStarts
<1>2. GatewayInv /\ [Next]_vars => GatewayInv'
  <2> SUFFICES ASSUME GatewayInv, [Next]_vars PROVE GatewayInv'
    OBVIOUS
  <2>1. PipelineInv'
    BY PipelineSteps DEF GatewayInv
  <2>2. EngineInv'
    BY EngineSteps
  <2>3. SessionInv' /\ Conserved'
    BY SessionSteps
  <2> QED
    BY <2>1, <2>2, <2>3 DEF GatewayInv
<1> QED
  BY <1>1, <1>2, PTL DEF Spec

-----------------------------------------------------------------------------
(***************************************************************************)
(* What follows.                                                           *)
(***************************************************************************)
LEMMA InRange ==
    ASSUME NEW S, NEW q \in Seq(S), NEW r
    PROVE  r \in Range(q) <=> In(q, r)
<1>1. DOMAIN q = 1 .. Len(q)
  OBVIOUS
<1> QED
  BY <1>1 DEF Range, In

LEMMA HoldsIsHeld ==
    ASSUME SessionInv, NEW s \in Sessions
    PROVE  /\ \A r \in OrderReport : r \in Holds(s) <=> Held(conn[s], r)
           /\ \A r \in Holds(s) : r.n > 0 => r \in OrderReport
<1>1. PICK c \in ConnectionSet : c = conn[s]
  BY DEF SessionInv, SessionTyping
<1>2. PICK w \in Seq(Message), b \in Seq(OrderReport), o \in Seq(OrderReport) :
         w = c.written /\ b = c.replay_backlog /\ o = c.outbound
  BY DEF ConnectionSet
<1>3. \A r : /\ r \in Range(w) <=> In(w, r)
             /\ r \in Range(b) <=> In(b, r)
             /\ r \in Range(o) <=> In(o, r)
  BY InRange
<1>4. \A r : r \in Holds(s) <=> \/ r \in Range(w) \/ r \in Range(b) \/ r \in Range(o)
                                \/ c.message # None /\ r = c.message
  BY <1>1, <1>2 DEF Holds
<1>5. \A r \in OrderReport : r # None
  BY GatewayAssumption DEF OrderReport
<1>6. \A r \in OrderReport : r \in Holds(s) <=> Held(conn[s], r)
  BY <1>1, <1>2, <1>3, <1>4, <1>5 DEF Held
<1>7. ASSUME NEW r \in Holds(s) PROVE r \in Message
  <2>1. \A x : /\ In(w, x) => x \in Message
               /\ In(b, x) => x \in OrderReport
               /\ In(o, x) => x \in OrderReport
    BY DEF In
  <2>2. c.message \in Message \union {None}
    BY DEF ConnectionSet
  <2> QED
    BY <1>3, <1>4, <2>1, <2>2 DEF Message
<1>8. \A r \in Message : r.n > 0 => r \in OrderReport
  BY DEF Message, OrderReport, OwnAnswer
<1> QED
  BY <1>6, <1>7, <1>8

\* For any number of connections and accounts, a report reaches, or waits for, only a
\* session bound to the account it is about.
THEOREM NoForeignReport == Spec => []OnlyOwnAccount
<1>1. GatewayInv => OnlyOwnAccount
  <2> SUFFICES ASSUME GatewayInv, NEW s \in Sessions, NEW r \in Holds(s), r.n > 0
               PROVE  r.account = conn[s].account
    BY DEF OnlyOwnAccount
  <2>1. r \in OrderReport /\ Held(conn[s], r)
    BY HoldsIsHeld DEF GatewayInv
  <2> QED
    BY <2>1 DEF GatewayInv, Conserved, Filed
<1> QED
  BY <1>1, GatewayInvariance, PTL

\* Neither map names a session whose reader has left.
THEOREM NoStaleSession == Spec => []GoneIsUnknown
<1>1. GatewayInv => GoneIsUnknown
  <2> SUFFICES ASSUME GatewayInv, NEW s \in Sessions, conn[s].reader = "done"
               PROVE  /\ \A a \in Accounts : s \notin Range(account_sessions[a])
                      /\ s \notin Range(order_owner)
    BY DEF GoneIsUnknown
  <2>1. \A a : ~Known(conn[s], a)
    BY DEF Known
  <2>2. \A a \in Accounts : \A i \in 1 .. Len(account_sessions[a]) : account_sessions[a][i] # s
    BY <2>1, Named DEF GatewayInv
  <2>3. ASSUME NEW a \in Accounts PROVE s \notin Range(account_sessions[a])
    <3>1. PICK q \in Seq(Sessions) : q = account_sessions[a]
      BY DEF GatewayInv, SessionInv, SessionTyping
    <3>2. ~In(q, s)
      BY <2>2, <3>1 DEF In
    <3> QED
      BY <3>1, <3>2, InRange
  <2>4. s \notin Range(order_owner)
    BY <2>1, Named DEF GatewayInv, Range
  <2> QED
    BY <2>3, <2>4
<1> QED
  BY <1>1, GatewayInvariance, PTL

LEMMA OneOrNone ==
    ASSUME NEW S, \A x, y \in S : x = y
    PROVE  Cardinality(S) = IF S = {} THEN 0 ELSE 1
<1>1. CASE S = {}
  BY <1>1, FS_EmptySet
<1>2. CASE S # {}
  <2>1. PICK x \in S : S = {x}
    BY <1>2
  <2> QED
    BY <1>2, <2>1, FS_Singleton
<1> QED
  BY <1>1, <1>2

\* Whatever binds, leaves or fills up while the matching thread routes, no report is
\* lost and none is doubled.
THEOREM EveryReportOnce == Spec => []ReportsConserved
<1>1. GatewayInv => ReportsConserved
  <2> SUFFICES ASSUME GatewayInv, NEW n \in 1 .. reports PROVE Places(n) = 1
    BY DEF ReportsConserved
  <2>1. Filed(reports, conn, pending_reports, dropped) /\ SessionInv
    BY DEF GatewayInv, Conserved
  <2>2. PICK A : A = {a \in Accounts : \E r \in Range(pending_reports[a]) : r.n = n}
    OBVIOUS
  <2>3. PICK H : H = {s \in Sessions : \E r \in Holds(s) : r.n = n}
    OBVIOUS
  <2>4. \A a \in Accounts : a \in A <=> \E r \in OrderReport : r.n = n /\ In(pending_reports[a], r)
    <3> TAKE a \in Accounts
    <3>1. PICK q \in Seq(OrderReport) : q = pending_reports[a]
      BY <2>1 DEF Filed
    <3>2. \A r : (r \in Range(q) <=> In(q, r)) /\ (In(q, r) => r \in OrderReport)
      BY InRange DEF In
    <3> QED
      BY <2>2, <3>1, <3>2
  <2>5. \A s \in Sessions : s \in H <=> \E r \in OrderReport : r.n = n /\ Held(conn[s], r)
    <3> TAKE s \in Sessions
    <3>1. n > 0
      BY <2>1 DEF Filed
    <3>2. /\ \A r \in OrderReport : r \in Holds(s) <=> Held(conn[s], r)
          /\ \A r \in Holds(s) : r.n > 0 => r \in OrderReport
      BY <2>1, HoldsIsHeld
    <3> QED
      BY <2>3, <3>1, <3>2
  <2>6. A \subseteq Accounts /\ H \subseteq Sessions
    BY <2>2, <2>3
  <2>7. \A a, b \in A : a = b
    BY <2>1, <2>4, <2>6 DEF Filed
  <2>8. \A s, t \in H : s = t
    BY <2>1, <2>5, <2>6 DEF Filed
  <2>9. n \in dropped \/ A # {} \/ H # {}
    <3>1. \/ n \in dropped
          \/ \E a \in Accounts, r \in OrderReport : r.n = n /\ In(pending_reports[a], r)
          \/ \E s \in Sessions, r \in OrderReport : r.n = n /\ Held(conn[s], r)
      BY <2>1 DEF Filed
    <3> QED
      BY <2>4, <2>5, <3>1
  <2>10. n \in dropped => A = {} /\ H = {}
    BY <2>1, <2>4, <2>5, <2>6 DEF Filed
  <2>11. A = {} \/ H = {}
    BY <2>1, <2>4, <2>5, <2>6 DEF Filed
  <2>12. /\ Cardinality(A) = IF A = {} THEN 0 ELSE 1
         /\ Cardinality(H) = IF H = {} THEN 0 ELSE 1
    BY <2>7, <2>8, OneOrNone
  <2>13. Places(n) = (IF n \in dropped THEN 1 ELSE 0) + Cardinality(A) + Cardinality(H)
    BY <2>2, <2>3 DEF Places
  <2> QED
    BY <2>9, <2>10, <2>11, <2>12, <2>13
<1> QED
  BY <1>1, GatewayInvariance, PTL
=============================================================================
