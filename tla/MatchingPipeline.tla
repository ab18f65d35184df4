-------------------------- MODULE MatchingPipeline --------------------------
(***************************************************************************)
(* mdh::exchange::sequencing::MatchingPipeline and CommandSequencer: the   *)
(* producer numbers commands and queues them, the matching thread takes    *)
(* them off and runs the engine, and stop() drains and joins that thread.  *)
(*                                                                         *)
(* The queue is the channel of BoundedFifo, which SpscQueue implements.    *)
(* A command is [request, command_sequence]: the submit() call it came     *)
(* from, and the number the sequencer gave it.  The processor (the risk    *)
(* gated engine) is the one step Process.                                  *)
(***************************************************************************)
EXTENDS Integers, Sequences

CONSTANTS Capacity,    \* queue_.capacity()
          MaxSubmits,  \* bound: submit() calls
          None

VARIABLES queue,
          next_sequence,
          submits,            \* submit() calls so far
          p_pc,               \* submit(): "ready", or "push" past the size check
          commands_rejected,
          m_pc, m_command,    \* the matching thread's loop and the command it holds
          processed,          \* commands handed to the processor, in order
          stop_requested,
          s_pc                \* stop(): "ready", "join" or "returned"

producerVars == <<next_sequence, submits, p_pc, commands_rejected>>
matcherVars  == <<m_pc, m_command, processed>>
stopVars     == <<stop_requested, s_pc>>
vars == <<queue, producerVars, matcherVars, stopVars>>

Command == [request : Nat, command_sequence : Nat]

Channel == INSTANCE BoundedFifo WITH items <- queue, Values <- Command

Init ==
    /\ Channel!Init
    /\ next_sequence = 1
    /\ submits = 0
    /\ p_pc = "ready"
    /\ commands_rejected = 0
    /\ m_pc = "pop" /\ m_command = None
    /\ processed = << >>
    /\ stop_requested = FALSE
    /\ s_pc = "ready"

-----------------------------------------------------------------------------
(***************************************************************************)
(* submit(), on the producer's thread.  The occupancy is looked at first   *)
(* and the number assigned only afterwards; the matching thread runs on in *)
(* between.                                                                *)
(***************************************************************************)
\* Mutant of SubmitCheck: the number is taken before the queue is looked at.
SubmitCheckAfterSequencing ==
    /\ p_pc = "ready"
    /\ submits < MaxSubmits
    /\ submits' = submits + 1
    /\ IF Len(queue) >= Capacity
         THEN /\ commands_rejected' = commands_rejected + 1
              /\ next_sequence' = next_sequence + 1
              /\ UNCHANGED p_pc
         ELSE /\ p_pc' = "push"
              /\ UNCHANGED <<commands_rejected, next_sequence>>
    /\ UNCHANGED <<queue, matcherVars, stopVars>>

SubmitCheck ==
    /\ p_pc = "ready"
    /\ submits < MaxSubmits
    /\ submits' = submits + 1
    /\ IF Len(queue) >= Capacity
         THEN /\ commands_rejected' = commands_rejected + 1
              /\ UNCHANGED p_pc
         ELSE /\ p_pc' = "push"
              /\ UNCHANGED commands_rejected
    /\ UNCHANGED <<queue, next_sequence, matcherVars, stopVars>>

sequence(request) == [request |-> request, command_sequence |-> next_sequence]

SubmitPush ==
    /\ p_pc = "push"
    /\ next_sequence' = next_sequence + 1
    /\ IF Len(queue) < Capacity
         THEN /\ Channel!Push(sequence(submits))
              /\ UNCHANGED commands_rejected
         ELSE /\ commands_rejected' = commands_rejected + 1
              /\ UNCHANGED queue
    /\ p_pc' = "ready"
    /\ UNCHANGED <<submits, matcherVars, stopVars>>

submit == SubmitCheck \/ SubmitPush

-----------------------------------------------------------------------------
(***************************************************************************)
(* The matching thread.                                                    *)
(***************************************************************************)
TryPop ==
    /\ m_pc = "pop"
    /\ IF queue = << >>
         THEN m_pc' = "check" /\ UNCHANGED <<queue, m_command>>
         ELSE /\ Channel!Pop
              /\ m_command' = Head(queue)
              /\ m_pc' = "process"
    /\ UNCHANGED <<processed, producerVars, stopVars>>

\* Reached when try_pop() found nothing: leave if stop was requested, else yield.
CheckStop ==
    /\ m_pc = "check"
    /\ m_pc' = IF stop_requested THEN "done" ELSE "pop"
    /\ UNCHANGED <<queue, m_command, processed, producerVars, stopVars>>

Process ==
    /\ m_pc = "process"
    /\ processed' = Append(processed, m_command)
    /\ m_command' = None
    /\ m_pc' = "pop"
    /\ UNCHANGED <<queue, producerVars, stopVars>>

MatchingThread == TryPop \/ CheckStop \/ Process

-----------------------------------------------------------------------------
(***************************************************************************)
(* stop(): request, then join.  A second call finds nothing left to do.    *)
(***************************************************************************)
RequestStop ==
    /\ s_pc = "ready"
    /\ stop_requested' = TRUE
    /\ s_pc' = "join"
    /\ UNCHANGED <<queue, producerVars, matcherVars>>

Join ==
    /\ s_pc = "join"
    /\ m_pc = "done"
    /\ s_pc' = "returned"
    /\ UNCHANGED <<queue, producerVars, matcherVars, stop_requested>>

stop == RequestStop \/ Join

-----------------------------------------------------------------------------
Next == submit \/ MatchingThread \/ stop

Spec == Init /\ [][Next]_vars
-----------------------------------------------------------------------------
(***************************************************************************)
(* Properties                                                              *)
(***************************************************************************)
InHand == IF m_command = None THEN << >> ELSE <<m_command>>

\* The order the engine sees is the sequencer's, "one true, gapless order": the
\* commands processed, in hand and queued carry 1, 2, 3, ... up to the last
\* number given out, and every submit() call is either among them or counted
\* as rejected.  So the second rejection of submit(), "Unreachable in practice", is:
\* it would leave a number out.
GaplessOrder ==
    LET all == processed \o InHand \o queue
    IN  /\ Len(all) = next_sequence - 1
        /\ \A n \in 1 .. Len(all) : all[n].command_sequence = n
        /\ \A n \in 1 .. Len(all) - 1 : all[n].request < all[n + 1].request
        /\ p_pc = "ready" => Len(all) + commands_rejected = submits
=============================================================================
