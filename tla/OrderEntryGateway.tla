------------------------- MODULE OrderEntryGateway -------------------------
(***************************************************************************)
(* mdh::exchange::gateway::OrderEntryGateway around the matching pipeline: *)
(* an accept thread, a reader and a writer thread per connection, and the  *)
(* matching thread, which routes every report to the session that owns the *)
(* order, to another session of the account, or into the retained reports. *)
(*                                                                         *)
(* Each critical section of sessions_mutex_ is one step.  The engine is    *)
(* reduced to which orders rest: prices and quantities are left out, and   *)
(* risk and matching are free choices.  A report carries the number n of   *)
(* its place among all reports, so that each can be followed to its end.   *)
(***************************************************************************)
EXTENDS Integers, Sequences, FiniteSets, SequencesExt, Functions, OrderEntryCodec

CONSTANTS MaxConnections,           \* bound: connections the clients open
          Accounts,
          Frames,                   \* what the clients may send
          Capacity,                 \* matching_queue_capacity
          MaxSubmits,               \* bound: requests the clients send
          OutboundCapacity,         \* outbound_queue_capacity
          pending_report_capacity,
          None

\* The three kinds of request, of which the gateway looks at account and ids only.
Request == [type : {"NewOrder", "CancelOrder"}, account : Accounts, id : Nat] \union
           [type : {"ReplaceOrder"}, account : Accounts, id : Nat, new_id : Nat]

\* The request in a message; the messages of the gateway's own are none.
to_command(message) ==
    LET m == message.fields
    IN  CASE message.type = "NewOrder" \/ message.type = "CancelOrder" ->
               [type |-> message.type, account |-> m.account, id |-> m.id]
          [] message.type = "ReplaceOrder" ->
               [type |-> message.type, account |-> m.account, id |-> m.id, new_id |-> m.new_id]
          [] OTHER -> None

ASSUME GatewayAssumption ==
    /\ \A f \in Frames : LET message == decode_message(f)
                        IN  \/ message.type = "DecodeError"
                            \/ to_command(message) \in Request \union {None}
    /\ MaxSubmits \in Nat /\ MaxConnections \in Nat
    /\ Capacity \in Nat \ {0} /\ OutboundCapacity \in Nat \ {0}
    /\ pending_report_capacity \in Nat
    /\ None \notin Accounts /\ None \notin 1 .. MaxConnections
    /\ None \notin [account : Accounts, id : Nat, n : Nat]
    /\ None \notin [request : Nat, command_sequence : Nat]

\* The pipeline's own state (see MatchingPipeline).
VARIABLES queue, next_sequence, submits, p_pc, commands_rejected, m_pc, m_command,
          processed, stop_requested, s_pc
pipelineVars == <<queue, next_sequence, submits, p_pc, commands_rejected, m_pc, m_command,
                  processed, stop_requested, s_pc>>
Pipeline == INSTANCE MatchingPipeline

VARIABLES
    sent,              \* requests the clients have sent
    submitted,         \* what the k-th submit() carried
    live,              \* orders resting in the engine; the ledger holds the same keys
    events,            \* events of the command in hand still to be routed
    reports,           \* number of reports produced so far
    dropped            \* reports given up: a full outbound queue, an evicted one
submitVars == <<sent, submitted>>
engineVars == <<live, events, reports, dropped>>

VARIABLES
    conn,              \* connections_
    account_sessions, order_owner, pending_reports
routing == <<account_sessions, order_owner, pending_reports>>

VARIABLES g_stop,      \* stop_source_
          g_pc         \* stop(): "ready", "accept", "join", "pipeline" or "returned"
stopVars == <<g_stop, g_pc>>

vars == <<pipelineVars, submitVars, engineVars, conn, routing, stopVars>>

\* SessionId: next_session_id_ counts up from 1.
Sessions == 1 .. MaxConnections

With(f, k, value) == [i \in DOMAIN f \union {k} |-> IF i = k THEN value ELSE f[i]]
Without(f, ks) == Restrict(f, DOMAIN f \ ks)

\* reader and writer are the connection's two threads, request and message what they
\* have in hand, shut says that its socket is shut down or the client has gone, and
\* written is what reached the client.
Connection ==
    [reader |-> "none", request |-> None, writer |-> "none", message |-> None,
     account |-> None, closed |-> FALSE, shut |-> FALSE, outbound |-> << >>,
     session_outbound |-> << >>, replay_backlog |-> << >>, written |-> << >>]

Init ==
    /\ Pipeline!Init
    /\ sent = 0 /\ submitted = << >>
    /\ live = {} /\ events = << >> /\ reports = 0 /\ dropped = {}
    /\ conn = [s \in Sessions |-> Connection]
    /\ account_sessions = [a \in Accounts |-> << >>]
    /\ order_owner = << >>
    /\ pending_reports = [a \in Accounts |-> << >>]
    /\ g_stop = FALSE /\ g_pc = "ready"

-----------------------------------------------------------------------------
(***************************************************************************)
(* The accept thread, and a client that goes away.                         *)
(***************************************************************************)
\* A connection taken while stop() is being called is one taken just before.
accept_loop ==
    /\ ~g_stop
    /\ \E s \in Sessions :
          /\ conn[s].reader = "none" /\ \A t \in 1 .. s - 1 : conn[t].reader # "none"
          /\ conn' = [conn EXCEPT ![s].reader = "read", ![s].writer = "top"]
    /\ UNCHANGED <<pipelineVars, submitVars, engineVars, routing, stopVars>>

HangUp(s) ==
    /\ conn[s].reader # "none" /\ ~conn[s].shut
    /\ conn' = [conn EXCEPT ![s].shut = TRUE]
    /\ UNCHANGED <<pipelineVars, submitVars, engineVars, routing, stopVars>>

-----------------------------------------------------------------------------
(***************************************************************************)
(* connection_reader_loop().                                               *)
(***************************************************************************)
Key(r) == <<r.account, r.id>>

\* The socket is read: one more of the frames the clients send.
CanRead(s) ==
    /\ conn[s].reader = "read" /\ ~conn[s].shut
    /\ sent < MaxSubmits /\ sent' = sent + 1

\* The request a frame holds, or None.
Wanted(f) ==
    LET message == decode_message(f)
    IN  IF message.type = "DecodeError" THEN None ELSE to_command(message)

\* Mutant of bind_session: the retained reports are copied and not taken.
bind_session_keeping(s, r) ==
    /\ account_sessions' = [account_sessions EXCEPT ![r.account] = Append(@, s)]
    /\ conn' = [conn EXCEPT ![s].account = r.account, ![s].request = r, ![s].reader = "claim",
                            ![s].replay_backlog = pending_reports[r.account]]
    /\ UNCHANGED pending_reports

\* The first request binds the session and takes the retained reports along.
bind_session(s, r) ==
    /\ account_sessions' = [account_sessions EXCEPT ![r.account] = Append(@, s)]
    /\ conn' = [conn EXCEPT ![s].account = r.account, ![s].request = r, ![s].reader = "claim",
                            ![s].replay_backlog = pending_reports[r.account]]
    /\ pending_reports' = [pending_reports EXCEPT ![r.account] = << >>]

\* The gateway's own answer, dropped when its queue is full.
reject_account_mismatch(s, r) ==
    /\ conn' = [conn EXCEPT ![s].session_outbound =
                   IF Len(@) < OutboundCapacity
                     THEN Append(@, [account |-> r.account, id |-> r.id, n |-> 0]) ELSE @]
    /\ UNCHANGED <<account_sessions, pending_reports>>

\* Mutant of ReadRequest: a bound session may name any account.
ReadRequestUnchecked(s) ==
    /\ CanRead(s)
    /\ \E f \in Frames : LET r == Wanted(f)
       IN  /\ r # None
           /\ \/ conn[s].account = None /\ bind_session(s, r)
              \/ /\ conn[s].account # None
                 /\ conn' = [conn EXCEPT ![s].request = r, ![s].reader = "claim"]
                 /\ UNCHANGED <<account_sessions, pending_reports>>
    /\ UNCHANGED <<pipelineVars, submitted, engineVars, order_owner, stopVars>>

\* A whole frame is in read_buffer, and it is a request.
ReadRequest(s) ==
    /\ CanRead(s)
    /\ \E f \in Frames : LET r == Wanted(f)
       IN  /\ r # None
           /\ \/ conn[s].account = None /\ bind_session(s, r)
              \/ conn[s].account \notin {None, r.account} /\ reject_account_mismatch(s, r)
              \/ /\ conn[s].account = r.account
                 /\ conn' = [conn EXCEPT ![s].request = r, ![s].reader = "claim"]
                 /\ UNCHANGED <<account_sessions, pending_reports>>
    /\ UNCHANGED <<pipelineVars, submitted, engineVars, order_owner, stopVars>>

\* It is something else.  A message that does not decode, or that no client sends, is
\* passed over; a type that is none leaves the reader waiting for the bytes that would
\* complete a header, which it has already, until the connection ends.
ReadNoRequest(s) ==
    /\ CanRead(s)
    /\ \E f \in Frames :
          /\ Wanted(f) = None
          /\ conn' = [conn EXCEPT ![s].reader = IF decode_header(f) = "" THEN "read" ELSE "deaf"]
    /\ UNCHANGED <<pipelineVars, submitted, engineVars, routing, stopVars>>

\* The first writer wins.
claim_order_ownership(s) ==
    /\ conn[s].reader = "claim"
    /\ LET key == Key(conn[s].request)
       IN  order_owner' = IF key \in DOMAIN order_owner THEN order_owner
                          ELSE With(order_owner, key, s)
    /\ conn' = [conn EXCEPT ![s].reader = "submit"]
    /\ UNCHANGED <<pipelineVars, submitVars, engineVars, account_sessions, pending_reports,
                   stopVars>>

\* submit_command(): the pipeline's two steps, p_pc = "push" being submit_mutex_ held
\* between them; the result is not looked at.
SubmitBegin(s) ==
    /\ conn[s].reader = "submit"
    /\ Pipeline!SubmitCheck
    /\ submitted' = Append(submitted, conn[s].request)
    /\ conn' = [conn EXCEPT ![s].reader = IF p_pc' = "push" THEN "push" ELSE "read",
                            ![s].request = None]
    /\ UNCHANGED <<sent, engineVars, routing, stopVars>>

SubmitEnd(s) ==
    /\ conn[s].reader = "push"
    /\ Pipeline!SubmitPush
    /\ conn' = [conn EXCEPT ![s].reader = "read"]
    /\ UNCHANGED <<sent, submitted, engineVars, routing, stopVars>>

\* read() has failed or returned nothing: closed first, and then the unbinding.
ReaderCloses(s) ==
    /\ conn[s].reader \in {"read", "deaf"} /\ conn[s].shut
    /\ conn' = [conn EXCEPT ![s].closed = TRUE, ![s].reader = "unbind"]
    /\ UNCHANGED <<pipelineVars, submitVars, engineVars, routing, stopVars>>

\* Mutant of unbind_session: the orders of the session keep their owner.
unbind_session_only(s) ==
    /\ conn[s].reader = "unbind"
    /\ IF conn[s].account = None THEN UNCHANGED <<account_sessions, order_owner>>
       ELSE /\ account_sessions' = [account_sessions EXCEPT ![conn[s].account] =
                                        RemoveFirst(@, s)]
            /\ UNCHANGED order_owner
    /\ conn' = [conn EXCEPT ![s].reader = "done"]
    /\ UNCHANGED <<pipelineVars, submitVars, engineVars, pending_reports, stopVars>>

\* A session is in the list once, where bind_session() put it.
unbind_session(s) ==
    /\ conn[s].reader = "unbind"
    /\ IF conn[s].account = None THEN UNCHANGED <<account_sessions, order_owner>>
       ELSE /\ account_sessions' = [account_sessions EXCEPT ![conn[s].account] =
                                        RemoveFirst(@, s)]
            /\ order_owner' = Without(order_owner, {k \in DOMAIN order_owner : order_owner[k] = s})
    /\ conn' = [conn EXCEPT ![s].reader = "done"]
    /\ UNCHANGED <<pipelineVars, submitVars, engineVars, pending_reports, stopVars>>

ReaderStep(s) ==
    claim_order_ownership(s) \/ SubmitBegin(s) \/ SubmitEnd(s) \/ ReaderCloses(s)
    \/ unbind_session(s)

-----------------------------------------------------------------------------
(***************************************************************************)
(* The matching thread.  The engine turns the command in hand into events; *)
(* each is then routed in a critical section of its own.                   *)
(***************************************************************************)
Command == submitted[m_command.request]

Event(type, key) == [type |-> type, keys |-> <<key>>]

\* The order of this key is on its way into the book and others rest there: it finds
\* nothing, or trades with one of them; what is left of it rests or, by its time in
\* force, is dropped without an event.  The buyer's report comes first.
Matching(first, key, others, restsOrNot) ==
    \E rests \in restsOrNot :
        LET left(filled) == (others \union (IF rests THEN {key} ELSE {})) \ filled
        IN  \/ events' = <<first>> /\ live' = left({})
            \/ \E contra \in others : \E filled \in {{key}, {contra}, {key, contra}} :
                  /\ \E keys \in {<<key, contra>>, <<contra, key>>} :
                        events' = <<first, [type |-> "TradeExecuted", keys |-> keys,
                                            filled |-> filled]>>
                  /\ live' = left(filled)

\* What the risk gated engine makes of the command in hand.
ProcessEvents ==
    LET c == Command
        key == Key(c)
        Rejected == events' = <<Event("OrderRejected", key)>> /\ UNCHANGED live
    IN  \/ c.type \in {"NewOrder", "ReplaceOrder"} /\ Rejected
        \/ /\ c.type = "NewOrder" /\ key \notin live
           /\ Matching(Event("OrderAccepted", key), key, live, BOOLEAN)
        \/ /\ c.type = "ReplaceOrder" /\ key \in live
           /\ Matching([type |-> "OrderReplaced", keys |-> <<key>>, to |-> <<c.account, c.new_id>>],
                       <<c.account, c.new_id>>, live \ {key}, {TRUE})
        \/ /\ c.type = "CancelOrder"
           /\ \/ key \notin live /\ Rejected
              \/ /\ key \in live /\ live' = live \ {key}
                 /\ events' = <<Event("OrderCancelled", key)>>

\* TryPop of the pipeline, and the engine's work on what it returned.
MatchingTakes ==
    /\ Pipeline!TryPop
    /\ UNCHANGED <<submitVars, engineVars, conn, routing, stopVars>>

MatchingProcesses ==
    /\ m_pc = "process" /\ events = << >>
    /\ ProcessEvents
    /\ Pipeline!Process
    /\ UNCHANGED <<submitVars, reports, dropped, conn, routing, stopVars>>

Open(s) == ~conn[s].closed

\* The session a report for this key goes to, or None.
Target(key) ==
    IF key \in DOMAIN order_owner /\ Open(order_owner[key]) THEN order_owner[key]
    ELSE LET sessions == account_sessions[key[1]]
             first == SelectInSeq(sessions, Open)
         IN  IF first = 0 THEN None ELSE sessions[first]

Report(key, n) == [account |-> key[1], id |-> key[2], n |-> n]

\* Where routing has got to while the reports of one event are placed.
Place(state, key) ==
    LET r == Report(key, state.n + 1)
        s == Target(key)
        a == key[1]
        full == s # None /\ Len(state.conn[s].outbound) >= OutboundCapacity
        evicts == s = None /\ Len(state.pending[a]) >= pending_report_capacity
    IN  [n |-> r.n,
         conn |-> IF s = None \/ full THEN state.conn
                  ELSE [state.conn EXCEPT ![s].outbound = Append(@, r)],
         pending |-> IF s # None \/ pending_report_capacity = 0 THEN state.pending
                     ELSE [state.pending EXCEPT ![a] = Append(IF evicts THEN Tail(@) ELSE @, r)],
         dropped |-> state.dropped \union
                     (IF full \/ (s = None /\ pending_report_capacity = 0) THEN {r.n}
                      ELSE IF evicts THEN {Head(state.pending[a]).n} ELSE {})]

update_order_ownership(e) ==
    CASE e.type = "OrderRejected" -> Without(order_owner, {Head(e.keys)} \ live)
      [] e.type = "OrderCancelled" -> Without(order_owner, {Head(e.keys)})
      [] e.type = "OrderReplaced" ->
           IF Head(e.keys) \in DOMAIN order_owner
             THEN Without(With(order_owner, e.to, order_owner[Head(e.keys)]), {Head(e.keys)})
             ELSE order_owner
      [] e.type = "TradeExecuted" -> Without(order_owner, e.filled)
      [] OTHER -> order_owner

\* A trade has a report for each side, anything else one.
route_event ==
    /\ events # << >>
    /\ LET e == Head(events)
           first == Place([n |-> reports, conn |-> conn, pending |-> pending_reports,
                           dropped |-> dropped], e.keys[1])
           routed == IF Len(e.keys) = 1 THEN first ELSE Place(first, e.keys[2])
       IN  /\ reports' = routed.n
           /\ conn' = routed.conn
           /\ pending_reports' = routed.pending
           /\ dropped' = routed.dropped
           /\ order_owner' = update_order_ownership(e)
    /\ events' = Tail(events)
    /\ UNCHANGED <<pipelineVars, submitVars, live, account_sessions, stopVars>>

\* The processor returns once its events are routed.
MatchingIdles ==
    /\ Pipeline!CheckStop
    /\ UNCHANGED <<submitVars, engineVars, conn, routing, stopVars>>

MatchingStep ==
    route_event \/ (events = << >> /\ (MatchingTakes \/ MatchingProcesses \/ MatchingIdles))

-----------------------------------------------------------------------------
(***************************************************************************)
(* connection_writer_loop(): the backlog, then the gateway's own answers,  *)
(* then the reports; one look each.                                        *)
(***************************************************************************)
\* The head of the loop and the look at the backlog.  The wait between two rounds
\* ends with a notification or by its timeout, whatever there is to do.
WriterTop(s) ==
    /\ conn[s].writer = "top"
    /\ LET c == conn[s]
       IN  conn' = [conn EXCEPT ![s] =
               IF g_stop \/ c.closed THEN [c EXCEPT !.writer = "done"]
               ELSE IF c.replay_backlog # << >>
                 THEN [c EXCEPT !.message = Head(c.replay_backlog), !.writer = "write",
                                !.replay_backlog = Tail(@)]
               ELSE [c EXCEPT !.writer = "queues"]]
    /\ UNCHANGED <<pipelineVars, submitVars, engineVars, routing, stopVars>>

\* The backlog was empty when it was looked at; now the two queues.
WriterQueues(s) ==
    /\ conn[s].writer = "queues"
    /\ LET c == conn[s]
       IN  conn' = [conn EXCEPT ![s] =
               IF c.session_outbound # << >>
                 THEN [c EXCEPT !.message = Head(c.session_outbound), !.writer = "write",
                                !.session_outbound = Tail(@)]
               ELSE IF c.outbound # << >>
                 THEN [c EXCEPT !.message = Head(c.outbound), !.writer = "write",
                                !.outbound = Tail(@)]
               ELSE [c EXCEPT !.writer = "top"]]
    /\ UNCHANGED <<pipelineVars, submitVars, engineVars, routing, stopVars>>

\* The client reads what is written ...
WriterWrites(s) ==
    /\ conn[s].writer = "write" /\ ~conn[s].shut
    /\ conn' = [conn EXCEPT ![s].written = Append(@, conn[s].message), ![s].message = None,
                            ![s].writer = "top"]
    /\ UNCHANGED <<pipelineVars, submitVars, engineVars, routing, stopVars>>

\* ... or its socket is gone and write() fails.
WriterFails(s) ==
    /\ conn[s].writer = "write" /\ conn[s].shut
    /\ conn' = [conn EXCEPT ![s].writer = "done"]
    /\ UNCHANGED <<pipelineVars, submitVars, engineVars, routing, stopVars>>

WriterStep(s) ==
    WriterTop(s) \/ WriterQueues(s) \/ WriterFails(s)

-----------------------------------------------------------------------------
(***************************************************************************)
(* stop().                                                                 *)
(***************************************************************************)
StopRequested ==
    /\ g_pc = "ready"
    /\ g_stop' = TRUE /\ g_pc' = "accept"
    /\ UNCHANGED <<pipelineVars, submitVars, engineVars, conn, routing>>

\* The accept thread is joined; then every socket is shut down.
ShutSockets ==
    /\ g_pc = "accept"
    /\ conn' = [s \in Sessions |-> IF conn[s].reader = "none" THEN conn[s]
                                   ELSE [conn[s] EXCEPT !.shut = TRUE]]
    /\ g_pc' = "join"
    /\ UNCHANGED <<pipelineVars, submitVars, engineVars, routing, g_stop>>

JoinConnections ==
    /\ g_pc = "join"
    /\ \A s \in Sessions : /\ conn[s].reader \in {"none", "done"}
                           /\ conn[s].writer \in {"none", "done"}
    /\ Pipeline!RequestStop
    /\ g_pc' = "pipeline"
    /\ UNCHANGED <<submitVars, engineVars, conn, routing, g_stop>>

PipelineStopped ==
    /\ g_pc = "pipeline"
    /\ Pipeline!Join
    /\ g_pc' = "returned"
    /\ UNCHANGED <<submitVars, engineVars, conn, routing, g_stop>>

StopStep == ShutSockets \/ JoinConnections \/ PipelineStopped

-----------------------------------------------------------------------------
Client == \E s \in Sessions : ReadRequest(s) \/ ReadNoRequest(s) \/ HangUp(s) \/ WriterWrites(s)

Next ==
    \/ Client \/ accept_loop \/ MatchingStep \/ StopRequested \/ StopStep
    \/ \E s \in Sessions : ReaderStep(s) \/ WriterStep(s)

Spec == Init /\ [][Next]_vars
-----------------------------------------------------------------------------
(***************************************************************************)
(* Properties                                                              *)
(***************************************************************************)
\* What a connection holds for its client, and has given it.
Holds(s) ==
    LET c == conn[s]
    IN  Range(c.written) \union Range(c.replay_backlog) \union Range(c.outbound)
        \union (IF c.message = None THEN {} ELSE {c.message})

\* "what keeps one client's fills out of another client's socket": a report is only
\* ever held for, or given to, a session bound to the account it is about, whoever
\* claimed the order and whichever session the routing fell back to.
OnlyOwnAccount ==
    \A s \in Sessions : \A r \in Holds(s) : r.n > 0 => r.account = conn[s].account

\* No report is lost or doubled by the hand-over between the matching thread, the
\* retained reports and a session that binds: each is in exactly one place, or was
\* given up because a queue was full.
Places(n) ==
    (IF n \in dropped THEN 1 ELSE 0)
    + Cardinality({a \in Accounts : \E r \in Range(pending_reports[a]) : r.n = n})
    + Cardinality({s \in Sessions : \E r \in Holds(s) : r.n = n})

ReportsConserved == \A n \in 1 .. reports : Places(n) = 1

\* "after unbinding, nothing can route here at all": the maps hold raw pointers, and
\* none of them names a session whose reader has left, though the matching thread
\* moves records from one order to the next meanwhile.
GoneIsUnknown ==
    \A s \in Sessions : conn[s].reader = "done" =>
        /\ \A a \in Accounts : s \notin Range(account_sessions[a])
        /\ s \notin Range(order_owner)

\* The one order of MatchingPipeline!GaplessOrder also holds with many readers, and with
\* a processor that routes the events of a command before it takes the next.
GaplessOrder == Pipeline!GaplessOrder
=============================================================================
