-------------------------- MODULE MarketDataFeed --------------------------
(***************************************************************************)
(* Market data from its source to a reader's book, over the two chains the *)
(* applications set up:                                                    *)
(*                                                                         *)
(*   "ui"      matching thread -> MarketDataPublisher -> one datagram per  *)
(*             event -> UiGateway::market_data_loop()                      *)
(*   "file"    feed_generator -> event file -> run_replay()                *)
(*   "listen"  the same file -> udp_sender, datagrams of up to batch_size  *)
(*             frames -> run_udp_listen(): a receiving and an applying     *)
(*             thread with a DroppingQueue between them                    *)
(*                                                                         *)
(* A run of market_data_replay writes its book as a snapshot when it ends, *)
(* and a second run may recover from a gap with it.  Datagrams are lost,   *)
(* duplicated, swapped and damaged; the file may end in half a frame.      *)
(***************************************************************************)
EXTENDS BookReplica, FeedCodec

CONSTANTS Quotes,          \* the <<side, price>> pairs orders are added at
          MaxEvents,       \* bound: events of the source
          MaxFaults,       \* bound: faults of the network and the file
          batch_size,      \* of udp_sender
          queue_capacity   \* of the listener's DroppingQueue

ASSUME FeedAssumption ==
    /\ Quotes \subseteq Sides \X Prices
    /\ MaxEvents \in Nat /\ MaxFaults \in Nat
    /\ batch_size \in Nat \ {0} /\ queue_capacity \in Nat \ {0}

Quantities == {1, 2}

VARIABLES
    mode,       \* which chain: "ui", "file" or "listen"
    resting,    \* the orders of the source: [id, side, price, quantity]
    feed,       \* the frames written, in order
    history,    \* history[n]: resting after the event numbered n
    numbers,    \* [seq, id, packet]: the next number of each kind
    cursor,     \* the next frame of the file to read, None while it is written
    wire,       \* datagrams under way
    faults,     \* how many faults have happened
    out,        \* the reader's ReplayOutcome
    recovers,   \* recovery_snapshot_path is given
    snapshot,   \* the file at that path, or None
    producer,   \* [pc, frames, any]: the listener's receiving thread
    consumer,   \* pc of its applying thread
    queue,      \* the DroppingQueue
    listener    \* [stop, dropped, errors, last_packet, packets]: shared state and counters

source == <<resting, feed, history, numbers>>
threads == <<producer, consumer, queue, listener>>
vars == <<mode, source, cursor, wire, faults, out, recovers, snapshot, threads>>

\* The listener before its threads start.
NewListener == <<[pc |-> "receive", frames |-> << >>, any |-> FALSE], "pop", << >>,
                 [stop |-> FALSE, dropped |-> 0, errors |-> 0, last_packet |-> None,
                  packets |-> [o \in {"InOrder", "Duplicate", "OutOfOrder", "Missing"} |-> 0]]>>

Init == /\ mode \in {"ui", "file", "listen"}
        /\ resting = {} /\ feed = << >> /\ history = << >>
        /\ numbers = [seq |-> 1, id |-> 1, packet |-> 1]
        /\ cursor = None /\ wire = << >> /\ faults = 0
        /\ out = NewOutcome /\ recovers = FALSE /\ snapshot = None
        /\ producer = NewListener[1] /\ consumer = NewListener[2]
        /\ queue = NewListener[3] /\ listener = NewListener[4]

-----------------------------------------------------------------------------
(***************************************************************************)
(* The source.  Emit() gives the event the next number and the ghost its   *)
(* orders; on the exchange it goes out at once, in a datagram of its own.  *)
(***************************************************************************)
\* In a datagram a frame is its place in the feed and what has happened to it since.
Frame(f) == Damaged(feed[f.place], f.damage)
Datagram(seq, places) ==
    [packet_sequence |-> seq,
     frames |-> [k \in DOMAIN places |-> [place |-> places[k], damage |-> "none"]]]

Emit(e, after) ==
    /\ numbers.seq <= MaxEvents
    /\ resting' = after
    /\ history' = Append(history, after)
    /\ feed' = Append(feed, encode_event(numbers.seq, e))
    /\ LET live == mode = "ui"
       IN  /\ wire' = IF live THEN Append(wire, Datagram(numbers.packet, <<Len(feed) + 1>>)) ELSE wire
           /\ numbers' = [seq |-> numbers.seq + 1,
                          id |-> IF e.type = "AddOrder" THEN numbers.id + 1 ELSE numbers.id,
                          packet |-> IF live THEN numbers.packet + 1 ELSE numbers.packet]
    /\ UNCHANGED <<mode, cursor, faults, out, recovers, snapshot, threads>>

With(id, at, q) == [id |-> id, side |-> at[1], price |-> at[2], quantity |-> q]

Add(at, q) ==
    Emit([type |-> "AddOrder", order_id |-> numbers.id, side |-> at[1], price |-> at[2], quantity |-> q],
         resting \union {With(numbers.id, at, q)})

Cancel(o) == Emit([type |-> "CancelOrder", order_id |-> o.id], resting \ {o})

Modify(o, p, q) ==
    Emit([type |-> "ModifyOrder", order_id |-> o.id, price |-> p, quantity |-> q],
         (resting \ {o}) \union {With(o.id, <<o.side, p>>, q)})

Trade == Emit([type |-> "Trade", side |-> "Buy"], resting)

Clear == Emit([type |-> "ClearBook"], {})

\* Mutant of publish: an event that is not published uses up a number.
publish_numbering_all ==
    /\ mode = "ui"
    /\ \/ \E at \in Quotes : Add(at, 2)
       \/ \E o \in resting, q \in Quantities : q < o.quantity /\ Modify(o, o.price, q)
       \/ \E o \in resting : Cancel(o)
       \/ Trade
       \/ /\ numbers.seq <= MaxEvents
          /\ numbers' = [numbers EXCEPT !.seq = @ + 1]
          /\ history' = Append(history, resting)
          /\ UNCHANGED <<mode, resting, feed, cursor, wire, faults, out, recovers, snapshot, threads>>

\* The events of the matching engine that concern its book: a reduction keeps the
\* price.  The other four kinds of event change nothing here.
publish ==
    /\ mode = "ui"
    /\ \/ \E at \in Quotes : Add(at, 2)
       \/ \E o \in resting, q \in Quantities : q < o.quantity /\ Modify(o, o.price, q)
       \/ \E o \in resting : Cancel(o)
       \/ Trade

\* feed_generator: the orders it takes for open are its own record of the book.
GenerateEvent ==
    /\ mode # "ui" /\ cursor = None
    /\ \/ \E at \in Quotes : Add(at, 2)
       \/ \E o \in resting :
            \/ Cancel(o)
            \/ \E p \in Prices : Modify(o, p, 1)
       \/ resting # {} /\ (Trade \/ Clear)

\* Half a frame at the end of the file: the generator was killed, or the disk full.
FileCutShort ==
    /\ mode # "ui" /\ cursor = None /\ faults < MaxFaults
    /\ \E at \in Quotes :
          feed' = Append(feed, [encode_event(numbers.seq,
                                             [type |-> "AddOrder", order_id |-> numbers.id, side |-> at[1],
                                              price |-> at[2], quantity |-> 2])
                                EXCEPT !.cut = "payload"])
    /\ cursor' = 1 /\ faults' = faults + 1
    /\ UNCHANGED <<mode, resting, history, numbers, wire, out, recovers, snapshot, threads>>

\* The generator ends with the last of the orders it was asked for.
FileWritten ==
    /\ mode # "ui" /\ cursor = None /\ feed # << >> /\ Last(feed).type = "AddOrder"
    /\ cursor' = 1
    /\ UNCHANGED <<mode, source, wire, faults, out, recovers, snapshot, threads>>

-----------------------------------------------------------------------------
(***************************************************************************)
(* udp_sender skips frames that do not decode.  A datagram that cannot be  *)
(* sent is gone, and its packet number is used again.  What was sent stays *)
(* on the wire until it is received, so the file is sent in one step.      *)
(***************************************************************************)
\* EventFileReader: the n-th frame of the file.
next(n) == decode_event(feed[n])

Batches ==
    LET events == SelectSeq([n \in DOMAIN feed |-> n], LAMBDA n : next(n).decodes)
        count == Len(events)
    IN  [k \in 1..((count + batch_size - 1) \div batch_size) |->
            SubSeq(events, (k - 1) * batch_size + 1, Min({k * batch_size, count}))]

udp_sender ==
    /\ mode = "listen" /\ cursor = 1
    /\ LET batches == Batches
       IN  \E failed \in SUBSET DOMAIN batches :
             /\ faults + Cardinality(failed) <= MaxFaults
             /\ faults' = faults + Cardinality(failed)
             /\ LET sent == SetToSortSeq(DOMAIN batches \ failed, <)
                IN  wire' = [k \in DOMAIN sent |-> Datagram(k, batches[sent[k]])]
    /\ cursor' = Len(feed) + 1
    /\ UNCHANGED <<mode, source, out, recovers, snapshot, threads>>

\* The network.
NetworkFault ==
    /\ faults < MaxFaults
    /\ faults' = faults + 1
    /\ \E i \in DOMAIN wire :
         \/ wire' = RemoveAt(wire, i)
         \/ wire' = Append(wire, wire[i])
         \/ i < Len(wire) /\ wire' = [wire EXCEPT ![i] = wire[i + 1], ![i + 1] = wire[i]]
         \/ \E k \in DOMAIN wire[i].frames, damage \in {"header", "side"} :
               /\ damage = "side" => "side" \in DOMAIN feed[wire[i].frames[k].place].payload
               /\ wire' = [wire EXCEPT ![i].frames[k].damage = damage]
    /\ UNCHANGED <<mode, source, cursor, out, recovers, snapshot, threads>>

-----------------------------------------------------------------------------
(***************************************************************************)
(* The readers.                                                            *)
(***************************************************************************)
\* The frames of a datagram, or PacketError when the header of one is wrong, or the
\* datagram's own, which is not told apart here; nor is a datagram without frames.
PacketError == << >>
unpack_frames(dgram) ==
    IF \E k \in DOMAIN dgram.frames : decode_header(Frame(dgram.frames[k])) # ""
    THEN PacketError ELSE dgram.frames

\* UiGateway: whatever apply_frame_result() returns is ignored.
market_data_loop ==
    /\ mode = "ui" /\ wire # << >>
    /\ wire' = Tail(wire)
    /\ LET frames == unpack_frames(Head(wire))
       IN  out' = IF frames = PacketError THEN out
                  ELSE FoldLeft(LAMBDA o, n : apply_frame_result(o, decode_event(Frame(n)), FALSE, None), out, frames)
    /\ UNCHANGED <<mode, source, cursor, faults, recovers, snapshot, threads>>

run_replay ==
    /\ mode = "file" /\ cursor # None /\ cursor <= Len(feed) /\ ~out.stopped_early
    /\ out' = apply_frame_result(out, next(cursor), recovers, snapshot)
    /\ cursor' = cursor + 1
    /\ UNCHANGED <<mode, source, wire, faults, recovers, snapshot, threads>>

\* run_udp_listen(), the receiving thread.  A batch is received one datagram at a time:
\* what is left of one when the thread stops is dropped like what is left on the socket.
observe(l, packet_sequence) ==
    LET outcome == check(l.last_packet, packet_sequence)
    IN  [l EXCEPT !.packets[outcome] = @ + 1,
                  !.last_packet = IF outcome \in {"InOrder", "Missing"} THEN packet_sequence ELSE @]

receive_batch ==
    /\ mode = "listen" /\ producer.pc = "receive" /\ ~listener.stop /\ wire # << >>
    /\ wire' = Tail(wire)
    /\ LET frames == unpack_frames(Head(wire))
       IN  IF frames = PacketError
           THEN /\ producer' = [producer EXCEPT !.any = TRUE]
                /\ listener' = [listener EXCEPT !.errors = @ + 1]
           ELSE /\ producer' = [pc |-> "push", frames |-> frames, any |-> TRUE]
                /\ listener' = observe(listener, Head(wire).packet_sequence)
    /\ UNCHANGED <<mode, source, cursor, faults, out, recovers, snapshot, consumer, queue>>

\* DroppingQueue: the newest frame is the one that is dropped.
push ==
    /\ producer.pc = "push"
    /\ IF Len(queue) < queue_capacity
       THEN queue' = Append(queue, Head(producer.frames)) /\ UNCHANGED listener
       ELSE listener' = [listener EXCEPT !.dropped = @ + 1] /\ UNCHANGED queue
    /\ producer' = [producer EXCEPT !.frames = Tail(@),
                                    !.pc = IF Len(producer.frames) = 1 THEN "receive" ELSE @]
    /\ UNCHANGED <<mode, source, cursor, wire, faults, out, recovers, snapshot, consumer>>

\* Mutant of ProducerLeaves: the idle timeout ends the receiving thread only.
ProducerLeavesSilently ==
    /\ mode = "listen" /\ producer.pc = "receive"
    /\ listener.stop \/ producer.any
    /\ producer' = [producer EXCEPT !.pc = "done"]
    /\ UNCHANGED <<mode, source, cursor, wire, faults, out, recovers, snapshot, consumer, queue, listener>>

\* Told to stop, or nothing arrived for idle_timeout: what is on the wire may be late.
ProducerLeaves ==
    /\ mode = "listen" /\ producer.pc = "receive"
    /\ listener.stop \/ producer.any
    /\ producer' = [producer EXCEPT !.pc = "done"]
    /\ listener' = [listener EXCEPT !.stop = TRUE]
    /\ UNCHANGED <<mode, source, cursor, wire, faults, out, recovers, snapshot, consumer, queue>>

\* The applying thread.
ConsumerApplies ==
    /\ mode = "listen" /\ consumer = "pop" /\ queue # << >>
    /\ queue' = Tail(queue)
    /\ out' = apply_frame_result(out, decode_event(Frame(Head(queue))), recovers, snapshot)
    /\ consumer' = IF out'.stopped_early THEN "done" ELSE "pop"
    /\ listener' = [listener EXCEPT !.stop = @ \/ out'.stopped_early]
    /\ UNCHANGED <<mode, source, cursor, wire, faults, recovers, snapshot, producer>>

ConsumerFindsNothing ==
    /\ mode = "listen" /\ consumer = "pop" /\ queue = << >>
    /\ consumer' = "empty"
    /\ UNCHANGED <<mode, source, cursor, wire, faults, out, recovers, snapshot, producer, queue, listener>>

ConsumerChecksStop ==
    /\ consumer = "empty"
    /\ consumer' = IF listener.stop THEN "done" ELSE "pop"
    /\ UNCHANGED <<mode, source, cursor, wire, faults, out, recovers, snapshot, producer, queue, listener>>

-----------------------------------------------------------------------------
(***************************************************************************)
(* market_data_replay --snapshot-out, and a second run with --snapshot-in, *)
(* which listens to the file sent anew.  The snapshot may be cut short.    *)
(***************************************************************************)
Ended == \/ mode = "file" /\ cursor # None /\ (out.stopped_early \/ cursor > Len(feed))
         \/ mode = "listen" /\ producer.pc = "done" /\ consumer = "done"

RunAgain ==
    /\ Ended /\ ~recovers
    /\ \E cut \in BOOLEAN :
         LET file == write_snapshot(IF out.last_sequence_number = None THEN 0 ELSE out.last_sequence_number,
                                    out.book)
         IN  /\ cut => faults < MaxFaults /\ file.entries # << >>
             /\ faults' = IF cut THEN faults + 1 ELSE faults
             /\ snapshot' = IF cut THEN [file EXCEPT !.entries = Tail(@)] ELSE file
    /\ recovers' = TRUE
    /\ mode' = "listen" /\ cursor' = 1 /\ wire' = << >>
    /\ out' = NewOutcome
    /\ producer' = NewListener[1] /\ consumer' = NewListener[2]
    /\ queue' = NewListener[3] /\ listener' = NewListener[4]
    /\ UNCHANGED source

Producer == receive_batch \/ push \/ ProducerLeaves
Consumer == ConsumerApplies \/ ConsumerFindsNothing \/ ConsumerChecksStop

Next == \/ publish \/ GenerateEvent \/ FileCutShort \/ FileWritten
        \/ udp_sender \/ NetworkFault
        \/ market_data_loop \/ run_replay
        \/ Producer \/ Consumer
        \/ RunAgain

\* Both threads of the listener are scheduled, and the idle timeout is a timer.
Spec == Init /\ [][Next]_vars /\ WF_vars(Producer) /\ WF_vars(Consumer)

-----------------------------------------------------------------------------
(***************************************************************************)
(* Properties.                                                             *)
(***************************************************************************)
\* A reader that has applied as many events as the number of the last one has the
\* source's orders as of that event, whatever the network did: nothing but a gap or a
\* recovery (replay_engine.cpp:84) can make the replica differ, and both leave the
\* two counters apart for good.
ReplicaExact ==
    out.messages_processed > 0 /\ out.messages_processed = out.last_sequence_number
        => Orders(out.book) = history[out.last_sequence_number]

\* Without a fault and without a dropped frame no reader reports an error: the events that
\* are not published take no number (market_data_publisher.cpp:34), batches carry every
\* event once, and every event applies to the book it finds.
NoFalseAlarm ==
    faults = 0 /\ listener.dropped = 0 =>
        out.sequence_failures = 0 /\ out.decode_failures = 0 /\ out.book_errors = 0

\* A snapshot of any book a reader can have, gaps and recoveries included, gives that
\* very book back, its time priority too (snapshot.cpp:14).
SnapshotRoundTrip == read_snapshot(write_snapshot(0, out.book)) = out.book

\* Once the listener has received anything, both of its threads end, whichever of them
\* finds the reason to: an idle network or an error (udp_listener.cpp:46).
ListenEnds == mode = "listen" /\ producer.any ~> mode = "listen" /\ producer.pc = "done" /\ consumer = "done"
===========================================================================
