------------------------ MODULE MarketMakerProofs ------------------------
(***************************************************************************)
(* What the trader believes of its orders and what the venue holds, proved *)
(* for any number of order ids: an order it calls finished never works     *)
(* again, a side never has two orders working, and with nothing in flight  *)
(* the two agree on the orders that work and on the position.              *)
(*                                                                         *)
(* The facts about orders, commands, reports and the venue's book are      *)
(* stated of values (Coherent(O, n, C, M, R, T)), so that the lemmas say   *)
(* what one change of one of them does, and the theorems add which step    *)
(* makes which change.                                                     *)
(***************************************************************************)
EXTENDS MarketMaker, FiniteSetTheorems, TLAPS

PriceOrNone == Int \cup {None}

Order == [side : Sides, price : PriceOrNone, remaining : Int,
          state : {"PendingNew", "Live", "PartiallyFilled", "Filled", "Rejected",
                   "Cancelled", "Replaced"},
          pending : {"None", "Cancel", "Replace"}]

RestingOrder == [side : Sides, price : PriceOrNone, remaining : Nat \ {0}]

Command ==
    [type : {"NewOrder"}, id : Nat, side : Sides, price : PriceOrNone]
    \cup [type : {"CancelOrder"}, id : Nat]
    \cup [type : {"ReplaceOrder"}, id : Nat, new_id : Nat, price : PriceOrNone]

Message ==
    [type : {"Accepted", "Rejected", "Cancelled"}, id : Nat]
    \cup [type : {"Replaced"}, id : Nat, new_id : Nat, price : PriceOrNone]
    \cup [type : {"TradeReport"}, id : Nat, quantity : Int, remaining : Int]

\* The orders a command brings to the venue.
Creates(c) == IF c.type = "NewOrder" THEN {c.id}
              ELSE IF c.type = "ReplaceOrder" THEN {c.new_id} ELSE {}

\* The orders a report speaks of.
Mentions(m) == IF m.type = "Replaced" THEN {m.id, m.new_id} ELSE {m.id}

Created(C) == UNION {Creates(c) : c \in C}

\* Orders O with ids below n, commands C and reports M in flight, and the venue's book R.
Typed(O, n, C, M, R) ==
    /\ n \in Nat
    /\ O \in [DOMAIN O -> Order] /\ DOMAIN O \subseteq Nat /\ \A id \in DOMAIN O : id < n
    /\ R \in [DOMAIN R -> RestingOrder] /\ DOMAIN R \subseteq Nat
    /\ C \subseteq Command /\ M \subseteq Message

\* A command is about a known order; what it creates is pending and not at the venue yet,
\* and what it changes was accepted.
CommandSound(O, R, c) ==
    /\ c.id \in DOMAIN O
    /\ c.type # "NewOrder" => O[c.id].state # "PendingNew"
    /\ c.type = "NewOrder" => O[c.id].side = c.side
    /\ c.type = "ReplaceOrder" => O[c.new_id].side = O[c.id].side
    /\ Creates(c) \subseteq DOMAIN O \ DOMAIN R
    /\ \A id \in Creates(c) : O[id].state = "PendingNew"

\* A report is about known orders that reached the venue, and one that ends an order comes
\* after the order has left the book.
ReportSound(O, C, R, m) ==
    /\ Mentions(m) \subseteq DOMAIN O \ Created(C)
    /\ m.type \in {"Cancelled", "Replaced"} => m.id \notin DOMAIN R
    /\ m.type = "TradeReport" /\ m.remaining = 0 => m.id \notin DOMAIN R
    /\ m.type = "Rejected" /\ O[m.id].state = "PendingNew" => m.id \notin DOMAIN R

\* The venue's orders are known with their side, and none of them is finished.
BookSound(O, R) ==
    \A id \in DOMAIN R : /\ id \in DOMAIN O /\ ~is_terminal(O[id])
                         /\ R[id].side = O[id].side

Sound(O, n, C, M, R) ==
    /\ Typed(O, n, C, M, R)
    /\ \A c \in C : CommandSound(O, R, c)
    /\ \A m \in M : ReportSound(O, C, R, m)
    /\ BookSound(O, R)

\* The orders that work or are on their way to the venue.
Working(C, R) == DOMAIN R \cup Created(C)

\* Order id gives way to t, of which the venue has said nothing yet, and which nothing
\* but the replacement of id brings there.
Superseded(O, C, M, R, id, t) ==
    /\ O[id].state # "PendingNew"
    /\ t \in DOMAIN O \ DOMAIN R /\ O[t].state = "PendingNew"
    /\ \A m \in M : t \notin Mentions(m)
    /\ \A c \in C : t \in Creates(c) => c.type = "ReplaceOrder" /\ c.id = id

\* Of each side s, only T[s] works, and at most one order that gives way to it.
Quoted(O, C, M, R, T) ==
    /\ \A s \in Sides : T[s] # None => T[s] \in DOMAIN O /\ O[T[s]].side = s
    /\ \A id \in Working(C, R) :
          id = T[O[id].side] \/ Superseded(O, C, M, R, id, T[O[id].side])
    /\ \A a, b \in Working(C, R) :
          O[a].side = O[b].side /\ a # T[O[a].side] /\ b # T[O[b].side] => a = b

Coherent(O, n, C, M, R, T) == Sound(O, n, C, M, R) /\ Quoted(O, C, M, R, T)

-----------------------------------------------------------------------------
(***************************************************************************)
(* The inductive invariant.                                                *)
(***************************************************************************)
Commands == Range(to_exchange) \cup ({call} \ {None})

\* The order the strategy counts on: in replace_order() the new one, if it is registered.
Top == [s \in Sides |->
           IF mm_pc = "replacing" /\ s = Side /\ Known(next_client_order_id - 1)
             THEN next_client_order_id - 1 ELSE quote[s]]

\* No two commands bring the same order.
CreatedOnce ==
    /\ \A i, j \in DOMAIN to_exchange :
          i # j => Creates(to_exchange[i]) \cap Creates(to_exchange[j]) = {}
    /\ call # None =>
          \A i \in DOMAIN to_exchange : Creates(to_exchange[i]) \cap Creates(call) = {}

WireTyped ==
    /\ to_exchange \in Seq(Command) /\ to_client \in Seq(Message)
    /\ call \in Command \cup {None}
    /\ send_failed \in BOOLEAN /\ (send_failed => call # None)

\* Where on_book_update() is, and what holds there.
StrategyInv ==
    /\ quote \in [Sides -> Nat \cup {None}]
    /\ \A s \in Sides : quote[s] # None => quote[s] \in DOMAIN orders /\ orders[quote[s]].side = s
    /\ mm_pc \in {"idle", "ask", "bid", "update", "submit", "cancel", "replace", "replacing"}
    /\ mm_pc # "idle" => mid \in Nat
    /\ plan \in Seq(Sides)
    /\ mm_pc \in {"update", "submit", "cancel", "replace", "replacing"} => plan # << >>
    /\ mm_pc \in {"submit", "cancel", "replace"} => call = None
    /\ mm_pc = "submit" => quote[Side] = None
    /\ mm_pc = "replacing" => \A s \in Sides : quote[s] # next_client_order_id - 1
    /\ call # None /\ call.type = "ReplaceOrder" =>
          /\ mm_pc = "replacing" /\ call.new_id = next_client_order_id - 1
          /\ call.id = quote[Side]

TraderInv ==
    /\ WireTyped /\ CreatedOnce /\ StrategyInv
    /\ Coherent(orders, next_client_order_id, Commands, Range(to_client), resting, Top)
-----------------------------------------------------------------------------
(***************************************************************************)
(* What becomes of a coherent state.                                       *)
(***************************************************************************)
LEMMA NoneIsNoId == None \notin Nat
BY MarkAssumption

LEMMA CreatedBy ==
    ASSUME NEW C, NEW id
    PROVE  id \in Created(C) <=> \E c \in C : id \in Creates(c)
BY DEF Created

LEMMA CreatedFewer ==
    ASSUME NEW C, NEW D, D \subseteq C
    PROVE  Created(D) \subseteq Created(C)
BY DEF Created

\* What is on its way to the venue is not there, is known and is pending.
LEMMA CreatedPending ==
    ASSUME NEW O, NEW n, NEW C, NEW M, NEW R, Sound(O, n, C, M, R), NEW id \in Created(C)
    PROVE  id \in DOMAIN O /\ id \notin DOMAIN R /\ O[id].state = "PendingNew"
BY CreatedBy DEF Sound, CommandSound

LEMMA WorkingKnown ==
    ASSUME NEW O, NEW n, NEW C, NEW M, NEW R, Sound(O, n, C, M, R), NEW id \in Working(C, R)
    PROVE  id \in DOMAIN O /\ id \in Nat /\ O[id] \in Order /\ O[id].side \in Sides
<1>1. id \in DOMAIN O
  BY CreatedPending DEF Working, Sound, BookSound
<1> QED
  BY <1>1 DEF Sound, Typed, Order

\* Commands and reports get lost: the connection breaks, the gateway drops one, or it is
\* dealt with.
LEMMA Fewer ==
    ASSUME NEW O, NEW n, NEW C, NEW M, NEW R, NEW T, Coherent(O, n, C, M, R, T),
           NEW D, D \subseteq C, NEW N, N \subseteq M
    PROVE  Coherent(O, n, D, N, R, T)
<1>1. Created(D) \subseteq Created(C)
  BY CreatedFewer
<1>2. Sound(O, n, D, N, R)
  BY <1>1 DEF Coherent, Sound, Typed, ReportSound
<1>3. Quoted(O, D, N, R, T)
  BY <1>1 DEF Coherent, Quoted, Superseded, Working
<1> QED
  BY <1>2, <1>3 DEF Coherent

\* The venue refuses the command m.
LEMMA Refused ==
    ASSUME NEW O, NEW n, NEW C, NEW M, NEW R, NEW T, Coherent(O, n, C, M, R, T),
           NEW m \in C, NEW D, D \subseteq C, Creates(m) \cap Created(D) = {},
           NEW r, r.type = "Rejected", r.id = m.id, r \in Message,
           NEW N, N \subseteq M \cup {r}
    PROVE  Coherent(O, n, D, N, R, T)
<1>1. Created(D) \subseteq Created(C)
  BY CreatedFewer
<1>2. Sound(O, n, C, M, R) /\ CommandSound(O, R, m)
  BY DEF Coherent, Sound
<1>3. m.id \in DOMAIN O \ Created(D)
  <2>1. CASE m.type = "NewOrder"
    BY <1>2, <2>1 DEF CommandSound, Creates
  <2>2. CASE m.type # "NewOrder"
    BY <1>1, <1>2, <2>2, CreatedPending DEF CommandSound
  <2> QED
    BY <2>1, <2>2
<1>4. O[m.id].state = "PendingNew" => m.type = "NewOrder" /\ m.id \in Creates(m)
  BY <1>2 DEF CommandSound, Creates
<1>5. ReportSound(O, D, R, r)
  BY <1>2, <1>3, <1>4 DEF ReportSound, CommandSound, Mentions
<1>6. Sound(O, n, D, N, R)
  BY <1>1, <1>5 DEF Coherent, Sound, Typed, ReportSound
<1>7. ASSUME NEW id, NEW t, Superseded(O, C, M, R, id, t)
      PROVE  Superseded(O, D, N, R, id, t)
  BY <1>4, <1>7 DEF Superseded, Mentions
<1>8. Quoted(O, D, N, R, T)
  BY <1>1, <1>7 DEF Coherent, Quoted, Working
<1> QED
  BY <1>6, <1>8 DEF Coherent

\* An order of the book R that is gone from the book S, or has shrunk: r says so.
Tells(R, S, r) ==
    /\ r \in Message /\ r.type \in {"Cancelled", "TradeReport"} /\ r.id \in DOMAIN R
    /\ (r.type = "TradeReport" /\ r.remaining # 0) \/ r.id \notin DOMAIN S

\* The book S has no orders but those of R, on their side.
Shrinks(R, S) ==
    /\ S \in [DOMAIN S -> RestingOrder] /\ DOMAIN S \subseteq DOMAIN R
    /\ \A id \in DOMAIN S : S[id].side = R[id].side

\* Orders at the venue trade or are cancelled.
LEMMA Shrunk ==
    ASSUME NEW O, NEW n, NEW C, NEW M, NEW R, NEW T, Coherent(O, n, C, M, R, T),
           NEW S, Shrinks(R, S), NEW D, D \subseteq C,
           NEW N, \A r \in N : r \in M \/ Tells(R, S, r)
    PROVE  Coherent(O, n, D, N, S, T)
<1>0. Created(D) \subseteq Created(C)
  BY CreatedFewer
<1>1. Sound(O, n, C, M, R) /\ BookSound(O, R) /\ Typed(O, n, C, M, R)
  BY DEF Coherent, Sound
<1>2. ASSUME NEW r, Tells(R, S, r)
      PROVE  /\ ReportSound(O, D, S, r)
             /\ \A t \in DOMAIN O \ DOMAIN R : t \notin Mentions(r)
  BY <1>0, <1>1, <1>2, CreatedPending DEF Tells, ReportSound, Mentions, BookSound
<1>3. N \subseteq Message
  BY <1>1 DEF Tells, Typed
<1>4. Typed(O, n, D, N, S)
  BY <1>1, <1>3 DEF Typed, Shrinks
<1>5. \A c \in D : CommandSound(O, S, c)
  BY DEF Coherent, Sound, CommandSound, Shrinks
<1>6. \A r \in N : ReportSound(O, D, S, r)
  BY <1>0, <1>2 DEF Coherent, Sound, ReportSound, Shrinks
<1>7. BookSound(O, S)
  BY <1>1 DEF BookSound, Shrinks
<1>8. ASSUME NEW id, NEW t, Superseded(O, C, M, R, id, t)
      PROVE  Superseded(O, D, N, S, id, t)
  BY <1>2, <1>8 DEF Superseded, Shrinks
<1>9. Quoted(O, D, N, S, T)
  BY <1>0, <1>8 DEF Coherent, Quoted, Working, Shrinks
<1> QED
  BY <1>4, <1>5, <1>6, <1>7, <1>9 DEF Coherent, Sound

\* A report of the arrival of order id, brought by the command m, in the book S.
TellsArrival(m, id, S, r) ==
    \/ r.type = "Accepted" /\ r.id = id
    \/ r.type = "Replaced" /\ r.id = m.id /\ r.new_id = id /\ m.type = "ReplaceOrder"
    \/ r.type = "TradeReport" /\ r.id = id /\ (r.remaining = 0 => id \notin DOMAIN S)

\* The venue lets the order id in, instead of the one m replaces, and it trades: S is R
\* with what is left of it and of the orders it traded with.
LEMMA Arrived ==
    ASSUME NEW O, NEW n, NEW C, NEW M, NEW R, NEW T, Coherent(O, n, C, M, R, T),
           NEW m \in C, NEW id \in Creates(m),
           NEW D, D \subseteq C, Creates(m) \cap Created(D) = {},
           NEW S, S \in [DOMAIN S -> RestingOrder], DOMAIN S \subseteq DOMAIN R \cup {id},
           \A x \in DOMAIN S \ {id} : S[x].side = R[x].side,
           id \in DOMAIN S => S[id].side = O[id].side,
           m.type = "ReplaceOrder" => m.id \notin DOMAIN S,
           NEW N, N \subseteq Message,
           \A r \in N : r \in M \/ Tells(R, S, r) \/ TellsArrival(m, id, S, r)
    PROVE  Coherent(O, n, D, N, S, T)
<1>0. Created(D) \subseteq Created(C) /\ id \notin Created(D) /\ id \in Created(C)
  BY CreatedFewer, CreatedBy
<1>1. Sound(O, n, C, M, R) /\ BookSound(O, R) /\ Typed(O, n, C, M, R) /\ CommandSound(O, R, m)
  BY DEF Coherent, Sound
<1>2. id \in DOMAIN O /\ id \notin DOMAIN R /\ O[id].state = "PendingNew" /\ id \in Nat
  BY <1>0, <1>1, CreatedPending DEF Typed
<1>3. m.type = "ReplaceOrder" =>
         m.id \in DOMAIN O /\ O[m.id].state # "PendingNew" /\ m.id \notin Created(C)
  BY <1>1, CreatedPending DEF CommandSound
<1>4. ASSUME NEW r, Tells(R, S, r)
      PROVE  /\ ReportSound(O, D, S, r)
             /\ \A t \in DOMAIN O \ DOMAIN R : t \notin Mentions(r)
  BY <1>0, <1>1, <1>4, CreatedPending DEF Tells, ReportSound, Mentions, BookSound
<1>5. ASSUME NEW r, TellsArrival(m, id, S, r)
      PROVE  /\ ReportSound(O, D, S, r)
             /\ \A t : t \in Mentions(r) => t = id \/ O[t].state # "PendingNew"
  BY <1>0, <1>2, <1>3, <1>5 DEF TellsArrival, ReportSound, Mentions
<1>6. Typed(O, n, D, N, S)
  BY <1>1, <1>2 DEF Typed
<1>7. \A c \in D : CommandSound(O, S, c)
  <2> TAKE c \in D
  <2>1. CommandSound(O, R, c) /\ id \notin Creates(c)
    BY <1>0, CreatedBy DEF Coherent, Sound
  <2> QED
    BY <2>1 DEF CommandSound
<1>8. \A r \in N : ReportSound(O, D, S, r)
  <2> TAKE r \in N
  <2>1. CASE r \in M
    <3>1. ReportSound(O, C, R, r)
      BY <2>1 DEF Coherent, Sound
    <3>2. id \notin Mentions(r)
      BY <1>0, <3>1 DEF ReportSound
    <3> QED
      BY <1>0, <3>1, <3>2 DEF ReportSound, Mentions
  <2> QED
    BY <1>4, <1>5, <2>1
<1>9. BookSound(O, S)
  BY <1>1, <1>2 DEF BookSound, is_terminal
<1>10. Working(D, S) \subseteq Working(C, R)
  BY <1>0 DEF Working
<1>11. /\ Quoted(O, C, M, R, T) /\ id \in Working(C, R) /\ O[id].side \in Sides
       /\ id = T[O[id].side]
  BY <1>0, <1>1, <1>2, WorkingKnown DEF Coherent, Quoted, Superseded, Working
<1>12. ASSUME NEW x \in Working(D, S), x # T[O[x].side]
       PROVE  Superseded(O, D, N, S, x, T[O[x].side])
  <2>1. Superseded(O, C, M, R, x, T[O[x].side]) /\ O[x].side \in Sides
    BY <1>1, <1>10, <1>11, <1>12, WorkingKnown DEF Quoted
  <2>2. PICK t : t = T[O[x].side]
    OBVIOUS
  <2>3. Superseded(O, C, M, R, x, t)
    BY <2>1, <2>2
  <2>4. CASE t = id
    <3>1. m.type = "ReplaceOrder" /\ m.id = x
      BY <2>3, <2>4 DEF Superseded
    <3>2. x \notin Created(D) /\ x \notin DOMAIN S
      BY <1>0, <1>3, <3>1
    <3> QED
      BY <1>12, <3>2 DEF Working
  <2>5. CASE t # id
    <3>1. t \notin DOMAIN S /\ t \in DOMAIN O \ DOMAIN R /\ O[t].state = "PendingNew"
      BY <2>3, <2>5 DEF Superseded
    <3>2. \A r \in N : t \notin Mentions(r)
      BY <1>4, <1>5, <2>3, <2>5, <3>1 DEF Superseded
    <3>3. Superseded(O, D, N, S, x, t)
      BY <2>3, <3>1, <3>2 DEF Superseded
    <3> QED
      BY <2>2, <3>3
  <2> QED
    BY <2>4, <2>5
<1>13. Quoted(O, D, N, S, T)
  BY <1>10, <1>11, <1>12 DEF Quoted
<1> QED
  BY <1>6, <1>7, <1>8, <1>9, <1>13 DEF Coherent, Sound

\* The order records P are those of O, of the same sides and orders.
SameSides(O, P) ==
    /\ P \in [DOMAIN P -> Order] /\ DOMAIN P = DOMAIN O
    /\ \A id \in DOMAIN O : P[id].side = O[id].side

\* The trader learns of the orders X, which are not on their way any more and do not take
\* the place of another: none of them is pending from now on, and those it calls finished
\* have left the book.
LEMMA Learned ==
    ASSUME NEW O, NEW n, NEW C, NEW M, NEW R, NEW T, Coherent(O, n, C, M, R, T),
           NEW D, D \subseteq C, NEW P, SameSides(O, P),
           NEW X, X \cap Created(D) = {},
           \A t \in X, id \in DOMAIN O : ~Superseded(O, C, M, R, id, t),
           \A id \in DOMAIN O \ X : P[id].state = O[id].state,
           \A id \in X : P[id].state # "PendingNew",
           \A id \in X : is_terminal(P[id]) => id \notin DOMAIN R
    PROVE  Coherent(P, n, D, M, R, T)
<1>0. Created(D) \subseteq Created(C)
  BY CreatedFewer
<1>1. Sound(O, n, C, M, R) /\ BookSound(O, R) /\ Typed(O, n, C, M, R) /\ Quoted(O, C, M, R, T)
  BY DEF Coherent, Sound
<1>2. Typed(P, n, D, M, R)
  BY <1>1 DEF Typed, SameSides
<1>3. \A id \in DOMAIN O : P[id].state = "PendingNew" => O[id].state = "PendingNew"
  OBVIOUS
<1>4. \A id \in Created(D) : P[id].state = O[id].state
  BY <1>0, <1>1, CreatedPending
<1>5. \A c \in D : CommandSound(P, R, c)
  <2> TAKE c \in D
  <2>1. CommandSound(O, R, c) /\ Creates(c) \subseteq Created(D)
    BY CreatedBy DEF Coherent, Sound
  <2>2. c.type = "ReplaceOrder" => c.new_id \in DOMAIN O
    BY <2>1 DEF CommandSound, Creates
  <2> QED
    BY <1>3, <1>4, <2>1, <2>2 DEF CommandSound, SameSides
<1>6. \A m \in M : ReportSound(P, D, R, m)
  <2> TAKE m \in M
  <2>1. ReportSound(O, C, R, m) /\ m.id \in Mentions(m)
    BY DEF Coherent, Sound, Mentions
  <2> QED
    BY <1>0, <1>3, <2>1 DEF ReportSound, SameSides
<1>7. BookSound(P, R)
  BY <1>1 DEF BookSound, SameSides, is_terminal
<1>8. ASSUME NEW id \in DOMAIN O, NEW t, Superseded(O, C, M, R, id, t)
      PROVE  Superseded(P, D, M, R, id, t)
  BY <1>3, <1>8 DEF Superseded, SameSides
<1>9. \A id \in Working(D, R) : id \in Working(C, R) /\ id \in DOMAIN O /\ P[id].side = O[id].side
  BY <1>0, <1>1, WorkingKnown DEF SameSides, Working
<1>10. Quoted(P, D, M, R, T)
  BY <1>1, <1>8, <1>9 DEF Quoted, SameSides
<1> QED
  BY <1>2, <1>5, <1>6, <1>7, <1>10 DEF Coherent, Sound

\* A request on an order is noted, or written off.
LEMMA Noted ==
    ASSUME NEW O, NEW n, NEW C, NEW M, NEW R, NEW T, Coherent(O, n, C, M, R, T),
           NEW P, SameSides(O, P), \A id \in DOMAIN O : P[id].state = O[id].state
    PROVE  Coherent(P, n, C, M, R, T)
<1>1. PICK X : X = {}
  OBVIOUS
<1> QED
  BY <1>1, Learned

\* The command c is lost and its new order is given up (mark_send_failed()).
LEMMA GivenUp ==
    ASSUME NEW O, NEW n, NEW C, NEW M, NEW R, NEW T, Coherent(O, n, C, M, R, T),
           NEW c \in C, c.type = "NewOrder",
           NEW D, D \subseteq C, Creates(c) \cap Created(D) = {},
           NEW P, SameSides(O, P), P[c.id].state = "Rejected",
           \A id \in DOMAIN O \ {c.id} : P[id].state = O[id].state
    PROVE  Coherent(P, n, D, M, R, T)
<1>1. Creates(c) = {c.id} /\ c.id \notin DOMAIN R
  BY DEF Creates, Coherent, Sound, CommandSound
<1>2. \A t \in {c.id}, id \in DOMAIN O : ~Superseded(O, C, M, R, id, t)
  BY <1>1 DEF Superseded
<1>3. PICK X : X = {c.id}
  OBVIOUS
<1>4. /\ X \cap Created(D) = {} /\ \A t \in X, id \in DOMAIN O : ~Superseded(O, C, M, R, id, t)
      /\ \A id \in DOMAIN O \ X : P[id].state = O[id].state
      /\ \A id \in X : P[id].state # "PendingNew"
      /\ \A id \in X : is_terminal(P[id]) => id \notin DOMAIN R
  BY <1>1, <1>2, <1>3
<1> QED
  BY <1>4, Learned

\* The functions T and U of quotes differ only in that the one of side s is now t.
Moves(T, s, t, U) == U[s] = t /\ \A x \in Sides \ {s} : U[x] = T[x]

\* The replacement c is lost and its new order is forgotten (replace_order()): the order
\* it was to replace is the one that counts again.
LEMMA Forgotten ==
    ASSUME NEW O, NEW n, NEW C, NEW M, NEW R, NEW T, Coherent(O, n, C, M, R, T),
           NEW c \in C, c.type = "ReplaceOrder", T[O[c.id].side] = c.new_id,
           NEW D, D \subseteq C, Creates(c) \cap Created(D) = {},
           NEW P, P \in [DOMAIN P -> Order], DOMAIN P = DOMAIN O \ {c.new_id},
           \A id \in DOMAIN P : P[id].side = O[id].side /\ P[id].state = O[id].state,
           NEW U, Moves(T, O[c.id].side, c.id, U)
    PROVE  Coherent(P, n, D, M, R, U)
<1> DEFINE t == c.new_id
           s == O[c.id].side
<1>0. Created(D) \subseteq Created(C) /\ t \notin Created(D) /\ t \in Created(C)
  BY CreatedFewer, CreatedBy DEF Creates
<1>1. /\ Sound(O, n, C, M, R) /\ BookSound(O, R) /\ Typed(O, n, C, M, R) /\ Quoted(O, C, M, R, T)
      /\ CommandSound(O, R, c)
  BY DEF Coherent, Sound
<1>2. /\ t \in DOMAIN O /\ t \notin DOMAIN R /\ O[t].state = "PendingNew" /\ O[t].side = s
      /\ c.id \in DOMAIN P /\ O[c.id].state # "PendingNew" /\ s \in Sides
  BY <1>0, <1>1, CreatedPending DEF CommandSound, Typed, Order
<1>3. Typed(P, n, D, M, R)
  BY <1>1 DEF Typed
<1>4. \A d \in D : CommandSound(P, R, d)
  <2> TAKE d \in D
  <2>1. CommandSound(O, R, d) /\ t \notin Creates(d)
    BY <1>0, CreatedBy DEF Coherent, Sound
  <2>2. d.id # t
    BY <1>2, <2>1 DEF CommandSound, Creates
  <2>3. d.type = "ReplaceOrder" => d.new_id \in DOMAIN P
    BY <2>1 DEF CommandSound, Creates
  <2> QED
    BY <2>1, <2>2, <2>3 DEF CommandSound
<1>5. \A m \in M : ReportSound(P, D, R, m)
  <2> TAKE m \in M
  <2>1. ReportSound(O, C, R, m) /\ m.id \in Mentions(m)
    BY DEF Coherent, Sound, Mentions
  <2> QED
    BY <1>0, <2>1 DEF ReportSound
<1>6. BookSound(P, R)
  BY <1>1, <1>2 DEF BookSound, is_terminal
<1>7. \A id \in Working(D, R) : /\ id \in Working(C, R) /\ id \in DOMAIN P
                                /\ P[id].side = O[id].side /\ O[id].side \in Sides
  <2> TAKE id \in Working(D, R)
  <2>1. id \in Working(C, R) /\ id # t
    BY <1>0, <1>2 DEF Working
  <2> QED
    BY <1>1, <2>1, WorkingKnown
<1>8. ASSUME NEW id \in Working(D, R), id # U[P[id].side]
      PROVE  Superseded(P, D, M, R, id, U[P[id].side]) /\ O[id].side # s
  <2>1. id \in Working(C, R) /\ id \in DOMAIN P /\ P[id].side = O[id].side /\ O[id].side \in Sides
    BY <1>7
  <2>2. id = T[O[id].side] \/ Superseded(O, C, M, R, id, T[O[id].side])
    BY <1>1, <2>1 DEF Quoted
  <2>3. O[id].side # s
    <3> SUFFICES ASSUME O[id].side = s PROVE FALSE
      OBVIOUS
    <3>1. id # t /\ id # c.id
      BY <1>8, <2>1 DEF Moves
    <3>2. Superseded(O, C, M, R, id, t)
      BY <2>2, <3>1
    <3> QED
      BY <3>1, <3>2 DEF Superseded, Creates
  <2>4. PICK u : u = T[O[id].side]
    OBVIOUS
  <2>5. u = U[P[id].side] /\ Superseded(O, C, M, R, id, u)
    BY <1>8, <2>1, <2>2, <2>3, <2>4 DEF Moves
  <2>6. u \in DOMAIN O /\ O[u].side = O[id].side
    <3>1. u \in DOMAIN O /\ u # None
      BY <1>1, <2>5, NoneIsNoId DEF Superseded, Typed
    <3> QED
      BY <1>1, <2>1, <2>4, <3>1 DEF Quoted
  <2>7. u \in DOMAIN P
    BY <1>2, <2>3, <2>6
  <2>8. Superseded(P, D, M, R, id, u)
    BY <2>1, <2>5, <2>7 DEF Superseded
  <2> QED
    BY <2>3, <2>5, <2>8
<1>9. ASSUME NEW x \in Sides, U[x] # None
      PROVE  U[x] \in DOMAIN P /\ P[U[x]].side = x
  <2>1. CASE x = s
    BY <1>2, <2>1 DEF Moves
  <2>2. CASE x # s
    <3>1. U[x] = T[x] /\ U[x] \in DOMAIN O /\ O[U[x]].side = x
      BY <1>1, <1>9, <2>2 DEF Moves, Quoted
    <3> QED
      BY <1>2, <2>2, <3>1
  <2> QED
    BY <2>1, <2>2
<1>10. \A a, b \in Working(D, R) :
          P[a].side = P[b].side /\ a # U[P[a].side] /\ b # U[P[b].side] => a = b
  <2> SUFFICES ASSUME NEW a \in Working(D, R), NEW b \in Working(D, R),
                      P[a].side = P[b].side, a # U[P[a].side], b # U[P[b].side]
               PROVE  a = b
    OBVIOUS
  <2>1. /\ a \in Working(C, R) /\ b \in Working(C, R) /\ O[a].side = O[b].side
        /\ a # T[O[a].side] /\ b # T[O[b].side]
    BY <1>7, <1>8 DEF Moves
  <2> QED
    BY <1>1, <2>1 DEF Quoted
<1>11. Quoted(P, D, M, R, U)
  BY <1>8, <1>9, <1>10 DEF Quoted
<1> QED
  BY <1>3, <1>4, <1>5, <1>6, <1>11 DEF Coherent, Sound

\* P is O with the order n, of side s, just registered.
Registers(O, n, s, P) ==
    /\ P \in [DOMAIN P -> Order] /\ DOMAIN P = DOMAIN O \cup {n}
    /\ P[n].side = s /\ P[n].state = "PendingNew"
    /\ \A id \in DOMAIN O : P[id].side = O[id].side /\ P[id].state = O[id].state

LEMMA RegisteredSound ==
    ASSUME NEW O, NEW n, NEW C, NEW M, NEW R, Sound(O, n, C, M, R),
           NEW s, NEW P, Registers(O, n, s, P),
           NEW c \in Command, Creates(c) = {n}, CommandSound(P, R, c),
           NEW D, D \subseteq C \cup {c}
    PROVE  /\ Sound(P, n + 1, D, M, R)
           /\ n \notin DOMAIN O /\ n \notin DOMAIN R
           /\ \A m \in M : n \notin Mentions(m)
           /\ \A d \in C : n \notin Creates(d)
           /\ Working(D, R) \subseteq Working(C, R) \cup {n}
<1>1. BookSound(O, R) /\ Typed(O, n, C, M, R)
  BY DEF Sound
<1>2. n \notin DOMAIN O /\ n \in Nat
  BY <1>1 DEF Typed
<1>3. n \notin DOMAIN R
  BY <1>1, <1>2 DEF BookSound
<1>4. \A m \in M : n \notin Mentions(m)
  BY <1>2 DEF Sound, ReportSound
<1>5. \A d \in C : n \notin Creates(d)
  BY <1>2 DEF Sound, CommandSound
<1>6. Created(D) \subseteq Created(C) \cup {n}
  BY DEF Created
<1>7. Typed(P, n + 1, D, M, R)
  <2>1. \A id \in DOMAIN P : id < n + 1
    BY <1>1, <1>2 DEF Typed, Registers
  <2> QED
    BY <1>1, <1>2, <2>1 DEF Typed, Registers
<1>8. \A d \in D : CommandSound(P, R, d)
  <2> TAKE d \in D
  <2>1. CASE d = c
    BY <2>1
  <2>2. CASE d \in C
    <3>1. CommandSound(O, R, d)
      BY <2>2 DEF Sound
    <3>2. d.type = "ReplaceOrder" => d.new_id \in DOMAIN O
      BY <3>1 DEF CommandSound, Creates
    <3> QED
      BY <3>1, <3>2 DEF CommandSound, Registers
  <2> QED
    BY <2>1, <2>2
<1>9. \A m \in M : ReportSound(P, D, R, m)
  <2> TAKE m \in M
  <2>1. ReportSound(O, C, R, m) /\ m.id \in Mentions(m)
    BY DEF Sound, Mentions
  <2> QED
    BY <1>4, <1>6, <2>1 DEF ReportSound, Registers
<1>10. BookSound(P, R)
  BY <1>1 DEF BookSound, Registers, is_terminal
<1>11. Working(D, R) \subseteq Working(C, R) \cup {n}
  BY <1>6 DEF Working
<1> QED
  BY <1>2, <1>3, <1>4, <1>5, <1>7, <1>8, <1>9, <1>10, <1>11 DEF Sound

\* A new order for side s, of which none works: it is the one that counts.
LEMMA Submitted ==
    ASSUME NEW O, NEW n, NEW C, NEW M, NEW R, NEW T, Coherent(O, n, C, M, R, T),
           NEW s \in Sides, \A id \in Working(C, R) : O[id].side # s,
           NEW P, Registers(O, n, s, P),
           NEW c \in Command, c.type = "NewOrder", c.id = n, c.side = s,
           NEW D, D \subseteq C \cup {c}, NEW U, Moves(T, s, n, U)
    PROVE  Coherent(P, n + 1, D, M, R, U)
<1>1. Sound(O, n, C, M, R) /\ Quoted(O, C, M, R, T) /\ Typed(O, n, C, M, R) /\ BookSound(O, R)
  BY DEF Coherent, Sound
<1>2. Creates(c) = {n} /\ CommandSound(P, R, c)
  <2>1. n \notin DOMAIN R
    BY <1>1 DEF Typed, BookSound
  <2> QED
    BY <2>1 DEF CommandSound, Creates, Registers
<1>3. /\ Sound(P, n + 1, D, M, R) /\ n \notin DOMAIN O
      /\ Working(D, R) \subseteq Working(C, R) \cup {n}
  BY <1>1, <1>2, RegisteredSound
<1>4. \A x \in Sides : U[x] # None => U[x] \in DOMAIN P /\ P[U[x]].side = x
  BY <1>1 DEF Moves, Quoted, Registers
<1>5. ASSUME NEW id \in Working(D, R), id # U[P[id].side]
      PROVE  /\ id \in Working(C, R) /\ P[id].side = O[id].side /\ id # T[O[id].side]
             /\ Superseded(P, D, M, R, id, U[P[id].side])
  <2>1. id \in Working(C, R)
    BY <1>3, <1>5 DEF Moves, Registers
  <2>2. /\ id \in DOMAIN O /\ P[id].side = O[id].side /\ P[id].state = O[id].state
        /\ O[id].side \in Sides \ {s}
    BY <1>1, <2>1, WorkingKnown DEF Registers
  <2>3. PICK t : t = T[O[id].side]
    OBVIOUS
  <2>4. t = U[P[id].side] /\ Superseded(O, C, M, R, id, t)
    BY <1>1, <1>5, <2>1, <2>2, <2>3 DEF Moves, Quoted
  <2>5. Superseded(P, D, M, R, id, t)
    BY <1>2, <1>3, <2>2, <2>4 DEF Superseded, Registers
  <2> QED
    BY <1>5, <2>1, <2>2, <2>3, <2>4, <2>5
<1>6. Quoted(P, D, M, R, U)
  BY <1>1, <1>4, <1>5 DEF Quoted
<1> QED
  BY <1>3, <1>6 DEF Coherent

\* A replacement of the order p that counts for side s and was accepted: the new one is
\* the one that counts, and p gives way to it.
LEMMA Requoted ==
    ASSUME NEW O, NEW n, NEW C, NEW M, NEW R, NEW T, Coherent(O, n, C, M, R, T),
           NEW p \in DOMAIN O, O[p].state # "PendingNew", T[O[p].side] = p,
           NEW P, Registers(O, n, O[p].side, P),
           NEW c \in Command, c.type = "ReplaceOrder", c.id = p, c.new_id = n,
           NEW D, D \subseteq C \cup {c}, NEW U, Moves(T, O[p].side, n, U)
    PROVE  Coherent(P, n + 1, D, M, R, U)
<1>1. Sound(O, n, C, M, R) /\ Quoted(O, C, M, R, T) /\ Typed(O, n, C, M, R) /\ BookSound(O, R)
  BY DEF Coherent, Sound
<1>2. Creates(c) = {n} /\ CommandSound(P, R, c)
  <2>1. n \notin DOMAIN R /\ n \notin DOMAIN O
    BY <1>1 DEF Typed, BookSound
  <2> QED
    BY <2>1 DEF CommandSound, Creates, Registers
<1>3. /\ Sound(P, n + 1, D, M, R) /\ n \notin DOMAIN O /\ n \notin DOMAIN R
      /\ \A m \in M : n \notin Mentions(m)
      /\ \A d \in C : n \notin Creates(d)
      /\ Working(D, R) \subseteq Working(C, R) \cup {n}
  BY <1>1, <1>2, RegisteredSound
<1>4. \A x \in Sides : U[x] # None => U[x] \in DOMAIN P /\ P[U[x]].side = x
  BY <1>1 DEF Moves, Quoted, Registers
<1>5. ASSUME NEW id \in Working(D, R), id # U[P[id].side]
      PROVE  /\ id \in Working(C, R) /\ P[id].side = O[id].side
             /\ O[id].side = O[p].side => id = p
             /\ O[id].side # O[p].side => id # T[O[id].side]
             /\ Superseded(P, D, M, R, id, U[P[id].side])
  <2>1. id \in Working(C, R)
    BY <1>3, <1>5 DEF Moves, Registers
  <2>2. /\ id \in DOMAIN O /\ P[id].side = O[id].side /\ P[id].state = O[id].state
        /\ O[id].side \in Sides
    BY <1>1, <2>1, WorkingKnown DEF Registers
  <2>3. CASE O[id].side = O[p].side
    <3>1. id = p
      BY <1>1, <2>1, <2>3 DEF Quoted, Superseded
    <3>2. Superseded(P, D, M, R, p, n)
      BY <1>3 DEF Superseded, Registers
    <3>3. U[P[id].side] = n
      BY <2>2, <2>3 DEF Moves
    <3> QED
      BY <2>1, <2>2, <2>3, <3>1, <3>2, <3>3
  <2>4. CASE O[id].side # O[p].side
    <3>1. PICK t : t = T[O[id].side]
      OBVIOUS
    <3>2. t = U[P[id].side] /\ Superseded(O, C, M, R, id, t)
      BY <1>1, <1>5, <2>1, <2>2, <2>4, <3>1 DEF Moves, Quoted
    <3>3. Superseded(P, D, M, R, id, t)
      BY <1>2, <1>3, <2>2, <3>2 DEF Superseded, Registers
    <3> QED
      BY <1>5, <2>1, <2>2, <2>4, <3>1, <3>2, <3>3
  <2> QED
    BY <2>3, <2>4
<1>6. ASSUME NEW a \in Working(D, R), NEW b \in Working(D, R), P[a].side = P[b].side,
             a # U[P[a].side], b # U[P[b].side]
      PROVE  a = b
  <2>1. CASE O[a].side = O[p].side
    BY <1>5, <1>6, <2>1
  <2>2. CASE O[a].side # O[p].side
    BY <1>1, <1>5, <1>6, <2>2 DEF Quoted
  <2> QED
    BY <2>1, <2>2
<1>7. Quoted(P, D, M, R, U)
  BY <1>4, <1>5, <1>6 DEF Quoted
<1> QED
  BY <1>3, <1>7 DEF Coherent

\* A cancel of an order that was accepted.
LEMMA CancelAsked ==
    ASSUME NEW O, NEW n, NEW C, NEW M, NEW R, NEW T, Coherent(O, n, C, M, R, T),
           NEW c \in Command, c.type = "CancelOrder", c.id \in DOMAIN O,
           O[c.id].state # "PendingNew", NEW D, D \subseteq C \cup {c}
    PROVE  Coherent(O, n, D, M, R, T)
<1>1. Creates(c) = {} /\ CommandSound(O, R, c)
  BY DEF Creates, CommandSound
<1>2. Created(D) \subseteq Created(C)
  BY <1>1 DEF Created
<1>3. Sound(O, n, D, M, R)
  BY <1>1, <1>2 DEF Coherent, Sound, Typed, ReportSound
<1>4. Quoted(O, D, M, R, T)
  BY <1>1, <1>2 DEF Coherent, Quoted, Superseded, Working
<1> QED
  BY <1>3, <1>4 DEF Coherent

\* A side without a quote, or with one that is finished, has nothing working.
LEMMA NoneWorking ==
    ASSUME NEW O, NEW n, NEW C, NEW M, NEW R, NEW T, Coherent(O, n, C, M, R, T),
           NEW s \in Sides, T[s] = None \/ is_terminal(O[T[s]])
    PROVE  \A id \in Working(C, R) : O[id].side # s
<1> SUFFICES ASSUME NEW id \in Working(C, R), O[id].side = s PROVE FALSE
  OBVIOUS
<1>1. Sound(O, n, C, M, R) /\ BookSound(O, R) /\ Quoted(O, C, M, R, T) /\ Typed(O, n, C, M, R)
  BY DEF Coherent, Sound
<1>2. id \in DOMAIN O /\ id \in Nat
  BY <1>1, WorkingKnown
<1>3. CASE id = T[s]
  <2>1. is_terminal(O[id])
    BY <1>2, <1>3, NoneIsNoId
  <2> QED
    BY <1>1, <2>1, CreatedPending DEF Working, BookSound, is_terminal
<1>4. CASE id # T[s]
  <2>1. Superseded(O, C, M, R, id, T[s])
    BY <1>1, <1>4 DEF Quoted
  <2>2. T[s] \in Nat /\ O[T[s]].state = "PendingNew"
    BY <1>1, <2>1 DEF Superseded, Typed
  <2> QED
    BY <2>2, NoneIsNoId DEF is_terminal
<1> QED
  BY <1>3, <1>4

\* The strategy drops the quote of such a side.
LEMMA Dropped ==
    ASSUME NEW O, NEW n, NEW C, NEW M, NEW R, NEW T, Coherent(O, n, C, M, R, T),
           NEW s \in Sides, \A id \in Working(C, R) : O[id].side # s,
           NEW U, Moves(T, s, None, U)
    PROVE  Coherent(O, n, C, M, R, U)
<1>1. \A id \in Working(C, R) : U[O[id].side] = T[O[id].side]
  BY WorkingKnown DEF Moves, Coherent
<1>2. Quoted(O, C, M, R, U)
  BY <1>1 DEF Coherent, Quoted, Moves
<1> QED
  BY <1>2 DEF Coherent

-----------------------------------------------------------------------------
(***************************************************************************)
(* What the steps do to the wires and to the venue's book.                 *)
(***************************************************************************)
LEMMA RangeOfTail ==
    ASSUME NEW S, NEW s \in Seq(S), s # << >>
    PROVE  /\ Tail(s) \in Seq(S) /\ Head(s) \in S /\ Head(s) = s[1] /\ 1 \in DOMAIN s
           /\ \A i \in DOMAIN Tail(s) : i + 1 \in DOMAIN s /\ i + 1 # 1 /\ Tail(s)[i] = s[i + 1]
           /\ Head(s) \in Range(s) /\ Range(Tail(s)) \subseteq Range(s)
<1>1. Tail(s) \in Seq(S) /\ Head(s) \in S /\ Head(s) = s[1] /\ 1 \in DOMAIN s
  OBVIOUS
<1>2. \A i \in DOMAIN Tail(s) : i + 1 \in DOMAIN s /\ i + 1 # 1 /\ Tail(s)[i] = s[i + 1]
  OBVIOUS
<1>3. Head(s) \in Range(s)
  BY <1>1 DEF Range
<1>4. Range(Tail(s)) \subseteq Range(s)
  BY <1>2 DEF Range
<1> QED
  BY <1>1, <1>2, <1>3, <1>4

LEMMA RangeOfAppend ==
    ASSUME NEW S, NEW s \in Seq(S), NEW x \in S
    PROVE  /\ Append(s, x) \in Seq(S)
           /\ Range(Append(s, x)) = Range(s) \cup {x}
           /\ \A i \in DOMAIN Append(s, x) :
                 \/ i \in DOMAIN s /\ Append(s, x)[i] = s[i]
                 \/ i = Len(s) + 1 /\ Append(s, x)[i] = x
<1>1. /\ Append(s, x) \in Seq(S) /\ Len(s) \in Nat
      /\ DOMAIN Append(s, x) = 1 .. Len(s) + 1 /\ DOMAIN s = 1 .. Len(s)
      /\ \A i \in 1 .. Len(s) : Append(s, x)[i] = s[i]
      /\ Append(s, x)[Len(s) + 1] = x
  OBVIOUS
<1>2. Range(Append(s, x)) = Range(s) \cup {x}
  BY <1>1 DEF Range
<1> QED
  BY <1>1, <1>2

LEMMA RangeOfConcat ==
    ASSUME NEW S, NEW s \in Seq(S), NEW t \in Seq(S)
    PROVE  s \o t \in Seq(S) /\ \A r \in Range(s \o t) : r \in Range(s) \/ r \in Range(t)
<1>1. /\ s \o t \in Seq(S) /\ Len(s) \in Nat /\ Len(t) \in Nat
      /\ DOMAIN (s \o t) = 1 .. Len(s) + Len(t) /\ DOMAIN s = 1 .. Len(s) /\ DOMAIN t = 1 .. Len(t)
      /\ \A i \in 1 .. Len(s) + Len(t) :
            (s \o t)[i] = IF i <= Len(s) THEN s[i] ELSE t[i - Len(s)]
  OBVIOUS
<1>2. ASSUME NEW i \in 1 .. Len(s) + Len(t)
      PROVE  (s \o t)[i] \in Range(s) \/ (s \o t)[i] \in Range(t)
  <2>1. CASE i <= Len(s)
    BY <1>1, <2>1 DEF Range
  <2>2. CASE ~(i <= Len(s))
    <3>1. i - Len(s) \in DOMAIN t
      BY <1>1, <2>2
    <3> QED
      BY <1>1, <2>2, <3>1 DEF Range
  <2> QED
    BY <2>1, <2>2
<1> QED
  BY <1>1, <1>2 DEF Range

\* The venue takes the next command.
LEMMA Taken ==
    ASSUME WireTyped, CreatedOnce, NEW m, Take(m)
    PROVE  /\ m \in Commands /\ m \in Command
           /\ Commands' \subseteq Commands /\ Creates(m) \cap Created(Commands') = {}
           /\ to_exchange' \in Seq(Command) /\ CreatedOnce'
<1>1. /\ to_exchange \in Seq(Command) /\ to_exchange # << >> /\ m = Head(to_exchange)
      /\ to_exchange' = Tail(to_exchange) /\ call' = call
  BY DEF Take, WireTyped, callerVars
<1>2. /\ to_exchange' \in Seq(Command) /\ m \in Command /\ m = to_exchange[1]
      /\ 1 \in DOMAIN to_exchange /\ m \in Range(to_exchange)
      /\ Range(to_exchange') \subseteq Range(to_exchange)
      /\ \A i \in DOMAIN to_exchange' : /\ i + 1 \in DOMAIN to_exchange /\ i + 1 # 1
                                        /\ to_exchange'[i] = to_exchange[i + 1]
  BY <1>1, RangeOfTail
<1>3. DOMAIN to_exchange' \subseteq Nat
  BY <1>2
<1>4. CreatedOnce'
  BY <1>1, <1>2, <1>3 DEF CreatedOnce
<1>5. Commands' = Range(to_exchange') \cup ({call} \ {None})
  BY <1>1 DEF Commands
<1>6. ASSUME NEW c \in Commands' PROVE Creates(m) \cap Creates(c) = {}
  <2>1. CASE c \in Range(to_exchange')
    <3>1. PICK i \in DOMAIN to_exchange' : c = to_exchange'[i]
      BY <2>1 DEF Range
    <3> QED
      BY <1>2, <3>1 DEF CreatedOnce
  <2>2. CASE c = call /\ call # None
    BY <1>2, <2>2 DEF CreatedOnce
  <2> QED
    BY <1>5, <2>1, <2>2
<1>7. Creates(m) \cap Created(Commands') = {}
  BY <1>6, CreatedBy
<1> QED
  BY <1>2, <1>4, <1>5, <1>7 DEF Commands

LEMMA Reported ==
    ASSUME to_client \in Seq(Message), NEW rs \in Seq(Message), Report(rs)
    PROVE  /\ to_client' \in Seq(Message)
           /\ \A r \in Range(to_client)' : r \in Range(to_client) \/ r \in Range(rs)
<1>1. CASE link
  <2>1. to_client' = to_client \o rs
    BY <1>1 DEF Report
  <2> QED
    BY <2>1, RangeOfConcat
<1>2. CASE ~link
  BY <1>2 DEF Report
<1> QED
  BY <1>1, <1>2

\* One report.
LEMMA ReportedOne ==
    ASSUME to_client \in Seq(Message), NEW r \in Message, Report(<<r>>)
    PROVE  /\ to_client' \in Seq(Message)
           /\ Range(to_client)' \subseteq Range(to_client) \cup {r}
<1>1. PICK rs \in Seq(Message) : rs = <<r>> /\ Range(rs) = {r}
  BY DEF Range
<1> QED
  BY <1>1, Reported

LEMMA MinOfTwo ==
    ASSUME NEW x \in Nat, NEW y \in Nat
    PROVE  Min({x, y}) = IF x <= y THEN x ELSE y
<1>1. PICK m \in {x, y} : \A z \in {x, y} : m <= z
  OBVIOUS
<1>2. Min({x, y}) \in {x, y} /\ \A z \in {x, y} : Min({x, y}) <= z
  BY <1>1, Zenon DEF Min
<1> QED
  BY <1>2

LEMMA RangeOfOne ==
    ASSUME NEW S, NEW x \in S
    PROVE  <<x>> \in Seq(S) /\ Range(<<x>>) = {x}
BY DEF Range

LEMMA RangeOfTwo ==
    ASSUME NEW S, NEW x \in S, NEW y \in S
    PROVE  <<x, y>> \in Seq(S) /\ Range(<<x, y>>) = {x, y}
<1>1. <<x, y>> \in Seq(S) /\ <<x, y>>[1] = x /\ <<x, y>>[2] = y
  OBVIOUS
<1>2. DOMAIN <<x, y>> = {1, 2}
  <2>1. DOMAIN <<x, y>> = 1 .. 2
    OBVIOUS
  <2> QED
    BY <2>1
<1>3. PICK s : s = <<x, y>>
  OBVIOUS
<1>4. DOMAIN s = {1, 2} /\ s[1] = x /\ s[2] = y
  BY <1>1, <1>2, <1>3
<1>5. Range(s) = {x, y}
  BY <1>4 DEF Range
<1> QED
  BY <1>1, <1>3, <1>5

\* What the venue's book R has left of each order.
Left(R) == [id \in Nat |-> IF id \in DOMAIN R THEN R[id].remaining ELSE 0]

\* What match_and_rest() leaves of the orders and what it reports: others fill k of order id,
\* then it trades q with the own order contra.
Crosses(book, id, side, contra, q) ==
    /\ contra \in DOMAIN book /\ contra \in Nat /\ contra # id
    /\ book[contra].side = Opposite(side) /\ book[contra].remaining \in Nat
    /\ q <= book[contra].remaining

Made(book, id, side, price, first, k, left, q, contra, a, b) ==
    /\ left \in Nat /\ q \in Nat /\ left = QuoteSize - k /\ q <= left
    /\ q # 0 => Crosses(book, id, side, contra, q)
    /\ resting' \in [DOMAIN resting' -> RestingOrder]
    /\ DOMAIN resting' \subseteq DOMAIN book \cup {id}
    /\ \A x \in DOMAIN resting' \ {id} : resting'[x].side = book[x].side
    /\ id \in DOMAIN resting' => resting'[id].side = side /\ left # q
    /\ q # 0 /\ q = book[contra].remaining => contra \notin DOMAIN resting'
    /\ venue_position' = venue_position + (IF side = "Buy" THEN k ELSE -k)
    /\ \A x \in Nat : Left(resting')[x] =
          IF x = id THEN left - q
          ELSE IF q # 0 /\ x = contra THEN book[contra].remaining - q ELSE Left(book)[x]
    /\ \A x \in DOMAIN resting' :
          \/ x = id /\ resting'[x].price = price
          \/ x \in DOMAIN book /\ resting'[x].price = book[x].price
    /\ Report(<<first>> \o a \o b)
    /\ \/ k = 0 /\ a = << >>
       \/ k # 0 /\ a = <<Trade(id, k, left)>>
    /\ \/ q = 0 /\ b = << >>
       \/ /\ q # 0
          /\ \E x, y : /\ x = Trade(id, q, left - q)
                       /\ y = Trade(contra, q, book[contra].remaining - q)
                       /\ b = <<x, y>> \/ b = <<y, x>>

LEMMA MatchParts ==
    ASSUME NEW book, book \in [DOMAIN book -> RestingOrder], DOMAIN book \subseteq Nat,
           NEW id \in Nat, id \notin DOMAIN book, NEW side \in Sides, NEW price \in PriceOrNone,
           NEW first \in Message, NEW k \in 0 .. QuoteSize,
           Match(book, id, side, price, first, k)
    PROVE  \E left, q, contra, a, b : Made(book, id, side, price, first, k, left, q, contra, a, b)
<1>1. PICK left \in Nat : left = QuoteSize - k /\ left <= QuoteSize
  BY OmsAssumption
<1>2. PICK own : own = Crossed(book, side, price)
  OBVIOUS
<1>3. PICK contra : contra = IF own = {} THEN None ELSE CHOOSE i \in own : TRUE
  OBVIOUS
<1>4. own # {} => contra \in DOMAIN book /\ book[contra] \in RestingOrder /\ book[contra].remaining \in Nat \ {0}
                  /\ contra \in Nat /\ contra # id /\ book[contra].side = Opposite(side)
  BY <1>2, <1>3 DEF Crossed, RestingOrder
<1>5. PICK q : q = IF own = {} THEN 0 ELSE Min({left, book[contra].remaining})
  OBVIOUS
<1>6. q \in Nat /\ q <= left /\ (q # 0 => own # {} /\ q <= book[contra].remaining)
  <2>1. CASE own = {}
    BY <1>5, <2>1
  <2>2. CASE own # {}
    <3>1. PICK v \in Nat \ {0} : v = book[contra].remaining
      BY <1>4, <2>2
    <3>2. q = IF left <= v THEN left ELSE v
      BY <1>5, <2>2, <3>1, MinOfTwo
    <3> QED
      BY <2>2, <3>1, <3>2
  <2> QED
    BY <2>1, <2>2
<1>7. PICK traded : traded = IF q = 0 THEN book
                             ELSE IF q = book[contra].remaining THEN Without(book, contra)
                             ELSE [book EXCEPT ![contra].remaining = @ - q]
  OBVIOUS
<1>8. /\ traded \in [DOMAIN traded -> RestingOrder] /\ DOMAIN traded \subseteq DOMAIN book
      /\ \A x \in DOMAIN traded : traded[x].side = book[x].side /\ traded[x].price = book[x].price
      /\ q # 0 /\ q = book[contra].remaining => contra \notin DOMAIN traded
      /\ \A x \in Nat : Left(traded)[x] = IF q # 0 /\ x = contra THEN book[contra].remaining - q
                                          ELSE Left(book)[x]
  <2>1. CASE q = 0
    BY <1>7, <2>1
  <2>2. CASE q # 0 /\ q = book[contra].remaining
    <3>1. traded = [x \in DOMAIN book \ {contra} |-> book[x]]
      BY <1>7, <2>2 DEF Without, Restrict
    <3> QED
      BY <1>4, <1>6, <2>2, <3>1 DEF Left
  <2>3. CASE q # 0 /\ q # book[contra].remaining
    <3>1. PICK v \in RestingOrder : v = book[contra]
      BY <1>4, <1>6, <2>3
    <3>2. PICK w \in Nat \ {0} : w = v.remaining - q
      BY <1>4, <1>6, <2>3, <3>1
    <3>3. PICK o : o = [v EXCEPT !.remaining = w]
      OBVIOUS
    <3>4. o \in RestingOrder /\ o.side = v.side /\ o.price = v.price /\ o.remaining = w
      BY <3>1, <3>3 DEF RestingOrder
    <3>5. traded = [book EXCEPT ![contra] = o]
      BY <1>7, <2>3, <3>1, <3>2, <3>3
    <3>6. /\ DOMAIN traded = DOMAIN book /\ traded[contra] = o
          /\ \A x \in DOMAIN book \ {contra} : traded[x] = book[x]
      BY <1>4, <1>6, <2>3, <3>5
    <3>7. traded \in [DOMAIN traded -> RestingOrder]
      BY <1>4, <1>6, <2>3, <3>4, <3>5
    <3> QED
      BY <1>4, <1>6, <2>3, <3>1, <3>2, <3>4, <3>6, <3>7 DEF Left
  <2> QED
    BY <2>1, <2>2, <2>3
<1>9. PICK a : a = IF k = 0 THEN << >> ELSE <<Trade(id, k, left)>>
  OBVIOUS
<1>10. PICK pair : pair = <<Trade(id, q, left - q), Trade(contra, q, book[contra].remaining - q)>>
  OBVIOUS
<1>11. PICK b : b = IF q = 0 THEN << >> ELSE IF side = "Buy" THEN pair ELSE Reverse(pair)
  OBVIOUS
<1>12. /\ Report(<<first>> \o a \o b)
       /\ resting' = IF left = q THEN traded
                     ELSE With(traded, id, [side |-> side, price |-> price,
                                            remaining |-> left - q])
       /\ venue_position' = venue_position + (IF side = "Buy" THEN k ELSE -k)
  BY <1>1, <1>2, <1>3, <1>5, <1>7, <1>9, <1>10, <1>11 DEF Match
<1>13. /\ resting' \in [DOMAIN resting' -> RestingOrder]
       /\ DOMAIN resting' \subseteq DOMAIN traded \cup {id}
       /\ \A x \in DOMAIN resting' \ {id} : resting'[x] = traded[x]
       /\ id \in DOMAIN resting' =>
             resting'[id].side = side /\ resting'[id].price = price /\ left # q
       /\ \A x \in Nat : Left(resting')[x] = IF x = id THEN left - q ELSE Left(traded)[x]
  <2>1. CASE left = q
    BY <1>1, <1>8, <1>12, <2>1 DEF Left
  <2>2. CASE left # q
    <3>1. PICK o : o = [side |-> side, price |-> price, remaining |-> left - q]
      OBVIOUS
    <3>2. o \in RestingOrder /\ o.side = side /\ o.price = price /\ o.remaining = left - q
      BY <1>1, <1>6, <2>2, <3>1 DEF RestingOrder
    <3>3. PICK S : S = resting'
      OBVIOUS
    <3>4. S = [i \in DOMAIN traded \cup {id} |-> IF i = id THEN o ELSE traded[i]]
      BY <1>12, <2>2, <3>1, <3>3 DEF With
    <3>5. /\ DOMAIN S = DOMAIN traded \cup {id} /\ S[id] = o
          /\ \A x \in DOMAIN traded : x # id => S[x] = traded[x]
          /\ S \in [DOMAIN S -> RestingOrder]
      BY <1>8, <3>2, <3>4
    <3>6. \A x \in Nat : Left(S)[x] = IF x = id THEN left - q ELSE Left(traded)[x]
      BY <3>2, <3>5 DEF Left
    <3> QED
      BY <2>2, <3>2, <3>3, <3>5, <3>6
  <2> QED
    BY <2>1, <2>2
<1>14. \/ q = 0 /\ b = << >>
       \/ /\ q # 0
          /\ \E x, y : /\ x = Trade(id, q, left - q)
                       /\ y = Trade(contra, q, book[contra].remaining - q)
                       /\ b = <<x, y>> \/ b = <<y, x>>
  <2>1. PICK x, y : x = Trade(id, q, left - q) /\ y = Trade(contra, q, book[contra].remaining - q)
    OBVIOUS
  <2>2. Reverse(pair) = <<y, x>>
    <3>1. pair = <<x, y>>
      BY <1>10, <2>1
    <3> QED
      BY <3>1 DEF Reverse
  <2> QED
    BY <1>10, <1>11, <2>1, <2>2
<1>15. q # 0 => Crosses(book, id, side, contra, q)
  BY <1>4, <1>6 DEF Crosses
<1>16. /\ DOMAIN resting' \subseteq DOMAIN book \cup {id}
       /\ \A x \in DOMAIN resting' \ {id} :
             resting'[x].side = book[x].side /\ resting'[x].price = book[x].price
       /\ q # 0 /\ q = book[contra].remaining => contra \notin DOMAIN resting'
  BY <1>4, <1>6, <1>8, <1>13
<1>17. \A x \in Nat : Left(resting')[x] =
          IF x = id THEN left - q
          ELSE IF q # 0 /\ x = contra THEN book[contra].remaining - q ELSE Left(book)[x]
  BY <1>8, <1>13
<1>18. \/ k = 0 /\ a = << >>
       \/ k # 0 /\ a = <<Trade(id, k, left)>>
  BY <1>9
<1> QED
  <2>1. Made(book, id, side, price, first, k, left, q, contra, a, b)
    BY <1>1, <1>6, <1>12, <1>13, <1>14, <1>15, <1>16, <1>17, <1>18 DEF Made
  <2> QED
    BY <2>1
\* match_and_rest() of order id on a book without it.
LEMMA Matched ==
    ASSUME to_client \in Seq(Message),
           NEW book, book \in [DOMAIN book -> RestingOrder], DOMAIN book \subseteq Nat,
           NEW id \in Nat, id \notin DOMAIN book, NEW side \in Sides, NEW price \in PriceOrNone,
           NEW first \in Message, NEW k \in 0 .. QuoteSize,
           Match(book, id, side, price, first, k)
    PROVE  /\ resting' \in [DOMAIN resting' -> RestingOrder]
           /\ DOMAIN resting' \subseteq DOMAIN book \cup {id}
           /\ \A x \in DOMAIN resting' \ {id} : resting'[x].side = book[x].side
           /\ id \in DOMAIN resting' => resting'[id].side = side
           /\ to_client' \in Seq(Message)
           /\ \A r \in Range(to_client)' :
                 \/ r \in Range(to_client) \/ r = first
                 \/ r.type = "TradeReport" /\ r.id = id /\ (r.remaining = 0 => id \notin DOMAIN resting')
                 \/ Tells(book, resting', r)
<1>1. PICK left, q, contra, a, b : Made(book, id, side, price, first, k, left, q, contra, a, b)
  BY MatchParts
<1>2. /\ left \in Nat /\ q \in Nat /\ q <= left
      /\ q # 0 => Crosses(book, id, side, contra, q)
      /\ DOMAIN resting' \subseteq DOMAIN book \cup {id}
      /\ id \in DOMAIN resting' => left # q
      /\ q # 0 /\ q = book[contra].remaining => contra \notin DOMAIN resting'
      /\ Report(<<first>> \o a \o b)
  BY <1>1 DEF Made
<1>3. a \in Seq(Message) /\ \A r \in Range(a) : k # 0 /\ r = Trade(id, k, left)
  <2>1. Trade(id, k, left) \in Message
    BY <1>2, OmsAssumption DEF Trade, Message
  <2>2. a = << >> \/ (k # 0 /\ a = <<Trade(id, k, left)>>)
    BY <1>1 DEF Made
  <2>3. CASE a = << >>
    BY <2>3 DEF Range
  <2>4. CASE k # 0 /\ a = <<Trade(id, k, left)>>
    BY <2>1, <2>4, RangeOfOne
  <2> QED
    BY <2>2, <2>3, <2>4
<1>4. /\ b \in Seq(Message)
      /\ \A r \in Range(b) :
            q # 0 /\ r \in {Trade(id, q, left - q), Trade(contra, q, book[contra].remaining - q)}
  <2>1. CASE q = 0
    <3>1. b = << >>
      BY <1>1, <2>1 DEF Made
    <3> QED
      BY <3>1 DEF Range
  <2>2. CASE q # 0
    <3>1. PICK x, y : /\ x = Trade(id, q, left - q)
                      /\ y = Trade(contra, q, book[contra].remaining - q)
                      /\ b = <<x, y>> \/ b = <<y, x>>
      BY <1>1, <2>2 DEF Made
    <3>2. x \in Message /\ y \in Message
      BY <1>2, <2>2, <3>1 DEF Trade, Message, Crosses
    <3>3. b \in Seq(Message) /\ \A r \in Range(b) : r \in {x, y}
      <4>1. <<x, y>> \in Seq(Message) /\ Range(<<x, y>>) = {x, y}
        BY <3>2, RangeOfTwo
      <4>2. <<y, x>> \in Seq(Message) /\ Range(<<y, x>>) = {x, y}
        BY <3>2, RangeOfTwo
      <4> QED
        BY <3>1, <4>1, <4>2
    <3> QED
      BY <2>2, <3>1, <3>3
  <2> QED
    BY <2>1, <2>2
<1>5. PICK rs \in Seq(Message) :
         /\ Report(rs)
         /\ \A r \in Range(rs) : r = first \/ r \in Range(a) \/ r \in Range(b)
  <2>1. PICK f : f = <<first>> /\ f \in Seq(Message) /\ Range(f) = {first}
    BY RangeOfOne
  <2>2. PICK g : g = f \o a
    OBVIOUS
  <2>3. g \in Seq(Message) /\ \A r \in Range(g) : r \in Range(f) \/ r \in Range(a)
    BY <1>3, <2>1, <2>2, RangeOfConcat
  <2>4. g \o b \in Seq(Message) /\ \A r \in Range(g \o b) : r \in Range(g) \/ r \in Range(b)
    BY <1>4, <2>3, RangeOfConcat
  <2>5. Report(g \o b)
    BY <1>2, <2>1, <2>2
  <2> QED
    BY <2>1, <2>3, <2>4, <2>5
<1>6. /\ to_client' \in Seq(Message)
      /\ \A r \in Range(to_client)' :
            r \in Range(to_client) \/ r = first \/ r \in Range(a) \/ r \in Range(b)
  BY <1>5, Reported
<1>7. ASSUME NEW r \in Range(a) \cup Range(b)
      PROVE  \/ /\ r.type = "TradeReport" /\ r.id = id
                /\ r.remaining = 0 => id \notin DOMAIN resting'
             \/ Tells(book, resting', r)
  <2>1. CASE r \in Range(a)
    <3>1. r.type = "TradeReport" /\ r.id = id /\ r.remaining = left
      BY <1>3, <2>1 DEF Trade
    <3> QED
      BY <1>2, <3>1
  <2>2. CASE r \in Range(b) /\ r = Trade(id, q, left - q)
    <3>1. r.type = "TradeReport" /\ r.id = id /\ r.remaining = left - q
      BY <2>2 DEF Trade
    <3> QED
      BY <1>2, <3>1
  <2>3. CASE r \in Range(b) /\ r = Trade(contra, q, book[contra].remaining - q)
    <3>1. /\ r.type = "TradeReport" /\ r.id = contra /\ r.remaining = book[contra].remaining - q
          /\ q # 0 /\ r \in Message
      <4>1. q # 0 /\ r \in Message
        <5>1. PICK i \in DOMAIN b : r = b[i]
          BY <2>3 DEF Range
        <5> QED
          BY <1>4, <2>3, <5>1
      <4> QED
        BY <2>3, <4>1 DEF Trade
    <3>2. r.remaining = 0 => contra \notin DOMAIN resting'
      BY <1>2, <3>1 DEF Crosses
    <3> QED
      BY <1>2, <3>1, <3>2 DEF Tells, Crosses
  <2> QED
    BY <1>4, <2>1, <2>2, <2>3
<1> QED
  BY <1>1, <1>6, <1>7 DEF Made

-----------------------------------------------------------------------------
(***************************************************************************)
(* The venue's steps.                                                      *)
(***************************************************************************)
\* The orders keep their sides and no command is added: the strategy's picture stands.
LEMMA StrategyKept ==
    ASSUME StrategyInv, UNCHANGED mmVars, next_client_order_id' = next_client_order_id,
           DOMAIN orders' = DOMAIN orders,
           \A id \in DOMAIN orders : orders'[id].side = orders[id].side,
           call' = call \/ call' = None
    PROVE  StrategyInv' /\ Top' = Top
<1>1. /\ quote' = quote /\ mm_pc' = mm_pc /\ plan' = plan /\ mid' = mid /\ Side' = Side
      /\ \A id : Known(id)' <=> Known(id)
  BY DEF mmVars, mmLocals, Side, Known
<1>2. Top' = Top
  BY <1>1 DEF Top
<1>3. StrategyInv'
  BY <1>1 DEF StrategyInv
<1> QED
  BY <1>2, <1>3

LEMMA VenueDone ==
    ASSUME WireTyped, StrategyInv, UNCHANGED <<omsVars, callerVars>>, UNCHANGED mmVars,
           to_client' \in Seq(Message), to_exchange' \in Seq(Command), CreatedOnce',
           Coherent(orders, next_client_order_id, Commands', Range(to_client)', resting', Top)
    PROVE  TraderInv'
<1>1. /\ orders' = orders /\ next_client_order_id' = next_client_order_id
      /\ call' = call /\ send_failed' = send_failed
  BY DEF omsVars, callerVars
<1>2. StrategyInv' /\ Top' = Top
  BY <1>1, StrategyKept
<1>3. WireTyped'
  BY <1>1 DEF WireTyped
<1>4. Coherent(orders', next_client_order_id', Commands', Range(to_client)', resting', Top')
  BY <1>1, <1>2
<1> QED
  BY <1>2, <1>3, <1>4 DEF TraderInv

\* The venue takes m and refuses it.
LEMMA RefusalKeeps ==
    ASSUME TraderInv, UNCHANGED mmVars, NEW m, Take(m), Rejected(m.id)
    PROVE  TraderInv'
<1>1. /\ WireTyped /\ CreatedOnce /\ StrategyInv
      /\ Coherent(orders, next_client_order_id, Commands, Range(to_client), resting, Top)
  BY DEF TraderInv
<1>2. /\ m \in Commands /\ m \in Command
      /\ Commands' \subseteq Commands /\ Creates(m) \cap Created(Commands') = {}
      /\ to_exchange' \in Seq(Command) /\ CreatedOnce'
  BY <1>1, Taken
<1>3. UNCHANGED <<omsVars, callerVars>> /\ resting' = resting
  BY DEF Take, Rejected, venueVars
<1>4. PICK r : r = [type |-> "Rejected", id |-> m.id]
  OBVIOUS
<1>5. r \in Message /\ r.type = "Rejected" /\ r.id = m.id /\ Report(<<r>>)
  BY <1>2, <1>4 DEF Message, Command, Rejected
<1>6. to_client' \in Seq(Message) /\ Range(to_client)' \subseteq Range(to_client) \cup {r}
  BY <1>1, <1>5, ReportedOne DEF WireTyped
<1>7. Coherent(orders, next_client_order_id, Commands', Range(to_client)', resting, Top)
  BY <1>1, <1>2, <1>5, <1>6, Refused
<1> QED
  BY <1>1, <1>2, <1>3, <1>6, <1>7, VenueDone

\* The venue takes m and matches its order id, on the book that is left when the order m
\* replaces is out of it.
LEMMA ArrivalKeeps ==
    ASSUME TraderInv, UNCHANGED mmVars, NEW m, Take(m), NEW id \in Creates(m),
           NEW book, book \in [DOMAIN book -> RestingOrder],
           DOMAIN book \subseteq DOMAIN resting,
           \A x \in DOMAIN book : book[x].side = resting[x].side,
           m.type = "ReplaceOrder" => m.id \notin DOMAIN book /\ m.id # id,
           NEW side \in Sides, side = orders[id].side, NEW price \in PriceOrNone,
           NEW first \in Message,
           \A S : TellsArrival(m, id, S, first), NEW k \in 0 .. QuoteSize,
           Match(book, id, side, price, first, k)
    PROVE  TraderInv'
<1>1. /\ WireTyped /\ CreatedOnce /\ StrategyInv /\ to_client \in Seq(Message)
      /\ Coherent(orders, next_client_order_id, Commands, Range(to_client), resting, Top)
  BY DEF TraderInv, WireTyped
<1>2. /\ m \in Commands /\ m \in Command
      /\ Commands' \subseteq Commands /\ Creates(m) \cap Created(Commands') = {}
      /\ to_exchange' \in Seq(Command) /\ CreatedOnce'
  BY <1>1, Taken
<1>3. UNCHANGED <<omsVars, callerVars>>
  BY DEF Take
<1>4. /\ Sound(orders, next_client_order_id, Commands, Range(to_client), resting)
      /\ Typed(orders, next_client_order_id, Commands, Range(to_client), resting)
  BY <1>1 DEF Coherent, Sound
<1>5. id \in DOMAIN orders /\ id \notin DOMAIN resting /\ id \in Nat
  BY <1>2, <1>4, CreatedBy, CreatedPending DEF Typed
<1>6. DOMAIN book \subseteq Nat /\ id \notin DOMAIN book
  BY <1>4, <1>5 DEF Typed
<1>7. /\ resting' \in [DOMAIN resting' -> RestingOrder]
      /\ DOMAIN resting' \subseteq DOMAIN book \cup {id}
      /\ \A x \in DOMAIN resting' \ {id} : resting'[x].side = book[x].side
      /\ id \in DOMAIN resting' => resting'[id].side = side
      /\ to_client' \in Seq(Message)
      /\ \A r \in Range(to_client)' :
            \/ r \in Range(to_client) \/ r = first
            \/ r.type = "TradeReport" /\ r.id = id /\ (r.remaining = 0 => id \notin DOMAIN resting')
            \/ Tells(book, resting', r)
  BY <1>1, <1>5, <1>6, Matched
<1>8. PICK S, N : S = resting' /\ N = Range(to_client)'
  OBVIOUS
<1>9. /\ S \in [DOMAIN S -> RestingOrder] /\ DOMAIN S \subseteq DOMAIN resting \cup {id}
      /\ \A x \in DOMAIN S \ {id} : S[x].side = resting[x].side
      /\ id \in DOMAIN S => S[id].side = orders[id].side
      /\ m.type = "ReplaceOrder" => m.id \notin DOMAIN S
  BY <1>7, <1>8
<1>10. N \subseteq Message
  BY <1>7, <1>8 DEF Range
<1>11. \A r \in N : r \in Range(to_client) \/ Tells(resting, S, r) \/ TellsArrival(m, id, S, r)
  <2> TAKE r \in N
  <2>1. \/ r \in Range(to_client) \/ r = first
        \/ r.type = "TradeReport" /\ r.id = id /\ (r.remaining = 0 => id \notin DOMAIN S)
        \/ Tells(book, S, r)
    BY <1>7, <1>8
  <2>2. Tells(book, S, r) => Tells(resting, S, r)
    BY DEF Tells
  <2>3. r.type = "TradeReport" /\ r.id = id /\ (r.remaining = 0 => id \notin DOMAIN S)
           => TellsArrival(m, id, S, r)
    BY DEF TellsArrival
  <2> QED
    BY <2>1, <2>2, <2>3
<1>12. Coherent(orders, next_client_order_id, Commands', N, S, Top)
  BY <1>1, <1>2, <1>9, <1>10, <1>11, Arrived
<1>13. Coherent(orders, next_client_order_id, Commands', Range(to_client)', resting', Top)
  BY <1>8, <1>12
<1> QED
  BY <1>1, <1>2, <1>3, <1>7, <1>13, VenueDone

LEMMA NewOrderKeeps ==
    ASSUME TraderInv, UNCHANGED mmVars, VenueNewOrder
    PROVE  TraderInv'
<1>1. PICK m \in Range(to_exchange) :
        /\ Take(m) /\ m.type = "NewOrder"
        /\ \/ Rejected(m.id)
           \/ \E k \in 0 .. QuoteSize :
                 Match(resting, m.id, m.side, m.price, [type |-> "Accepted", id |-> m.id], k)
  <2>1. \A S : (IF S = {} THEN {0} ELSE 0 .. QuoteSize) \subseteq 0 .. QuoteSize
    BY OmsAssumption
  <2> QED
    BY <2>1 DEF VenueNewOrder
<1>2. CASE Rejected(m.id)
  BY <1>1, <1>2, RefusalKeeps
<1>3. CASE \E k \in 0 .. QuoteSize :
              Match(resting, m.id, m.side, m.price, [type |-> "Accepted", id |-> m.id], k)
  <2>1. PICK f : f = [type |-> "Accepted", id |-> m.id]
    OBVIOUS
  <2>2. PICK k \in 0 .. QuoteSize : Match(resting, m.id, m.side, m.price, f, k)
    BY <1>3, <2>1
  <2>3. m \in Command /\ m \in Commands
    BY <1>1, Taken DEF TraderInv
  <2>4. /\ m.side \in Sides /\ m.price \in PriceOrNone /\ m.id \in Creates(m) /\ f \in Message
        /\ \A S : TellsArrival(m, m.id, S, f)
    BY <1>1, <2>1, <2>3 DEF Command, Message, Creates, TellsArrival
  <2>5. m.side = orders[m.id].side
    BY <1>1, <2>3 DEF TraderInv, Coherent, Sound, CommandSound
  <2>6. resting \in [DOMAIN resting -> RestingOrder]
    BY DEF TraderInv, Coherent, Sound, Typed
  <2> QED
    BY <1>1, <2>2, <2>4, <2>5, <2>6, ArrivalKeeps
<1> QED
  BY <1>1, <1>2, <1>3

LEMMA ReplaceOrderKeeps ==
    ASSUME TraderInv, UNCHANGED mmVars, VenueReplaceOrder
    PROVE  TraderInv'
<1>1. PICK m \in Range(to_exchange) :
        /\ Take(m) /\ m.type = "ReplaceOrder"
        /\ \/ Rejected(m.id)
           \/ /\ m.id \in DOMAIN resting
              /\ \E k \in 0 .. QuoteSize :
                    Match(Without(resting, m.id), m.new_id, resting[m.id].side, m.price,
                          [type |-> "Replaced", id |-> m.id, new_id |-> m.new_id,
                           price |-> m.price], k)
  <2>1. \A S : (IF S = {} THEN {0} ELSE 0 .. QuoteSize) \subseteq 0 .. QuoteSize
    BY OmsAssumption
  <2> QED
    BY <2>1 DEF VenueReplaceOrder
<1>2. CASE Rejected(m.id)
  BY <1>1, <1>2, RefusalKeeps
<1>3. CASE ~Rejected(m.id)
  <2>1. PICK f : f = [type |-> "Replaced", id |-> m.id, new_id |-> m.new_id, price |-> m.price]
    OBVIOUS
  <2>2. PICK b : b = Without(resting, m.id)
    OBVIOUS
  <2>3. PICK k \in 0 .. QuoteSize : Match(b, m.new_id, resting[m.id].side, m.price, f, k)
    BY <1>1, <1>3, <2>1, <2>2
  <2>4. m \in Command /\ m \in Commands /\ m.id \in DOMAIN resting
    BY <1>1, <1>3, Taken DEF TraderInv
  <2>5. /\ m.price \in PriceOrNone /\ m.new_id \in Creates(m) /\ f \in Message
        /\ \A S : TellsArrival(m, m.new_id, S, f)
    BY <1>1, <2>1, <2>4 DEF Command, Message, Creates, TellsArrival
  <2>6. /\ CommandSound(orders, resting, m) /\ BookSound(orders, resting)
        /\ resting \in [DOMAIN resting -> RestingOrder]
    BY <2>4 DEF TraderInv, Coherent, Sound, Typed
  <2>7. PICK s \in Sides : s = resting[m.id].side
    BY <2>4, <2>6 DEF RestingOrder
  <2>8. s = orders[m.new_id].side /\ m.new_id # m.id
    BY <1>1, <2>4, <2>5, <2>6, <2>7 DEF CommandSound, BookSound
  <2>9. b = [x \in DOMAIN resting \ {m.id} |-> resting[x]]
    BY <2>2 DEF Without, Restrict
  <2>10. /\ b \in [DOMAIN b -> RestingOrder] /\ DOMAIN b \subseteq DOMAIN resting
         /\ \A x \in DOMAIN b : b[x].side = resting[x].side
         /\ m.type = "ReplaceOrder" => m.id \notin DOMAIN b /\ m.id # m.new_id
    BY <2>6, <2>8, <2>9
  <2>11. Match(b, m.new_id, s, m.price, f, k)
    BY <2>3, <2>7
  <2> QED
    BY <1>1, <2>5, <2>8, <2>10, <2>11, ArrivalKeeps
<1> QED
  BY <1>2, <1>3

\* An order r speaks of has left the book, or has traded in part.
LEMMA ShrinkKeeps ==
    ASSUME TraderInv, UNCHANGED mmVars, UNCHANGED <<omsVars, callerVars>>,
           Commands' \subseteq Commands, to_exchange' \in Seq(Command), CreatedOnce',
           Shrinks(resting, resting'),
           NEW r, Tells(resting, resting', r), Report(<<r>>)
    PROVE  TraderInv'
<1>1. /\ WireTyped /\ StrategyInv /\ to_client \in Seq(Message) /\ r \in Message
      /\ Coherent(orders, next_client_order_id, Commands, Range(to_client), resting, Top)
  BY DEF TraderInv, WireTyped, Tells
<1>2. to_client' \in Seq(Message) /\ Range(to_client)' \subseteq Range(to_client) \cup {r}
  BY <1>1, ReportedOne
<1>3. \A x \in Range(to_client)' : x \in Range(to_client) \/ Tells(resting, resting', x)
  BY <1>2
<1>4. Coherent(orders, next_client_order_id, Commands', Range(to_client)', resting', Top)
  BY <1>1, <1>3, Shrunk
<1> QED
  BY <1>1, <1>2, <1>4, VenueDone

LEMMA CancelOrderKeeps ==
    ASSUME TraderInv, UNCHANGED mmVars, VenueCancelOrder
    PROVE  TraderInv'
<1>1. PICK m \in Range(to_exchange) :
        /\ Take(m)
        /\ \/ Rejected(m.id)
           \/ /\ m.id \in DOMAIN resting
              /\ resting' = Without(resting, m.id)
              /\ Report(<<[type |-> "Cancelled", id |-> m.id]>>)
  BY DEF VenueCancelOrder
<1>2. CASE Rejected(m.id)
  BY <1>1, <1>2, RefusalKeeps
<1>3. CASE ~Rejected(m.id)
  <2>1. PICK r : r = [type |-> "Cancelled", id |-> m.id]
    OBVIOUS
  <2>2. /\ Commands' \subseteq Commands /\ to_exchange' \in Seq(Command) /\ CreatedOnce'
        /\ m \in Command
    BY <1>1, Taken DEF TraderInv
  <2>3. UNCHANGED <<omsVars, callerVars>>
    BY <1>1 DEF Take
  <2>4. resting \in [DOMAIN resting -> RestingOrder] /\ DOMAIN resting \subseteq Nat
    BY DEF TraderInv, Coherent, Sound, Typed
  <2>5. resting' = [x \in DOMAIN resting \ {m.id} |-> resting[x]] /\ m.id \in DOMAIN resting
    BY <1>1, <1>3 DEF Without, Restrict
  <2>6. Shrinks(resting, resting') /\ m.id \notin DOMAIN resting' /\ m.id \in Nat
    BY <2>4, <2>5 DEF Shrinks
  <2>7. Tells(resting, resting', r) /\ Report(<<r>>)
    <3>1. r.type = "Cancelled" /\ r.id = m.id /\ r \in Message
      BY <2>1, <2>6 DEF Message
    <3> QED
      BY <1>1, <1>3, <2>1, <2>5, <2>6, <3>1 DEF Tells
  <2> QED
    BY <2>2, <2>3, <2>6, <2>7, ShrinkKeeps
<1> QED
  BY <1>2, <1>3

LEMMA TradeKeeps ==
    ASSUME TraderInv, UNCHANGED mmVars, VenueTrade
    PROVE  TraderInv'
<1>0. PICK id \in DOMAIN resting :
        \E q \in 1 .. resting[id].remaining :
           /\ resting' = IF q = resting[id].remaining THEN Without(resting, id)
                         ELSE [resting EXCEPT ![id].remaining = @ - q]
           /\ Report(<<Trade(id, q, resting[id].remaining - q)>>)
           /\ UNCHANGED <<omsVars, callerVars, to_exchange>>
  BY DEF VenueTrade
<1>1. PICK q \in 1 .. resting[id].remaining :
        /\ resting' = IF q = resting[id].remaining THEN Without(resting, id)
                      ELSE [resting EXCEPT ![id].remaining = @ - q]
        /\ Report(<<Trade(id, q, resting[id].remaining - q)>>)
        /\ UNCHANGED <<omsVars, callerVars, to_exchange>>
  BY <1>0
<1>2. /\ Commands' \subseteq Commands /\ to_exchange' \in Seq(Command) /\ CreatedOnce'
      /\ UNCHANGED <<omsVars, callerVars>>
  BY <1>1 DEF TraderInv, WireTyped, CreatedOnce, Commands, callerVars
<1>3. /\ resting \in [DOMAIN resting -> RestingOrder] /\ DOMAIN resting \subseteq Nat
      /\ id \in Nat /\ resting[id] \in RestingOrder
  BY DEF TraderInv, Coherent, Sound, Typed
<1>4. PICK o \in RestingOrder : o = resting[id]
  BY <1>3
<1>5. PICK left \in Nat : left = o.remaining - q
  BY <1>4 DEF RestingOrder
<1>6. PICK r : r = Trade(id, q, left)
  OBVIOUS
<1>7. r \in Message /\ r.type = "TradeReport" /\ r.id = id /\ r.remaining = left
  BY <1>3, <1>4, <1>5, <1>6 DEF Trade, Message, RestingOrder
<1>8. Shrinks(resting, resting') /\ (left = 0 => id \notin DOMAIN resting')
  <2>1. CASE q = o.remaining
    <3>1. resting' = [x \in DOMAIN resting \ {id} |-> resting[x]]
      BY <1>1, <1>4, <2>1 DEF Without, Restrict
    <3> QED
      BY <1>3, <3>1 DEF Shrinks
  <2>2. CASE q # o.remaining
    <3>1. PICK v : v = [o EXCEPT !.remaining = left]
      OBVIOUS
    <3>2. v \in RestingOrder /\ v.side = o.side /\ left # 0
      BY <1>4, <1>5, <2>2, <3>1 DEF RestingOrder
    <3>3. resting' = [resting EXCEPT ![id] = v]
      BY <1>1, <1>4, <1>5, <2>2, <3>1
    <3> QED
      BY <1>3, <1>4, <3>2, <3>3 DEF Shrinks
  <2> QED
    BY <2>1, <2>2
<1>9. Tells(resting, resting', r) /\ Report(<<r>>)
  BY <1>1, <1>4, <1>5, <1>6, <1>7, <1>8 DEF Tells
<1> QED
  BY <1>2, <1>8, <1>9, ShrinkKeeps

-----------------------------------------------------------------------------
(***************************************************************************)
(* The steps of the trader's threads.                                      *)
(***************************************************************************)
\* P is O with the order id changed to v.
LEMMA OneChanged ==
    ASSUME NEW O, O \in [DOMAIN O -> Order], NEW id \in DOMAIN O,
           NEW v \in Order, v.side = O[id].side
    PROVE  LET P == [O EXCEPT ![id] = v]
           IN  /\ SameSides(O, P) /\ P[id] = v
               /\ \A x \in DOMAIN O \ {id} : P[x] = O[x]
BY DEF SameSides

\* What the reader makes of a report about the orders X.
Hears(O, R, X, P) ==
    /\ SameSides(O, P)
    /\ \A id \in DOMAIN O \ X : P[id].state = O[id].state
    /\ \A id \in X : P[id].state # "PendingNew"
    /\ \A id \in X : is_terminal(P[id]) => id \notin DOMAIN R

LEMMA HandledWell ==
    ASSUME orders \in [DOMAIN orders -> Order], BookSound(orders, resting),
           NEW m \in Message, NEW C, ReportSound(orders, C, resting, m)
    PROVE  Hears(orders, resting, Mentions(m), Handled(m))
<1>0. QuoteSize \in Int
  BY OmsAssumption
<1>1. m.id \in DOMAIN orders /\ Known(m.id) /\ m.id \in Mentions(m)
  BY DEF ReportSound, Mentions, Known
<1>2. PICK o \in Order : o = orders[m.id]
  BY <1>1
<1>3. ASSUME NEW v \in Order, v.side = o.side, v.state # "PendingNew",
             is_terminal(v) => m.id \notin DOMAIN resting,
             Mentions(m) = {m.id}, Handled(m) = [orders EXCEPT ![m.id] = v]
      PROVE  Hears(orders, resting, Mentions(m), Handled(m))
  <2>1. PICK P : P = [orders EXCEPT ![m.id] = v]
    OBVIOUS
  <2>2. /\ SameSides(orders, P) /\ P[m.id] = v
        /\ \A x \in DOMAIN orders \ {m.id} : P[x] = orders[x]
    BY <1>1, <1>2, <1>3, <2>1, OneChanged
  <2>3. Hears(orders, resting, {m.id}, P)
    BY <1>3, <2>2 DEF Hears
  <2> QED
    BY <1>3, <2>1, <2>3
<1>4. CASE m.type = "Accepted"
  <2>1. PICK v : v = [o EXCEPT !.state = "Live", !.remaining = QuoteSize]
    OBVIOUS
  <2>2. v \in Order /\ v.side = o.side /\ v.state = "Live"
    BY <1>0, <2>1 DEF Order
  <2>3. Handled(m) = [orders EXCEPT ![m.id] = v] /\ Mentions(m) = {m.id}
    BY <1>1, <1>2, <1>4, <2>1 DEF Handled, on_accepted, Mentions
  <2> QED
    BY <1>3, <2>2, <2>3 DEF is_terminal
<1>5. CASE m.type = "Rejected"
  <2>1. PICK v : v = [o EXCEPT !.state = IF @ = "PendingNew" THEN "Rejected" ELSE @,
                               !.pending = "None"]
    OBVIOUS
  <2>2. /\ v \in Order /\ v.side = o.side
        /\ v.state = IF o.state = "PendingNew" THEN "Rejected" ELSE o.state
    BY <2>1 DEF Order
  <2>3. Handled(m) = [orders EXCEPT ![m.id] = v] /\ Mentions(m) = {m.id}
    BY <1>1, <1>2, <1>5, <2>1 DEF Handled, on_rejected, Mentions
  <2>4. v.state # "PendingNew" /\ (is_terminal(v) => m.id \notin DOMAIN resting)
    BY <1>2, <1>5, <2>2 DEF is_terminal, ReportSound, BookSound
  <2> QED
    BY <1>3, <2>2, <2>3, <2>4
<1>6. CASE m.type = "Cancelled"
  <2>1. PICK v : v = [o EXCEPT !.state = "Cancelled", !.pending = "None"]
    OBVIOUS
  <2>2. v \in Order /\ v.side = o.side /\ v.state = "Cancelled"
    BY <2>1 DEF Order
  <2>3. Handled(m) = [orders EXCEPT ![m.id] = v] /\ Mentions(m) = {m.id}
    BY <1>1, <1>2, <1>6, <2>1 DEF Handled, on_cancelled, Mentions
  <2>4. m.id \notin DOMAIN resting
    BY <1>6 DEF ReportSound
  <2> QED
    BY <1>3, <2>2, <2>3, <2>4
<1>7. CASE m.type = "TradeReport"
  <2>1. PICK s : s = IF m.remaining = 0 THEN "Filled" ELSE "PartiallyFilled"
    OBVIOUS
  <2>2. PICK v : v = [o EXCEPT !.remaining = m.remaining, !.state = s]
    OBVIOUS
  <2>3. v \in Order /\ v.side = o.side /\ v.state = s
    BY <1>7, <2>1, <2>2 DEF Order, Message
  <2>4. Handled(m) = [orders EXCEPT ![m.id] = v] /\ Mentions(m) = {m.id}
    BY <1>1, <1>2, <1>7, <2>1, <2>2 DEF Handled, on_trade_report, Mentions
  <2>5. v.state # "PendingNew" /\ (is_terminal(v) => m.id \notin DOMAIN resting)
    BY <1>7, <2>1, <2>3 DEF is_terminal, ReportSound
  <2> QED
    BY <1>3, <2>3, <2>4, <2>5
<1>8. CASE m.type = "Replaced"
  <2>1. PICK P : P = Handled(m)
    OBVIOUS
  <2>2. P = [i \in DOMAIN orders |->
               IF i = m.id THEN [orders[i] EXCEPT !.state = "Replaced", !.pending = "None"]
               ELSE IF i = m.new_id
                 THEN [orders[i] EXCEPT !.state = "Live", !.price = m.price, !.remaining = QuoteSize]
               ELSE orders[i]]
    BY <1>1, <1>8, <2>1 DEF Handled, on_replaced
  <2>3. Mentions(m) = {m.id, m.new_id} /\ m.price \in PriceOrNone /\ m.id \notin DOMAIN resting
    BY <1>8 DEF Mentions, Message, ReportSound
  <2>4. ASSUME NEW i \in DOMAIN orders
        PROVE  /\ P[i] \in Order /\ P[i].side = orders[i].side
               /\ i = m.id => P[i].state = "Replaced"
               /\ i # m.id /\ i = m.new_id => P[i].state = "Live"
               /\ i \notin Mentions(m) => P[i].state = orders[i].state
    <3>1. PICK w \in Order : w = orders[i]
      OBVIOUS
    <3>2. P[i] = IF i = m.id THEN [w EXCEPT !.state = "Replaced", !.pending = "None"]
                 ELSE IF i = m.new_id
                   THEN [w EXCEPT !.state = "Live", !.price = m.price, !.remaining = QuoteSize]
                 ELSE w
      BY <2>2, <3>1
    <3>3. CASE i = m.id
      BY <2>3, <3>1, <3>2, <3>3 DEF Order
    <3>4. CASE i # m.id /\ i = m.new_id
      BY <1>0, <2>3, <3>1, <3>2, <3>4 DEF Order
    <3>5. CASE i # m.id /\ i # m.new_id
      BY <3>1, <3>2, <3>5, <2>3 DEF Order
    <3> QED
      BY <3>3, <3>4, <3>5
  <2>5. DOMAIN P = DOMAIN orders /\ P \in [DOMAIN P -> Order]
    BY <2>2, <2>4
  <2>6. Mentions(m) \subseteq DOMAIN orders
    BY DEF ReportSound
  <2>7. Hears(orders, resting, Mentions(m), P)
    BY <2>3, <2>4, <2>5, <2>6 DEF Hears, SameSides, is_terminal
  <2> QED
    BY <2>1, <2>7
<1> QED
  BY <1>4, <1>5, <1>6, <1>7, <1>8 DEF Message

LEMMA HandleKeeps ==
    ASSUME TraderInv, UNCHANGED mmVars, handle_message
    PROVE  TraderInv'
<1>1. /\ WireTyped /\ CreatedOnce /\ StrategyInv /\ to_client \in Seq(Message)
      /\ Coherent(orders, next_client_order_id, Commands, Range(to_client), resting, Top)
  BY DEF TraderInv, WireTyped
<1>2. PICK m : m = Head(to_client)
  OBVIOUS
<1>3. /\ to_client # << >> /\ orders' = Handled(m) /\ to_client' = Tail(to_client)
      /\ UNCHANGED <<next_client_order_id, callerVars, venueVars, to_exchange>>
  BY <1>2 DEF handle_message
<1>4. /\ m \in Message /\ m \in Range(to_client) /\ to_client' \in Seq(Message)
      /\ Range(to_client') \subseteq Range(to_client)
  BY <1>1, <1>2, <1>3, RangeOfTail
<1>5. /\ orders \in [DOMAIN orders -> Order] /\ BookSound(orders, resting)
      /\ ReportSound(orders, Commands, resting, m)
  BY <1>1, <1>4 DEF Coherent, Sound, Typed
<1>6. PICK X, P : X = Mentions(m) /\ P = orders'
  OBVIOUS
<1>7. Hears(orders, resting, X, P)
  BY <1>3, <1>4, <1>5, <1>6, HandledWell
<1>8. X \cap Created(Commands) = {}
  BY <1>5, <1>6 DEF ReportSound
<1>9. \A t \in X, id \in DOMAIN orders :
         ~Superseded(orders, Commands, Range(to_client), resting, id, t)
  BY <1>4, <1>6 DEF Superseded
<1>10. Coherent(P, next_client_order_id, Commands, Range(to_client), resting, Top)
  BY <1>1, <1>7, <1>8, <1>9, Learned DEF Hears
<1>11. Coherent(P, next_client_order_id, Commands, Range(to_client)', resting, Top)
  BY <1>4, <1>10, Fewer
<1>12. StrategyInv' /\ Top' = Top
  <2>1. /\ DOMAIN orders' = DOMAIN orders /\ next_client_order_id' = next_client_order_id
        /\ \A id \in DOMAIN orders : orders'[id].side = orders[id].side /\ call' = call
    BY <1>3, <1>6, <1>7 DEF Hears, SameSides, callerVars
  <2> QED
    BY <1>1, <1>3, <2>1, StrategyKept DEF callerVars
<1>13. WireTyped' /\ CreatedOnce' /\ Commands' = Commands /\ resting' = resting
  BY <1>1, <1>3, <1>4 DEF WireTyped, CreatedOnce, Commands, callerVars, venueVars
<1>14. Coherent(orders', next_client_order_id', Commands', Range(to_client)', resting', Top')
  BY <1>3, <1>6, <1>11, <1>12, <1>13
<1> QED
  BY <1>12, <1>13, <1>14 DEF TraderInv

\* Steps that lose commands or reports, or change none of this.
LEMMA LossKeeps ==
    ASSUME TraderInv, UNCHANGED mmVars, UNCHANGED omsVars, resting' = resting,
           Commands' \subseteq Commands, Range(to_client)' \subseteq Range(to_client),
           WireTyped', CreatedOnce', call' = call \/ call' = None
    PROVE  TraderInv'
<1>1. /\ StrategyInv
      /\ Coherent(orders, next_client_order_id, Commands, Range(to_client), resting, Top)
  BY DEF TraderInv
<1>2. orders' = orders /\ next_client_order_id' = next_client_order_id
  BY DEF omsVars
<1>3. StrategyInv' /\ Top' = Top
  BY <1>1, <1>2, StrategyKept
<1>4. Coherent(orders, next_client_order_id, Commands', Range(to_client)', resting, Top)
  BY <1>1, Fewer
<1>5. Coherent(orders', next_client_order_id', Commands', Range(to_client)', resting', Top')
  BY <1>2, <1>3, <1>4
<1> QED
  BY <1>3, <1>5 DEF TraderInv

LEMMA SendKeeps ==
    ASSUME TraderInv, UNCHANGED mmVars, Send
    PROVE  TraderInv'
<1>1. /\ WireTyped /\ CreatedOnce /\ to_client' = to_client /\ call \in Command /\ call # None
      /\ resting' = resting /\ UNCHANGED omsVars /\ to_exchange \in Seq(Command)
  BY DEF TraderInv, Send, WireTyped, venueVars
<1>2. CASE link
  <2>1. to_exchange' = Append(to_exchange, call) /\ call' = None /\ send_failed' = send_failed
        /\ ~send_failed
    BY <1>2 DEF Send
  <2>2. PICK s : s = to_exchange'
    OBVIOUS
  <2>3. /\ s \in Seq(Command) /\ Range(s) = Range(to_exchange) \cup {call}
        /\ \A i \in DOMAIN s : \/ i \in DOMAIN to_exchange /\ s[i] = to_exchange[i]
                               \/ i = Len(to_exchange) + 1 /\ s[i] = call
    BY <1>1, <2>1, <2>2, RangeOfAppend
  <2>4. WireTyped'
    BY <1>1, <2>1, <2>2, <2>3 DEF WireTyped
  <2>5. CreatedOnce'
    <3>1. \A i, j \in DOMAIN s : i # j => Creates(s[i]) \cap Creates(s[j]) = {}
      BY <1>1, <2>3 DEF CreatedOnce
    <3> QED
      BY <2>1, <2>2, <3>1 DEF CreatedOnce
  <2>6. Commands' \subseteq Commands
    BY <1>1, <2>1, <2>2, <2>3 DEF Commands
  <2> QED
    BY <1>1, <2>1, <2>4, <2>5, <2>6, LossKeeps
<1>3. CASE ~link
  <2>1. /\ to_exchange' = to_exchange
        /\ \/ call' = None /\ send_failed' = send_failed /\ ~send_failed
           \/ call' = call /\ send_failed' = TRUE
    BY <1>3 DEF Send
  <2>2. WireTyped' /\ CreatedOnce'
    <3>1. /\ to_exchange' \in Seq(Command) /\ to_client' \in Seq(Message)
          /\ call' \in Command \cup {None}
      BY <1>1, <2>1 DEF WireTyped
    <3>2. send_failed' \in BOOLEAN /\ (send_failed' => call' # None)
      <4>1. CASE call' = None /\ send_failed' = send_failed /\ ~send_failed
        BY <1>1, <4>1, Zenon DEF WireTyped
      <4>2. CASE call' = call /\ send_failed' = TRUE
        BY <1>1, <4>2, Zenon
      <4> QED
        BY <2>1, <4>1, <4>2
    <3>3. CreatedOnce'
      BY <1>1, <2>1 DEF CreatedOnce
    <3> QED
      BY <3>1, <3>2, <3>3, Zenon DEF WireTyped
  <2>3. Commands' \subseteq Commands
    BY <2>1 DEF Commands
  <2> QED
    BY <1>1, <2>1, <2>2, <2>3, LossKeeps
<1> QED
  BY <1>2, <1>3

LEMMA QuietKeeps ==
    ASSUME TraderInv, UNCHANGED mmVars, Settle \/ ReaderExit \/ LinkLost
    PROVE  TraderInv'
<1>1. /\ UNCHANGED omsVars /\ resting' = resting /\ call' = call /\ send_failed' = send_failed
      /\ to_exchange' = to_exchange /\ (to_client' = to_client \/ to_client' = << >>)
  BY DEF Settle, ReaderExit, LinkLost, callerVars, venueVars, wireVars
<1>2. WireTyped' /\ CreatedOnce'
  <2>1. to_client' \in Seq(Message)
    <3>1. to_client \in Seq(Message) /\ << >> \in Seq(Message)
      BY DEF TraderInv, WireTyped
    <3> QED
      BY <1>1, <3>1, Zenon
  <2>2. CreatedOnce'
    BY <1>1 DEF TraderInv, CreatedOnce
  <2> QED
    BY <1>1, <2>1, <2>2, Zenon DEF TraderInv, WireTyped
<1>3. Commands' \subseteq Commands /\ Range(to_client)' \subseteq Range(to_client)
  BY <1>1 DEF Commands, Range
<1> QED
  BY <1>1, <1>2, <1>3, LossKeeps

\* A command the matching queue refuses, and a report the gateway drops.
LEMMA DropKeeps ==
    ASSUME TraderInv, UNCHANGED mmVars, CommandRefused \/ ReportDropped
    PROVE  TraderInv'
<1>1. /\ UNCHANGED omsVars /\ resting' = resting /\ call' = call /\ send_failed' = send_failed
  BY DEF CommandRefused, ReportDropped, callerVars, venueVars
<1>2. WireTyped /\ CreatedOnce /\ to_exchange \in Seq(Command) /\ to_client \in Seq(Message)
  BY DEF TraderInv, WireTyped
<1>3. CASE CommandRefused
  <2>1. to_exchange # << >> /\ to_exchange' = Tail(to_exchange) /\ to_client' = to_client
    BY <1>3 DEF CommandRefused
  <2>2. /\ to_exchange' \in Seq(Command) /\ Range(to_exchange') \subseteq Range(to_exchange)
        /\ \A i \in DOMAIN to_exchange' : i + 1 \in DOMAIN to_exchange
                                          /\ to_exchange'[i] = to_exchange[i + 1]
    BY <1>2, <2>1, RangeOfTail
  <2>3. DOMAIN to_exchange' \subseteq Nat
    BY <2>2
  <2>4. CreatedOnce'
    BY <1>1, <1>2, <2>2, <2>3 DEF CreatedOnce
  <2>5. WireTyped'
    BY <1>1, <1>2, <2>1, <2>2, Zenon DEF WireTyped
  <2>6. Commands' \subseteq Commands
    BY <1>1, <2>2 DEF Commands
  <2> QED
    BY <1>1, <2>1, <2>4, <2>5, <2>6, LossKeeps
<1>4. CASE ReportDropped
  <2>1. to_client # << >> /\ to_client' = Tail(to_client) /\ to_exchange' = to_exchange
    BY <1>4 DEF ReportDropped
  <2>2. to_client' \in Seq(Message) /\ Range(to_client') \subseteq Range(to_client)
    BY <1>2, <2>1, RangeOfTail
  <2>3. WireTyped' /\ CreatedOnce' /\ Commands' = Commands
    <3>1. WireTyped'
      BY <1>1, <1>2, <2>1, <2>2, Zenon DEF WireTyped
    <3>2. CreatedOnce' /\ Commands' = Commands
      BY <1>1, <1>2, <2>1 DEF CreatedOnce, Commands
    <3> QED
      BY <3>1, <3>2
  <2> QED
    BY <1>1, <2>2, <2>3, LossKeeps
<1> QED
  BY <1>3, <1>4

LEMMA CleanUpKeeps ==
    ASSUME TraderInv, UNCHANGED mmVars, CleanUp
    PROVE  TraderInv'
<1>1. /\ WireTyped /\ CreatedOnce /\ StrategyInv
      /\ Coherent(orders, next_client_order_id, Commands, Range(to_client), resting, Top)
  BY DEF TraderInv
<1>2. /\ orders' = FailedSend /\ call' = None /\ send_failed' = FALSE
      /\ next_client_order_id' = next_client_order_id
      /\ resting' = resting /\ to_exchange' = to_exchange /\ to_client' = to_client
  BY DEF CleanUp, venueVars, wireVars
<1>3. call # None /\ call \in Command /\ call \in Commands
  BY <1>1 DEF CleanUp, WireTyped, Commands
<1>4. Commands' = Range(to_exchange) /\ Commands' \subseteq Commands
  BY <1>2 DEF Commands
<1>5. Creates(call) \cap Created(Commands') = {}
  <2>1. \A c \in Commands' : Creates(call) \cap Creates(c) = {}
    BY <1>1, <1>3, <1>4 DEF CreatedOnce, Range
  <2> QED
    BY <2>1, CreatedBy
<1>6. WireTyped' /\ CreatedOnce'
  <2>1. CreatedOnce'
    BY <1>1, <1>2 DEF CreatedOnce
  <2> QED
    BY <1>1, <1>2, <2>1, Zenon DEF WireTyped
<1>7. /\ orders \in [DOMAIN orders -> Order] /\ CommandSound(orders, resting, call)
      /\ call.id \in DOMAIN orders
  BY <1>1, <1>3 DEF Coherent, Sound, Typed, CommandSound
<1>8. PICK o \in Order : o = orders[call.id]
  BY <1>7
<1>9. PICK P : P = orders'
  OBVIOUS
<1>10. CASE call.type = "NewOrder"
  <2>1. PICK v : v = [o EXCEPT !.state = "Rejected", !.pending = "None"]
    OBVIOUS
  <2>2. v \in Order /\ v.side = o.side /\ v.state = "Rejected"
    BY <2>1 DEF Order
  <2>3. P = [orders EXCEPT ![call.id] = v]
    BY <1>2, <1>8, <1>9, <1>10, <2>1 DEF FailedSend
  <2>4. /\ SameSides(orders, P) /\ P[call.id].state = "Rejected"
        /\ \A x \in DOMAIN orders \ {call.id} : P[x].state = orders[x].state
    BY <1>7, <1>8, <2>2, <2>3, OneChanged
  <2>5. Coherent(P, next_client_order_id, Commands', Range(to_client), resting, Top)
    BY <1>1, <1>3, <1>4, <1>5, <1>10, <2>4, GivenUp
  <2>6. StrategyInv' /\ Top' = Top
    BY <1>1, <1>2, <1>9, <2>4, StrategyKept DEF SameSides
  <2>7. Coherent(orders', next_client_order_id', Commands', Range(to_client)', resting', Top')
    BY <1>2, <1>9, <2>5, <2>6
  <2> QED
    BY <1>6, <2>6, <2>7 DEF TraderInv
<1>11. CASE call.type = "CancelOrder"
  <2>1. PICK v : v = [o EXCEPT !.pending = "None"]
    OBVIOUS
  <2>2. v \in Order /\ v.side = o.side /\ v.state = o.state
    BY <2>1 DEF Order
  <2>3. P = [orders EXCEPT ![call.id] = v]
    BY <1>2, <1>8, <1>9, <1>11, <2>1 DEF FailedSend
  <2>4. /\ SameSides(orders, P) /\ P[call.id] = v
        /\ \A x \in DOMAIN orders \ {call.id} : P[x] = orders[x]
    BY <1>7, <1>8, <2>2, <2>3, OneChanged
  <2>5. \A x \in DOMAIN orders : P[x].state = orders[x].state
    BY <1>8, <2>2, <2>4
  <2>6. Coherent(P, next_client_order_id, Commands, Range(to_client), resting, Top)
    BY <1>1, <2>4, <2>5, Noted
  <2>7. Coherent(P, next_client_order_id, Commands', Range(to_client), resting, Top)
    BY <1>4, <2>6, Fewer
  <2>8. StrategyInv' /\ Top' = Top
    BY <1>1, <1>2, <1>9, <2>4, StrategyKept DEF SameSides
  <2>9. Coherent(orders', next_client_order_id', Commands', Range(to_client)', resting', Top')
    BY <1>2, <1>9, <2>7, <2>8
  <2> QED
    BY <1>6, <2>8, <2>9 DEF TraderInv
<1>12. CASE call.type = "ReplaceOrder"
  <2>1. /\ mm_pc = "replacing" /\ call.new_id = next_client_order_id - 1 /\ call.id = quote[Side]
        /\ Side \in Sides
    BY <1>1, <1>3, <1>12 DEF StrategyInv, Side
  <2>2. /\ call.new_id \in DOMAIN orders /\ call.new_id # call.id
        /\ call.id # None /\ orders[call.id].side = Side
    <3>1. call.new_id \in DOMAIN orders /\ orders[call.new_id].state = "PendingNew"
          /\ orders[call.id].state # "PendingNew"
      BY <1>7, <1>12 DEF CommandSound, Creates
    <3>2. call.id # None
      BY <1>3, <1>12, NoneIsNoId DEF Command
    <3> QED
      BY <1>1, <2>1, <3>1, <3>2 DEF StrategyInv
  <2>3. PICK v : v = [o EXCEPT !.pending = "None"]
    OBVIOUS
  <2>4. v \in Order /\ v.side = o.side /\ v.state = o.state
    BY <2>3 DEF Order
  <2>5. P = [[x \in DOMAIN orders \ {call.new_id} |-> orders[x]] EXCEPT ![call.id] = v]
    <3>1. PICK Q : Q = [x \in DOMAIN orders \ {call.new_id} |-> orders[x]]
      OBVIOUS
    <3>2. Q = Without(orders, call.new_id)
      BY <3>1 DEF Without, Restrict
    <3>3. Q[call.id] = o
      BY <1>7, <1>8, <2>2, <3>1
    <3>4. P = [Q EXCEPT ![call.id].pending = "None"]
      BY <1>2, <1>9, <1>12, <3>2 DEF FailedSend
    <3>5. P = [Q EXCEPT ![call.id] = v]
      BY <2>3, <3>3, <3>4
    <3> QED
      BY <3>1, <3>5
  <2>6. /\ P \in [DOMAIN P -> Order] /\ DOMAIN P = DOMAIN orders \ {call.new_id}
        /\ \A id \in DOMAIN P : P[id].side = orders[id].side /\ P[id].state = orders[id].state
    BY <1>7, <1>8, <2>2, <2>4, <2>5
  <2>7. /\ quote' = quote /\ mm_pc' = mm_pc /\ plan' = plan /\ mid' = mid /\ Side' = Side
    BY DEF mmVars, mmLocals, Side
  <2>8. Top[Side] = call.new_id
    BY <2>1, <2>2 DEF Top, Known
  <2>9. Top' = quote
    BY <1>1, <1>2, <1>9, <2>1, <2>6, <2>7 DEF Top, Known, StrategyInv
  <2>10. \A x \in Sides \ {Side} : Top[x] = quote[x]
    BY DEF Top
  <2>11. Moves(Top, orders[call.id].side, call.id, quote)
    BY <2>1, <2>2, <2>10 DEF Moves
  <2>12. Coherent(P, next_client_order_id, Commands', Range(to_client), resting, quote)
    BY <1>1, <1>3, <1>4, <1>5, <1>12, <2>2, <2>6, <2>8, <2>11, Forgotten
  <2>13. Coherent(orders', next_client_order_id', Commands', Range(to_client)', resting', Top')
    BY <1>2, <1>9, <2>9, <2>12
  <2>14. StrategyInv'
    <3>1. ASSUME NEW s \in Sides, quote[s] # None
          PROVE  quote[s] \in DOMAIN P /\ P[quote[s]].side = s
      BY <1>1, <2>1, <2>6, <3>1 DEF StrategyInv
    <3>2. \A s \in Sides : quote'[s] # None => quote'[s] \in DOMAIN orders' /\ orders'[quote'[s]].side = s
      BY <1>9, <2>7, <3>1
    <3> QED
      BY <1>1, <1>2, <2>7, <3>2 DEF StrategyInv
  <2> QED
    BY <1>6, <2>13, <2>14 DEF TraderInv
<1> QED
  BY <1>3, <1>10, <1>11, <1>12 DEF Command

-----------------------------------------------------------------------------
(***************************************************************************)
(* The strategy's steps.                                                   *)
(***************************************************************************)
LEMMA TopIsQuote ==
    ASSUME quote \in [Sides -> Nat \cup {None}], mm_pc # "replacing"
    PROVE  Top = quote
BY DEF Top

LEMMA TopIsQuoteNext ==
    ASSUME quote' \in [Sides -> Nat \cup {None}], mm_pc' # "replacing"
    PROVE  Top' = quote'
BY DEF Top

\* A step of the strategy that calls nothing.
LEMMA ThinkingKeeps ==
    ASSUME TraderInv, UNCHANGED omVars, StrategyInv', mm_pc' # "replacing",
           Coherent(orders, next_client_order_id, Commands, Range(to_client), resting, quote')
    PROVE  TraderInv'
<1>1. /\ orders' = orders /\ next_client_order_id' = next_client_order_id /\ call' = call
      /\ send_failed' = send_failed /\ to_exchange' = to_exchange /\ to_client' = to_client
      /\ resting' = resting
  BY DEF omVars, omsVars, callerVars, wireVars, venueVars
<1>2. Top' = quote'
  BY TopIsQuoteNext DEF StrategyInv
<1>3. WireTyped' /\ CreatedOnce' /\ Commands' = Commands
  <2>1. CreatedOnce' /\ Commands' = Commands
    BY <1>1 DEF TraderInv, CreatedOnce, Commands
  <2> QED
    BY <1>1, <2>1, Zenon DEF TraderInv, WireTyped
<1>4. Coherent(orders', next_client_order_id', Commands', Range(to_client)', resting', Top')
  BY <1>1, <1>2, <1>3
<1> QED
  BY <1>3, <1>4 DEF TraderInv

\* What a step of the strategy relies on when it is not in replace_order().
LEMMA Thinking ==
    ASSUME TraderInv, mm_pc # "replacing"
    PROVE  /\ WireTyped /\ CreatedOnce /\ StrategyInv /\ Top = quote
           /\ Coherent(orders, next_client_order_id, Commands, Range(to_client), resting, quote)
           /\ ~(call # None /\ call.type = "ReplaceOrder")
<1>1. Top = quote
  BY TopIsQuote DEF TraderInv, StrategyInv
<1> QED
  BY <1>1 DEF TraderInv, StrategyInv

\* update_side() is done with a side.
LEMMA NextSidePlan ==
    ASSUME StrategyInv, NextSide, plan # << >>
    PROVE  /\ mm_pc' \in {"idle", "update"} /\ plan' \in Seq(Sides) /\ mid' = mid
           /\ mm_pc' = "update" => plan' # << >>
BY DEF NextSide, StrategyInv

LEMMA LookKeeps ==
    ASSUME TraderInv, on_book_update \/ LookAtAsk \/ LookAtBid
    PROVE  TraderInv'
<1>1. /\ UNCHANGED omVars /\ quote' = quote /\ mm_pc # "replacing"
      /\ mm_pc' \in {"ask", "bid", "update"} /\ mid' \in Nat /\ plan' \in Seq(Sides)
      /\ mm_pc' = "update" => plan' # << >>
  <2>1. CASE on_book_update
    BY <2>1, MarketMakerAssumption DEF on_book_update, TraderInv, StrategyInv
  <2>2. CASE LookAtAsk
    BY <2>2 DEF LookAtAsk, TraderInv, StrategyInv
  <2>3. CASE LookAtBid
    <3>1. plan' = <<"Sell", "Buy">> \/ plan' = <<"Buy", "Sell">>
      BY <2>3 DEF LookAtBid
    <3>2. plan' \in Seq(Sides) /\ plan' # << >>
      <4>1. \A x, y \in Sides : <<x, y>> \in Seq(Sides) /\ <<x, y>> # << >>
        OBVIOUS
      <4>2. "Sell" \in Sides /\ "Buy" \in Sides
        BY DEF Sides
      <4>3. /\ <<"Sell", "Buy">> \in Seq(Sides) /\ <<"Sell", "Buy">> # << >>
            /\ <<"Buy", "Sell">> \in Seq(Sides) /\ <<"Buy", "Sell">> # << >>
        BY <4>1, <4>2
      <4> QED
        BY <3>1, <4>3, Zenon
    <3> QED
      BY <2>3, <3>2 DEF LookAtBid, TraderInv, StrategyInv
  <2> QED
    BY <2>1, <2>2, <2>3
<1>2. /\ StrategyInv
      /\ Coherent(orders, next_client_order_id, Commands, Range(to_client), resting, quote')
      /\ ~(call # None /\ call.type = "ReplaceOrder")
  BY <1>1, Thinking
<1>3. StrategyInv'
  <2>1. orders' = orders /\ call' = call /\ next_client_order_id' = next_client_order_id
    BY <1>1 DEF omVars, omsVars, callerVars
  <2> QED
    BY <1>1, <1>2, <2>1 DEF StrategyInv
<1> QED
  BY <1>1, <1>2, <1>3, ThinkingKeeps

LEMMA DecideKeeps ==
    ASSUME TraderInv, Decide
    PROVE  TraderInv'
<1>1. mm_pc = "update" /\ UNCHANGED omVars /\ call = None
  BY DEF Decide
<1>2. /\ StrategyInv /\ plan # << >> /\ Side \in Sides
      /\ Coherent(orders, next_client_order_id, Commands, Range(to_client), resting, quote)
      /\ ~(call # None /\ call.type = "ReplaceOrder")
  BY <1>1, Thinking DEF StrategyInv, Side
<1>3. orders' = orders /\ call' = call /\ next_client_order_id' = next_client_order_id
  BY <1>1 DEF omVars, omsVars, callerVars
<1>4. CASE Decision = "submit" /\ quote' = [quote EXCEPT ![Side] = None]
  <2>1. quote[Side] = None \/ is_terminal(orders[quote[Side]])
    <3>1. Standing(Side) = {}
      BY <1>4 DEF Decision
    <3> QED
      BY <1>2, <3>1 DEF Standing, StrategyInv, Known
  <2>2. \A id \in Working(Commands, resting) : orders[id].side # Side
    BY <1>2, <2>1, NoneWorking
  <2>3. PICK s, U : s \in Sides /\ s = Side /\ U = quote'
    BY <1>2
  <2>4. Moves(quote, s, None, U) /\ U \in [Sides -> Nat \cup {None}]
        /\ \A x \in Sides : U[x] # None => U[x] = quote[x]
    BY <1>2, <1>4, <2>3 DEF Moves, StrategyInv
  <2>5. Coherent(orders, next_client_order_id, Commands, Range(to_client), resting, U)
    BY <1>2, <2>2, <2>3, <2>4, Dropped
  <2>6. /\ quote' \in [Sides -> Nat \cup {None}] /\ quote'[Side] = None
        /\ \A x \in Sides : quote'[x] # None => quote'[x] \in DOMAIN orders /\ orders[quote'[x]].side = x
    BY <1>2, <2>3, <2>4 DEF StrategyInv, Moves
  <2>7. CASE mm_pc' = "submit" /\ mid' = mid /\ plan' = plan
    <3>1. StrategyInv'
      BY <1>1, <1>2, <1>3, <2>6, <2>7 DEF StrategyInv, Side
    <3> QED
      BY <1>1, <2>3, <2>5, <2>7, <3>1, ThinkingKeeps
  <2>8. CASE NextSide
    <3>1. StrategyInv'
      BY <1>1, <1>2, <1>3, <2>6, <2>8, NextSidePlan DEF StrategyInv
    <3>2. mm_pc' # "replacing"
      BY <1>2, <2>8, NextSidePlan
    <3> QED
      BY <1>1, <2>3, <2>5, <3>1, <3>2, ThinkingKeeps
  <2> QED
    BY <1>4, <2>7, <2>8 DEF Decide
<1>5. CASE Decision \in {"cancel", "replace"} /\ quote' = quote
  <2>1. mm_pc' \in {"cancel", "replace"} /\ mid' = mid /\ plan' = plan
    BY <1>5 DEF Decide
  <2>2. StrategyInv'
    BY <1>1, <1>2, <1>3, <1>5, <2>1 DEF StrategyInv
  <2> QED
    BY <1>1, <1>2, <1>5, <2>1, <2>2, ThinkingKeeps
<1>6. CASE Decision = "return" /\ NextSide /\ quote' = quote
  <2>1. StrategyInv'
    BY <1>1, <1>2, <1>3, <1>6, NextSidePlan DEF StrategyInv
  <2>2. mm_pc' # "replacing"
    BY <1>2, <1>6, NextSidePlan
  <2> QED
    BY <1>1, <1>2, <1>6, <2>1, <2>2, ThinkingKeeps
<1> QED
  BY <1>4, <1>5, <1>6 DEF Decide

LEMMA ReplacedKeeps ==
    ASSUME TraderInv, Replaced
    PROVE  TraderInv'
<1>1. /\ mm_pc = "replacing" /\ call = None /\ NextSide /\ UNCHANGED omVars
      /\ quote' = [quote EXCEPT ![Side] =
                     IF Known(next_client_order_id - 1) THEN next_client_order_id - 1 ELSE @]
  BY DEF Replaced
<1>2. /\ StrategyInv /\ plan # << >> /\ Side \in Sides
      /\ Coherent(orders, next_client_order_id, Commands, Range(to_client), resting, Top)
  BY <1>1 DEF TraderInv, StrategyInv, Side
<1>3. quote' = Top
  BY <1>1, <1>2 DEF Top, StrategyInv
<1>4. \A s \in Sides : Top[s] # None => Top[s] \in DOMAIN orders /\ orders[Top[s]].side = s
  BY <1>2 DEF Coherent, Quoted
<1>5. DOMAIN orders \subseteq Nat
  BY <1>2 DEF Coherent, Sound, Typed
<1>6. Top \in [Sides -> Nat \cup {None}]
  <2>1. Top \in [Sides -> {Top[s] : s \in Sides}]
    BY DEF Top
  <2> QED
    BY <1>4, <1>5, <2>1
<1>7. orders' = orders /\ call' = call /\ next_client_order_id' = next_client_order_id
  BY <1>1 DEF omVars, omsVars, callerVars
<1>8. PICK T : T = Top
  OBVIOUS
<1>9. /\ quote' = T /\ T \in [Sides -> Nat \cup {None}]
      /\ \A s \in Sides : T[s] # None => T[s] \in DOMAIN orders /\ orders[T[s]].side = s
  BY <1>3, <1>4, <1>6, <1>8
<1>10. StrategyInv' /\ mm_pc' # "replacing"
  BY <1>1, <1>2, <1>7, <1>9, NextSidePlan DEF StrategyInv
<1>11. Coherent(orders, next_client_order_id, Commands, Range(to_client), resting, quote')
  BY <1>2, <1>3
<1> QED
  BY <1>1, <1>10, <1>11, ThinkingKeeps

\* A step of the strategy that calls the OMS, which leaves the wires alone: c is the command
\* it is to send.
LEMMA CallingKeeps ==
    ASSUME TraderInv, UNCHANGED <<readerVars, venueVars, wireVars>>, send_failed' = send_failed,
           ~send_failed,
           NEW c \in Command, call' = c,
           \A d \in Range(to_exchange) : Creates(d) \cap Creates(c) = {},
           StrategyInv',
           \A D : D \subseteq Commands \cup {c} =>
              Coherent(orders', next_client_order_id', D, Range(to_client), resting, Top')
    PROVE  TraderInv'
<1>1. to_exchange' = to_exchange /\ to_client' = to_client /\ resting' = resting
  BY DEF wireVars, venueVars
<1>2. WireTyped'
  <2>1. call' \in Command \cup {None}
    OBVIOUS
  <2> QED
    BY <1>1, <2>1, Zenon DEF TraderInv, WireTyped
<1>3. CreatedOnce'
  BY <1>1 DEF TraderInv, CreatedOnce, Range
<1>4. Commands' \subseteq Commands \cup {c}
  BY <1>1 DEF Commands
<1>5. Coherent(orders', next_client_order_id', Commands', Range(to_client)', resting', Top')
  BY <1>1, <1>4
<1> QED
  BY <1>2, <1>3, <1>5 DEF TraderInv

\* A side is given up without a call.
LEMMA PassKeeps ==
    ASSUME TraderInv, mm_pc \in {"submit", "cancel", "replace"}, NextSide, quote' = quote,
           UNCHANGED <<omsVars, callerVars>>, UNCHANGED <<readerVars, venueVars, wireVars>>
    PROVE  TraderInv'
<1>1. /\ StrategyInv /\ plan # << >>
      /\ Coherent(orders, next_client_order_id, Commands, Range(to_client), resting, quote)
      /\ ~(call # None /\ call.type = "ReplaceOrder")
  BY Thinking DEF StrategyInv
<1>2. orders' = orders /\ call' = call /\ next_client_order_id' = next_client_order_id
  BY DEF omsVars, callerVars
<1>3. StrategyInv' /\ mm_pc' # "replacing"
  BY <1>1, <1>2, NextSidePlan DEF StrategyInv
<1>4. UNCHANGED omVars
  BY DEF omVars
<1> QED
  BY <1>1, <1>3, <1>4, ThinkingKeeps

\* Facts about a state in which the strategy is about to call.
LEMMA Calling ==
    ASSUME TraderInv, mm_pc \in {"submit", "cancel", "replace"}
    PROVE  /\ StrategyInv /\ plan # << >> /\ Side \in Sides /\ ~send_failed
           /\ Coherent(orders, next_client_order_id, Commands, Range(to_client), resting, quote)
           /\ Sound(orders, next_client_order_id, Commands, Range(to_client), resting)
           /\ Typed(orders, next_client_order_id, Commands, Range(to_client), resting)
           /\ next_client_order_id \notin DOMAIN orders
           /\ \A d \in Range(to_exchange) : next_client_order_id \notin Creates(d)
           /\ desired(Side) \in PriceOrNone
<1>1. /\ StrategyInv /\ plan # << >> /\ Side \in Sides /\ call = None
      /\ Coherent(orders, next_client_order_id, Commands, Range(to_client), resting, quote)
  BY Thinking DEF StrategyInv, Side
<1>2. ~send_failed
  BY <1>1, Zenon DEF TraderInv, WireTyped
<1>3. /\ Sound(orders, next_client_order_id, Commands, Range(to_client), resting)
      /\ Typed(orders, next_client_order_id, Commands, Range(to_client), resting)
  BY <1>1 DEF Coherent, Sound
<1>4. next_client_order_id \notin DOMAIN orders
  BY <1>3 DEF Typed
<1>5. \A d \in Range(to_exchange) : next_client_order_id \notin Creates(d)
  BY <1>3, <1>4 DEF Sound, CommandSound, Commands
<1>6. desired(Side) \in PriceOrNone
  <2>1. mid \in Nat /\ half_spread \in Nat
    BY <1>1, MarketMakerAssumption DEF StrategyInv
  <2> QED
    BY <2>1 DEF desired, PriceOrNone
<1> QED
  BY <1>1, <1>2, <1>3, <1>4, <1>5, <1>6

LEMMA ClientOrderType ==
    ASSUME NEW s \in Sides, NEW p \in PriceOrNone
    PROVE  /\ ClientOrder(s, p) \in Order /\ ClientOrder(s, p).side = s
           /\ ClientOrder(s, p).state = "PendingNew"
<1>1. QuoteSize \in Int
  BY OmsAssumption
<1> QED
  BY <1>1 DEF ClientOrder, Order

LEMMA SubmitKeeps ==
    ASSUME TraderInv, Submit
    PROVE  TraderInv'
<1>1. mm_pc = "submit" /\ NextSide /\ UNCHANGED <<readerVars, venueVars, wireVars>>
  BY DEF Submit
<1>2. CASE submit_rejected(Side) /\ quote' = quote
  BY <1>1, <1>2, PassKeeps DEF submit_rejected
<1>3. CASE /\ submit_new_order(Side, desired(Side))
           /\ quote' = [quote EXCEPT ![Side] = next_client_order_id]
  <2>1. /\ StrategyInv /\ plan # << >> /\ Side \in Sides /\ ~send_failed
        /\ Coherent(orders, next_client_order_id, Commands, Range(to_client), resting, quote)
        /\ Typed(orders, next_client_order_id, Commands, Range(to_client), resting)
        /\ next_client_order_id \notin DOMAIN orders
        /\ \A d \in Range(to_exchange) : next_client_order_id \notin Creates(d)
        /\ desired(Side) \in PriceOrNone
    BY <1>1, Calling
  <2>2. PICK s, p, n, U, P, o :
          /\ s = Side /\ p = desired(Side) /\ n = next_client_order_id /\ U = quote' /\ P = orders'
          /\ o = ClientOrder(s, p)
    OBVIOUS
  <2>3. PICK c : c = [type |-> "NewOrder", id |-> n, side |-> s, price |-> p]
    OBVIOUS
  <2>4. s \in Sides /\ p \in PriceOrNone /\ n \in Nat /\ o \in Order /\ o.side = s
        /\ o.state = "PendingNew"
    BY <2>1, <2>2, ClientOrderType DEF Typed
  <2>5. c \in Command /\ c.type = "NewOrder" /\ c.id = n /\ c.side = s /\ Creates(c) = {n}
    BY <2>3, <2>4 DEF Command, Creates
  <2>6. /\ call' = c /\ next_client_order_id' = n + 1 /\ send_failed' = send_failed
        /\ P = [i \in DOMAIN orders \cup {n} |-> IF i = n THEN o ELSE orders[i]]
    BY <1>3, <2>2, <2>3 DEF submit_new_order, With
  <2>7. Registers(orders, n, s, P)
    BY <2>1, <2>2, <2>4, <2>6 DEF Registers, Typed
  <2>8. \A id \in Working(Commands, resting) : orders[id].side # s
    <3>1. quote[s] = None
      BY <1>1, <2>1, <2>2 DEF StrategyInv
    <3> QED
      BY <2>1, <2>4, <3>1, NoneWorking
  <2>9. Moves(quote, s, n, U) /\ U \in [Sides -> Nat \cup {None}]
    BY <1>3, <2>1, <2>2, <2>4 DEF Moves, StrategyInv
  <2>10. \A D : D \subseteq Commands \cup {c} =>
            Coherent(P, n + 1, D, Range(to_client), resting, U)
    <3>1. Coherent(orders, n, Commands, Range(to_client), resting, quote)
      BY <2>1, <2>2
    <3>2. Moves(quote, s, n, U) /\ s \in Sides
      BY <2>4, <2>9
    <3> QED
      BY <2>5, <2>7, <2>8, <3>1, <3>2, Submitted
  <2>11. /\ mm_pc' \in {"idle", "update"} /\ plan' \in Seq(Sides) /\ mid' = mid
         /\ mm_pc' = "update" => plan' # << >>
    BY <1>1, <2>1, NextSidePlan
  <2>12. \A x \in Sides : U[x] # None => U[x] \in DOMAIN P /\ P[U[x]].side = x
    BY <2>1, <2>7, <2>9 DEF StrategyInv, Moves, Registers
  <2>13. StrategyInv'
    BY <1>1, <2>1, <2>2, <2>5, <2>6, <2>9, <2>11, <2>12 DEF StrategyInv
  <2>14. Top' = U
    BY <2>2, <2>9, <2>11, TopIsQuoteNext
  <2>15. \A D : D \subseteq Commands \cup {c} =>
            Coherent(orders', next_client_order_id', D, Range(to_client), resting, Top')
    BY <2>2, <2>6, <2>10, <2>14
  <2>16. \A d \in Range(to_exchange) : Creates(d) \cap Creates(c) = {}
    BY <2>1, <2>2, <2>5
  <2>17. call' = c /\ send_failed' = send_failed
    BY <2>6
  <2> QED
    BY <1>1, <2>1, <2>5, <2>13, <2>15, <2>16, <2>17, CallingKeeps
<1> QED
  BY <1>2, <1>3 DEF Submit

LEMMA CancelKeeps ==
    ASSUME TraderInv, Cancel
    PROVE  TraderInv'
<1>1. /\ mm_pc = "cancel" /\ NextSide /\ UNCHANGED <<readerVars, venueVars, wireVars>>
      /\ quote' = quote
  BY DEF Cancel
<1>2. CASE UNCHANGED <<omsVars, callerVars>>
  BY <1>1, <1>2, PassKeeps
<1>3. CASE cancel_order(quote[Side])
  <2>1. /\ StrategyInv /\ plan # << >> /\ Side \in Sides /\ ~send_failed
        /\ Coherent(orders, next_client_order_id, Commands, Range(to_client), resting, quote)
        /\ Typed(orders, next_client_order_id, Commands, Range(to_client), resting)
    BY <1>1, Calling
  <2>2. PICK p, P : p = quote[Side] /\ P = orders'
    OBVIOUS
  <2>3. p \in DOMAIN orders /\ p \in Nat /\ orders[p] \in Order /\ orders[p].state # "PendingNew"
    BY <1>3, <2>1, <2>2 DEF cancel_order, Changeable, Known, is_live, Typed
  <2>4. PICK c : c = [type |-> "CancelOrder", id |-> p]
    OBVIOUS
  <2>5. c \in Command /\ c.type = "CancelOrder" /\ c.id = p /\ Creates(c) = {}
    BY <2>3, <2>4 DEF Command, Creates
  <2>6. PICK v : v = [orders[p] EXCEPT !.pending = "Cancel"]
    OBVIOUS
  <2>7. v \in Order /\ v.side = orders[p].side /\ v.state = orders[p].state
    <3>1. PICK o \in Order : o = orders[p]
      BY <2>3
    <3> QED
      BY <2>6, <3>1 DEF Order
  <2>8. /\ call' = c /\ next_client_order_id' = next_client_order_id /\ send_failed' = send_failed
        /\ P = [orders EXCEPT ![p] = v]
    BY <1>3, <2>2, <2>4, <2>6 DEF cancel_order
  <2>9. /\ SameSides(orders, P) /\ P[p] = v
        /\ \A x \in DOMAIN orders \ {p} : P[x] = orders[x]
    BY <2>1, <2>3, <2>7, <2>8, OneChanged DEF Typed
  <2>10. \A x \in DOMAIN orders : P[x].state = orders[x].state
    BY <2>7, <2>9
  <2>11. Coherent(P, next_client_order_id, Commands, Range(to_client), resting, quote)
    BY <2>1, <2>9, <2>10, Noted
  <2>12. p \in DOMAIN P /\ P[p].state # "PendingNew"
    BY <2>3, <2>9, <2>10 DEF SameSides
  <2>13. \A D : D \subseteq Commands \cup {c} =>
            Coherent(P, next_client_order_id, D, Range(to_client), resting, quote)
    BY <2>5, <2>11, <2>12, CancelAsked
  <2>14. /\ mm_pc' \in {"idle", "update"} /\ plan' \in Seq(Sides) /\ mid' = mid
         /\ mm_pc' = "update" => plan' # << >>
    BY <1>1, <2>1, NextSidePlan
  <2>15. StrategyInv'
    <3>1. \A x \in Sides : quote[x] # None => quote[x] \in DOMAIN P /\ P[quote[x]].side = x
      BY <2>1, <2>9 DEF StrategyInv, SameSides
    <3> QED
      BY <1>1, <2>1, <2>2, <2>5, <2>8, <2>14, <3>1 DEF StrategyInv
  <2>16. Top' = quote
    BY <1>1, <2>1, <2>14, TopIsQuoteNext DEF StrategyInv
  <2>17. \A D : D \subseteq Commands \cup {c} =>
            Coherent(orders', next_client_order_id', D, Range(to_client), resting, Top')
    BY <2>2, <2>8, <2>13, <2>16
  <2>18. \A d \in Range(to_exchange) : Creates(d) \cap Creates(c) = {}
    BY <2>5
  <2>19. call' = c /\ send_failed' = send_failed
    BY <2>8
  <2> QED
    BY <1>1, <2>1, <2>5, <2>15, <2>17, <2>18, <2>19, CallingKeeps
<1> QED
  BY <1>2, <1>3 DEF Cancel

LEMMA ReplaceKeeps ==
    ASSUME TraderInv, Replace
    PROVE  TraderInv'
<1>1. /\ mm_pc = "replace" /\ UNCHANGED <<readerVars, venueVars, wireVars>> /\ quote' = quote
  BY DEF Replace
<1>2. CASE UNCHANGED <<omsVars, callerVars>> /\ NextSide
  BY <1>1, <1>2, PassKeeps
<1>3. CASE /\ replace_order(quote[Side], desired(Side)) /\ mm_pc' = "replacing"
           /\ UNCHANGED <<mid, at_position_cap, bid_crosses, plan>>
  <2>1. /\ StrategyInv /\ plan # << >> /\ Side \in Sides /\ ~send_failed
        /\ Coherent(orders, next_client_order_id, Commands, Range(to_client), resting, quote)
        /\ Typed(orders, next_client_order_id, Commands, Range(to_client), resting)
        /\ next_client_order_id \notin DOMAIN orders
        /\ \A d \in Range(to_exchange) : next_client_order_id \notin Creates(d)
        /\ desired(Side) \in PriceOrNone
    BY <1>1, Calling
  <2>2. PICK s, r, n, p, P, o :
          /\ s = Side /\ r = desired(Side) /\ n = next_client_order_id /\ p = quote[Side]
          /\ P = orders' /\ o = ClientOrder(orders[p].side, r)
    OBVIOUS
  <2>3. /\ p \in DOMAIN orders /\ p \in Nat /\ orders[p] \in Order
        /\ orders[p].state # "PendingNew" /\ orders[p].side = s /\ s \in Sides /\ n \in Nat
    <3>1. p \in DOMAIN orders /\ orders[p].state # "PendingNew"
      BY <1>3, <2>2 DEF replace_order, Changeable, Known, is_live
    <3>2. p \in Nat /\ p # None
      BY <2>1, <3>1, NoneIsNoId DEF Typed
    <3> QED
      BY <2>1, <2>2, <3>1, <3>2 DEF Typed, StrategyInv
  <2>4. o \in Order /\ o.side = s /\ o.state = "PendingNew"
    BY <2>1, <2>2, <2>3, ClientOrderType
  <2>5. PICK c : c = [type |-> "ReplaceOrder", id |-> p, new_id |-> n, price |-> r]
    OBVIOUS
  <2>6. /\ c \in Command /\ c.type = "ReplaceOrder" /\ c.id = p /\ c.new_id = n
        /\ Creates(c) = {n}
    BY <2>1, <2>2, <2>3, <2>5 DEF Command, Creates
  <2>7. PICK v : v = [orders[p] EXCEPT !.pending = "Replace"]
    OBVIOUS
  <2>8. v \in Order /\ v.side = orders[p].side /\ v.state = orders[p].state
    <3>1. PICK w \in Order : w = orders[p]
      BY <2>3
    <3> QED
      BY <2>7, <3>1 DEF Order
  <2>9. PICK Q : Q = [orders EXCEPT ![p] = v]
    OBVIOUS
  <2>10. /\ SameSides(orders, Q) /\ Q[p] = v
         /\ \A x \in DOMAIN orders \ {p} : Q[x] = orders[x]
    BY <2>1, <2>3, <2>8, <2>9, OneChanged DEF Typed
  <2>11. /\ call' = c /\ next_client_order_id' = n + 1 /\ send_failed' = send_failed
         /\ P = [i \in DOMAIN Q \cup {n} |-> IF i = n THEN o ELSE Q[i]]
    BY <1>3, <2>2, <2>5, <2>7, <2>9 DEF replace_order, With
  <2>12. Registers(orders, n, s, P)
    <3>1. /\ DOMAIN P = DOMAIN orders \cup {n} /\ P \in [DOMAIN P -> Order]
          /\ P[n] = o /\ \A x \in DOMAIN orders : P[x] = Q[x]
      BY <2>1, <2>2, <2>4, <2>10, <2>11 DEF SameSides
    <3>2. \A x \in DOMAIN orders : Q[x].side = orders[x].side /\ Q[x].state = orders[x].state
      BY <2>8, <2>10
    <3> QED
      BY <2>4, <3>1, <3>2 DEF Registers
  <2>13. /\ plan' = plan /\ mid' = mid /\ Side' = s
    BY <1>3, <2>2 DEF Side
  <2>14. PICK U : U = Top'
    OBVIOUS
  <2>15. U = [x \in Sides |-> IF x = s THEN n ELSE quote[x]]
    <3>1. next_client_order_id' - 1 = n
      BY <2>3, <2>11
    <3>2. Known(n)'
      BY <2>2, <2>12 DEF Known, Registers
    <3>3. Top' = [x \in Sides |-> IF mm_pc' = "replacing" /\ x = Side' /\ n \in DOMAIN orders'
                                    THEN n ELSE quote'[x]]
      BY <3>1 DEF Top, Known
    <3> QED
      BY <1>1, <1>3, <2>13, <2>14, <3>2, <3>3 DEF Known
  <2>16. Moves(quote, s, n, U)
    BY <2>3, <2>15 DEF Moves
  <2>17. \A D : D \subseteq Commands \cup {c} =>
            Coherent(P, n + 1, D, Range(to_client), resting, U)
    <3>1. orders[p].side = s /\ quote[orders[p].side] = p
      BY <2>2, <2>3
    <3>2. Coherent(orders, n, Commands, Range(to_client), resting, quote)
      BY <2>1, <2>2
    <3>3. Registers(orders, n, orders[p].side, P) /\ Moves(quote, orders[p].side, n, U)
      BY <2>12, <2>16, <3>1
    <3>4. /\ p \in DOMAIN orders /\ orders[p].state # "PendingNew"
          /\ c \in Command /\ c.type = "ReplaceOrder" /\ c.id = p /\ c.new_id = n
      BY <2>3, <2>6
    <3> QED
      BY <3>1, <3>2, <3>3, <3>4, Requoted
  <2>18. StrategyInv'
    <3>1. \A x \in Sides : quote[x] # None => /\ quote[x] \in DOMAIN P /\ P[quote[x]].side = x
                                              /\ quote[x] # n
      BY <2>1, <2>2, <2>12 DEF StrategyInv, Registers
    <3>2. next_client_order_id' - 1 = n /\ None # n
      BY <2>3, <2>11, NoneIsNoId
    <3>3. \A x \in Sides : quote'[x] # next_client_order_id' - 1
      BY <1>1, <3>1, <3>2
    <3>4. call'.new_id = next_client_order_id' - 1 /\ call'.id = quote'[Side']
      BY <1>1, <2>2, <2>6, <2>11, <2>13, <3>2
    <3> QED
      BY <1>1, <1>3, <2>1, <2>2, <2>13, <3>1, <3>3, <3>4 DEF StrategyInv
  <2>19. \A D : D \subseteq Commands \cup {c} =>
            Coherent(orders', next_client_order_id', D, Range(to_client), resting, Top')
    BY <2>2, <2>11, <2>14, <2>17
  <2>20. \A d \in Range(to_exchange) : Creates(d) \cap Creates(c) = {}
    BY <2>1, <2>2, <2>6
  <2>21. call' = c /\ send_failed' = send_failed
    BY <2>11
  <2> QED
    BY <1>1, <2>1, <2>6, <2>18, <2>19, <2>20, <2>21, CallingKeeps
<1> QED
  BY <1>2, <1>3 DEF Replace

-----------------------------------------------------------------------------
(***************************************************************************)
(* The theorems.                                                           *)
(***************************************************************************)
LEMMA TraderInit == Init => TraderInv
<1> SUFFICES ASSUME Init PROVE TraderInv
  OBVIOUS
<1>1. /\ orders = << >> /\ next_client_order_id = 1 /\ call = None /\ send_failed = FALSE
      /\ to_exchange = << >> /\ to_client = << >> /\ resting = << >>
      /\ quote = [side \in Sides |-> None] /\ mm_pc = "idle" /\ plan = << >>
  BY DEF Init, OmInit
<1>2. Commands = {} /\ Range(to_client) = {}
  BY <1>1 DEF Commands, Range
<1>3. WireTyped
  <2>1. << >> \in Seq(Command) /\ << >> \in Seq(Message)
    OBVIOUS
  <2> QED
    BY <1>1, <2>1, Zenon DEF WireTyped
<1>4. CreatedOnce
  BY <1>1 DEF CreatedOnce
<1>5. StrategyInv
  BY <1>1 DEF StrategyInv
<1>6. Top = quote
  BY <1>1, <1>5, TopIsQuote DEF StrategyInv
<1>7. DOMAIN orders = {} /\ DOMAIN resting = {}
  BY <1>1
<1>8. Created({}) = {}
  BY DEF Created
<1>9. Typed(orders, 1, {}, {}, resting)
  BY <1>1, <1>7 DEF Typed
<1>10. Sound(orders, 1, {}, {}, resting)
  BY <1>7, <1>9 DEF Sound, BookSound
<1>11. Quoted(orders, {}, {}, resting, quote)
  BY <1>1, <1>7, <1>8 DEF Quoted, Working
<1>12. Coherent(orders, next_client_order_id, Commands, Range(to_client), resting, Top)
  BY <1>1, <1>2, <1>6, <1>10, <1>11 DEF Coherent
<1> QED
  BY <1>3, <1>4, <1>5, <1>12 DEF TraderInv

LEMMA TraderStep == TraderInv /\ [Next]_vars => TraderInv'
<1> SUFFICES ASSUME TraderInv, [Next]_vars PROVE TraderInv'
  OBVIOUS
<1>1. CASE Strategy
  BY <1>1, LookKeeps, DecideKeeps, SubmitKeeps, CancelKeeps, ReplaceKeeps, ReplacedKeeps
     DEF Strategy
<1>2. CASE Caller /\ UNCHANGED mmVars
  BY <1>2, SendKeeps, CleanUpKeeps DEF Caller
<1>3. CASE Reader /\ UNCHANGED mmVars
  BY <1>3, HandleKeeps, QuietKeeps DEF Reader
<1>4. CASE Environment /\ UNCHANGED mmVars
  BY <1>4, NewOrderKeeps, CancelOrderKeeps, ReplaceOrderKeeps, TradeKeeps, QuietKeeps, DropKeeps
     DEF Environment, VenueCommand
<1>5. CASE UNCHANGED vars
  <2>1. /\ UNCHANGED mmVars /\ UNCHANGED omsVars /\ resting' = resting /\ call' = call
        /\ send_failed' = send_failed /\ to_exchange' = to_exchange /\ to_client' = to_client
    BY <1>5 DEF vars, omVars, callerVars, venueVars, wireVars
  <2>2. CreatedOnce' /\ Commands' \subseteq Commands /\ Range(to_client)' \subseteq Range(to_client)
    BY <2>1 DEF TraderInv, CreatedOnce, Commands
  <2>3. WireTyped'
    BY <2>1, Zenon DEF TraderInv, WireTyped
  <2> QED
    BY <2>1, <2>2, <2>3, LossKeeps
<1> QED
  BY <1>1, <1>2, <1>3, <1>4, <1>5 DEF Next

\* The inductive invariant of the trader (order_management_system.cpp, market_maker_strategy.cpp):
\* orders, commands and reports in flight and the venue's book fit together, whatever is lost
\* with the connection.
THEOREM TraderInvariance == Spec => []TraderInv
BY TraderInit, TraderStep, PTL DEF Spec

\* An order the OMS calls finished does not work at the venue, and nothing in flight can
\* bring it there (order_management_system.cpp, on_rejected() to on_trade_report()).
THEOREM FinishedStaysFinished == Spec => []FinishedIsFinished
<1>1. TraderInv => FinishedIsFinished
  <2> SUFFICES ASSUME TraderInv, NEW id \in DOMAIN orders, is_terminal(orders[id])
               PROVE  /\ id \notin DOMAIN resting
                      /\ \A m \in Range(to_exchange) :
                            /\ m.type = "NewOrder" => m.id # id
                            /\ m.type = "ReplaceOrder" => m.new_id # id
    BY DEF FinishedIsFinished
  <2>1. /\ BookSound(orders, resting)
        /\ \A m \in Range(to_exchange) : CommandSound(orders, resting, m)
    BY DEF TraderInv, Coherent, Sound, Commands
  <2> QED
    BY <2>1 DEF BookSound, CommandSound, Creates, is_terminal
<1> QED
  BY <1>1, TraderInvariance, PTL

\* The strategy never has two orders of one side at the venue (market_maker_strategy.cpp,
\* update_side()), although it decides on what the OMS said before.
THEOREM OneQuoteWorks == Spec => []OneQuotePerSide
<1>1. TraderInv => OneQuotePerSide
  <2> SUFFICES ASSUME TraderInv, NEW s \in Sides
               PROVE  Cardinality({id \in DOMAIN resting : resting[id].side = s}) <= 1
    BY DEF OneQuotePerSide
  <2> DEFINE W == {id \in DOMAIN resting : resting[id].side = s}
  <2>1. /\ BookSound(orders, resting)
        /\ Quoted(orders, Commands, Range(to_client), resting, Top)
    BY DEF TraderInv, Coherent, Sound
  <2>2. \A id \in W : id \in Working(Commands, resting) /\ orders[id].side = s
    BY <2>1 DEF BookSound, Working
  <2>3. ASSUME NEW a \in W, NEW b \in W PROVE a = b
    <3>1. a # Top[s] => Top[s] \notin DOMAIN resting
      BY <2>1, <2>2 DEF Quoted, Superseded
    <3>2. b # Top[s] => Top[s] \notin DOMAIN resting
      BY <2>1, <2>2 DEF Quoted, Superseded
    <3>3. a # Top[s] /\ b # Top[s] => a = b
      BY <2>1, <2>2 DEF Quoted
    <3> QED
      BY <3>1, <3>2, <3>3
  <2> HIDE DEF W
  <2>4. CASE W = {}
    BY <2>4, FS_EmptySet DEF W
  <2>5. CASE W # {}
    <3>1. PICK a : W = {a}
      BY <2>3, <2>5
    <3>2. Cardinality(W) = 1
      BY <3>1, FS_Singleton
    <3> QED
      BY <3>2 DEF W
  <2> QED
    BY <2>4, <2>5
<1> QED
  BY <1>1, TraderInvariance, PTL

-----------------------------------------------------------------------------
(***************************************************************************)
(* Agreement: what the trader will believe once it has read the reports on *)
(* their way.                                                              *)
(***************************************************************************)
\* A report that changes what the trader thinks is left of order id, and what it says.
Speaks(m, id) == m.type # "Rejected" /\ id \in Mentions(m)

LeftBy(m, id) ==
    IF m.type = "TradeReport" THEN m.remaining
    ELSE IF m.type = "Accepted" \/ (m.type = "Replaced" /\ id = m.new_id) THEN QuoteSize
    ELSE 0

\* What a report does to the position, by the side of its order in O.
Delta(O, m) ==
    IF m.type # "TradeReport" THEN 0
    ELSE IF O[m.id].side = "Buy" THEN m.quantity ELSE -m.quantity

LastWord(s, id, i) ==
    /\ i \in DOMAIN s /\ Speaks(s[i], id)
    /\ \A j \in DOMAIN s : j > i => ~Speaks(s[j], id)

\* The trader thinks rightly that l is left of the order o.
RightAbout(o, l) == IF is_live(o) THEN l # 0 /\ o.remaining = l ELSE l = 0

\* The last report of the reports s on an order says what is left of it, and where there is
\* none the trader knows.
Tracks(O, s, L) ==
    \A id \in DOMAIN O :
        /\ (\A i \in DOMAIN s : ~Speaks(s[i], id)) => RightAbout(O[id], L[id])
        /\ \A i \in DOMAIN s : LastWord(s, id, i) => L[id] = LeftBy(s[i], id)

\* The trades reported in s lead from position h to position v, by way of the partial
\* sums f.
Leads(O, s, h, v) ==
    \E f \in [0 .. Len(s) -> Int] :
        /\ f[0] = h /\ f[Len(s)] = v
        /\ \A i \in 1 .. Len(s) : f[i] = f[i - 1] + Delta(O, s[i])

Told(O, s, h, L, v) == Tracks(O, s, L) /\ Leads(O, s, h, v)

\* Prices are the same on both sides, and an order does not replace itself.
Priced(O, C, M, R) ==
    /\ \A c \in C : /\ c.type = "NewOrder" => O[c.id].price = c.price
                    /\ c.type = "ReplaceOrder" => O[c.new_id].price = c.price
    /\ \A m \in M : m.type = "Replaced" => m.id # m.new_id /\ O[m.new_id].price = m.price
    /\ \A id \in DOMAIN R : R[id].price = O[id].price

\* The position once the fill in the reader's hand is settled.
Settled == IF fill = None THEN holdings ELSE apply

AgreeInv ==
    /\ holdings \in Int /\ venue_position \in Int
    /\ fill \in FillType \cup {None}
    /\ link => /\ ~send_failed
               /\ Priced(orders, Commands, Range(to_client), resting)
               /\ lost_reports = {} =>
                     Told(orders, to_client, Settled, Left(resting), venue_position)

LEMMA DeltaType ==
    ASSUME NEW O, NEW m \in Message
    PROVE  Delta(O, m) \in Int
BY DEF Delta, Message

LEMMA DeltaSame ==
    ASSUME NEW O, NEW P, NEW m, m.id \in DOMAIN O => P[m.id].side = O[m.id].side,
           m.id \in DOMAIN O
    PROVE  Delta(P, m) = Delta(O, m)
BY DEF Delta

\* One more report.
LEMMA ToldOne ==
    ASSUME NEW O, NEW s \in Seq(Message), NEW h, NEW L, NEW v \in Int, Told(O, s, h, L, v),
           NEW m \in Message, NEW K,
           \A id \in DOMAIN O : K[id] = IF Speaks(m, id) THEN LeftBy(m, id) ELSE L[id]
    PROVE  Told(O, Append(s, m), h, K, v + Delta(O, m))
<1>1. PICK t, n : t = Append(s, m) /\ n = Len(s)
  OBVIOUS
<1>2. /\ n \in Nat /\ Len(t) = n + 1 /\ DOMAIN t = 1 .. n + 1 /\ DOMAIN s = 1 .. n
      /\ \A i \in 1 .. n : t[i] = s[i]
      /\ t[n + 1] = m
  BY <1>1
<1>3. Tracks(O, t, K)
  <2> SUFFICES ASSUME NEW id \in DOMAIN O
               PROVE  /\ (\A i \in DOMAIN t : ~Speaks(t[i], id)) => RightAbout(O[id], K[id])
                      /\ \A i \in DOMAIN t : LastWord(t, id, i) => K[id] = LeftBy(t[i], id)
    BY DEF Tracks
  <2>0. /\ (\A i \in DOMAIN s : ~Speaks(s[i], id)) => RightAbout(O[id], L[id])
        /\ \A i \in DOMAIN s : LastWord(s, id, i) => L[id] = LeftBy(s[i], id)
    BY DEF Told, Tracks
  <2>1. CASE Speaks(m, id)
    <3>1. n + 1 \in DOMAIN t /\ Speaks(t[n + 1], id)
      BY <1>2, <2>1
    <3>2. \A i \in DOMAIN t : LastWord(t, id, i) => i = n + 1
      <4> SUFFICES ASSUME NEW i \in DOMAIN t, LastWord(t, id, i) PROVE i = n + 1
        OBVIOUS
      <4>1. ~(n + 1 > i)
        BY <3>1 DEF LastWord
      <4> QED
        BY <1>2, <4>1
    <3> QED
      BY <1>2, <2>1, <3>1, <3>2
  <2>2. CASE ~Speaks(m, id)
    <3>1. (\A i \in DOMAIN t : ~Speaks(t[i], id)) => \A i \in DOMAIN s : ~Speaks(s[i], id)
      BY <1>2
    <3>2. ASSUME NEW i \in DOMAIN t, LastWord(t, id, i)
          PROVE  i \in DOMAIN s /\ LastWord(s, id, i) /\ s[i] = t[i]
      <4>1. i # n + 1
        BY <1>2, <2>2, <3>2 DEF LastWord
      <4>2. i \in DOMAIN s /\ s[i] = t[i]
        BY <1>2, <4>1
      <4>3. \A j \in DOMAIN s : j > i => ~Speaks(s[j], id)
        BY <1>2, <3>2 DEF LastWord
      <4> QED
        BY <3>2, <4>2, <4>3 DEF LastWord
    <3> QED
      BY <2>0, <2>2, <3>1, <3>2
  <2> QED
    BY <2>1, <2>2
<1>4. PICK w \in Int : w = v + Delta(O, m)
  BY DeltaType
<1>5. Leads(O, t, h, w)
  <2>1. PICK f \in [0 .. n -> Int] :
          /\ f[0] = h /\ f[n] = v
          /\ \A i \in 1 .. n : f[i] = f[i - 1] + Delta(O, s[i])
    BY <1>1 DEF Told, Leads
  <2>2. PICK g : g = [i \in 0 .. n + 1 |-> IF i = n + 1 THEN w ELSE f[i]]
    OBVIOUS
  <2>3. /\ g \in [0 .. Len(t) -> Int] /\ g[0] = h /\ g[Len(t)] = w
    BY <1>2, <2>1, <2>2
  <2>4. ASSUME NEW i \in 1 .. Len(t) PROVE g[i] = g[i - 1] + Delta(O, t[i])
    <3>1. CASE i = n + 1
      BY <1>2, <1>4, <2>1, <2>2, <3>1
    <3>2. CASE i # n + 1
      <4>1. i \in 1 .. n /\ i - 1 \in 0 .. n /\ i - 1 # n + 1 /\ i \in 0 .. n + 1 /\ i - 1 \in 0 .. n + 1
        BY <1>2, <3>2
      <4> QED
        BY <1>2, <2>1, <2>2, <3>2, <4>1
    <3> QED
      BY <3>1, <3>2
  <2> QED
    BY <2>3, <2>4 DEF Leads
<1> QED
  BY <1>1, <1>3, <1>4, <1>5 DEF Told

\* The orders change in ways the reports do not tell of: new ones are registered, requests
\* are noted.
LEMMA ToldOrders ==
    ASSUME NEW O, NEW s \in Seq(Message), NEW h, NEW L, NEW v, Told(O, s, h, L, v),
           \A i \in DOMAIN s : s[i].id \in DOMAIN O,
           NEW P,
           \A id \in DOMAIN O :
              /\ id \in DOMAIN P /\ P[id].side = O[id].side /\ P[id].state = O[id].state
              /\ P[id].remaining = O[id].remaining,
           \A id \in DOMAIN P \ DOMAIN O :
              /\ L[id] = 0 /\ P[id].state = "PendingNew"
              /\ \A i \in DOMAIN s : ~Speaks(s[i], id)
    PROVE  Told(P, s, h, L, v)
<1>1. Tracks(P, s, L)
  <2> SUFFICES ASSUME NEW id \in DOMAIN P
               PROVE  /\ (\A i \in DOMAIN s : ~Speaks(s[i], id)) => RightAbout(P[id], L[id])
                      /\ \A i \in DOMAIN s : LastWord(s, id, i) => L[id] = LeftBy(s[i], id)
    BY DEF Tracks
  <2>1. CASE id \in DOMAIN O
    <3>1. RightAbout(O[id], L[id]) => RightAbout(P[id], L[id])
      BY <2>1 DEF RightAbout, is_live
    <3> QED
      BY <2>1, <3>1 DEF Told, Tracks
  <2>2. CASE id \notin DOMAIN O
    BY <2>2 DEF RightAbout, is_live, LastWord
  <2> QED
    BY <2>1, <2>2
<1>2. \A i \in 1 .. Len(s) : Delta(P, s[i]) = Delta(O, s[i])
  <2> TAKE i \in 1 .. Len(s)
  <2>1. s[i].id \in DOMAIN O
    OBVIOUS
  <2> QED
    BY <2>1, DeltaSame
<1>3. Leads(P, s, h, v)
  BY <1>2 DEF Told, Leads
<1> QED
  BY <1>1, <1>3 DEF Told

\* The first report is read, and the trader makes P of its orders.
LEMMA ToldRead ==
    ASSUME NEW O, NEW s \in Seq(Message), s # << >>, NEW h, NEW L, NEW v, Told(O, s, h, L, v),
           \A i \in DOMAIN s : s[i].id \in DOMAIN O,
           NEW m, m = Head(s), NEW P, DOMAIN P = DOMAIN O,
           \A id \in DOMAIN O : P[id].side = O[id].side,
           \A id \in DOMAIN O :
              IF Speaks(m, id) THEN RightAbout(P[id], LeftBy(m, id))
              ELSE \A l : RightAbout(O[id], l) => RightAbout(P[id], l)
    PROVE  Told(P, Tail(s), h + Delta(O, m), L, v)
<1>1. PICK t, n : t = Tail(s) /\ n = Len(s)
  OBVIOUS
<1>2. /\ n \in Nat \ {0} /\ Len(t) = n - 1 /\ DOMAIN t = 1 .. n - 1 /\ DOMAIN s = 1 .. n
      /\ \A i \in 1 .. n - 1 : t[i] = s[i + 1]
      /\ s[1] = m /\ m \in Message
  BY <1>1
<1>3. Tracks(P, t, L)
  <2> SUFFICES ASSUME NEW id \in DOMAIN O
               PROVE  /\ (\A i \in DOMAIN t : ~Speaks(t[i], id)) => RightAbout(P[id], L[id])
                      /\ \A i \in DOMAIN t : LastWord(t, id, i) => L[id] = LeftBy(t[i], id)
    BY DEF Tracks
  <2>0. /\ (\A i \in DOMAIN s : ~Speaks(s[i], id)) => RightAbout(O[id], L[id])
        /\ \A i \in DOMAIN s : LastWord(s, id, i) => L[id] = LeftBy(s[i], id)
    BY DEF Told, Tracks
  <2>1. ASSUME \A i \in DOMAIN t : ~Speaks(t[i], id)
        PROVE  RightAbout(P[id], L[id])
    <3>1. \A j \in DOMAIN s : j > 1 => ~Speaks(s[j], id)
      <4> SUFFICES ASSUME NEW j \in DOMAIN s, j > 1 PROVE ~Speaks(s[j], id)
        OBVIOUS
      <4>1. j - 1 \in DOMAIN t /\ t[j - 1] = s[j]
        BY <1>2
      <4> QED
        BY <2>1, <4>1
    <3>2. CASE Speaks(m, id)
      <4>1. LastWord(s, id, 1) /\ 1 \in DOMAIN s
        BY <1>2, <3>1, <3>2 DEF LastWord
      <4>2. L[id] = LeftBy(m, id)
        BY <1>2, <2>0, <4>1
      <4> QED
        BY <3>2, <4>2
    <3>3. CASE ~Speaks(m, id)
      <4>1. \A j \in DOMAIN s : ~Speaks(s[j], id)
        BY <1>2, <3>1, <3>3
      <4> QED
        BY <2>0, <3>3, <4>1
    <3> QED
      BY <3>2, <3>3
  <2>2. ASSUME NEW i \in DOMAIN t, LastWord(t, id, i)
        PROVE  L[id] = LeftBy(t[i], id)
    <3>1. i + 1 \in DOMAIN s /\ t[i] = s[i + 1]
      BY <1>2
    <3>2. \A j \in DOMAIN s : j > i + 1 => ~Speaks(s[j], id)
      <4> SUFFICES ASSUME NEW j \in DOMAIN s, j > i + 1 PROVE ~Speaks(s[j], id)
        OBVIOUS
      <4>1. j - 1 \in DOMAIN t /\ t[j - 1] = s[j] /\ j - 1 > i
        BY <1>2
      <4> QED
        BY <2>2, <4>1 DEF LastWord
    <3>3. LastWord(s, id, i + 1)
      BY <2>2, <3>1, <3>2 DEF LastWord
    <3> QED
      BY <2>0, <3>1, <3>3
  <2> QED
    BY <2>1, <2>2
<1>4. PICK d \in Int : d = Delta(O, m)
  BY <1>2, DeltaType
<1>5. Leads(P, t, h + d, v)
  <2>1. PICK f \in [0 .. n -> Int] :
          /\ f[0] = h /\ f[n] = v
          /\ \A i \in 1 .. n : f[i] = f[i - 1] + Delta(O, s[i])
    BY <1>1 DEF Told, Leads
  <2>2. PICK g : g = [i \in 0 .. n - 1 |-> f[i + 1]]
    OBVIOUS
  <2>3. /\ g \in [0 .. Len(t) -> Int] /\ g[Len(t)] = v
    BY <1>2, <2>1, <2>2
  <2>4. g[0] = h + d
    <3>1. f[1] = f[0] + Delta(O, s[1])
      BY <1>2, <2>1
    <3>2. g[0] = f[1]
      BY <1>2, <2>2
    <3> QED
      BY <1>2, <1>4, <2>1, <3>1, <3>2
  <2>5. ASSUME NEW i \in 1 .. Len(t) PROVE g[i] = g[i - 1] + Delta(P, t[i])
    <3>1. i \in 0 .. n - 1 /\ i - 1 \in 0 .. n - 1 /\ i + 1 \in 1 .. n /\ (i + 1) - 1 = i
          /\ (i - 1) + 1 = i /\ i \in 1 .. n - 1
      BY <1>2
    <3>2. g[i] = f[i + 1] /\ g[i - 1] = f[i] /\ t[i] = s[i + 1]
      BY <1>2, <2>2, <3>1
    <3>3. f[i + 1] = f[i] + Delta(O, s[i + 1])
      BY <2>1, <3>1
    <3>4. Delta(P, s[i + 1]) = Delta(O, s[i + 1])
      <4>1. s[i + 1].id \in DOMAIN O
        BY <1>2, <3>1
      <4> QED
        BY <4>1, DeltaSame
    <3> QED
      BY <3>2, <3>3, <3>4
  <2> QED
    BY <2>3, <2>4, <2>5 DEF Leads
<1> QED
  BY <1>1, <1>3, <1>4, <1>5 DEF Told
LEMMA ConcatOne ==
    ASSUME NEW S, NEW s \in Seq(S), NEW x \in S
    PROVE  s \o <<x>> = Append(s, x)
OBVIOUS

LEMMA ConcatNone ==
    ASSUME NEW S, NEW s \in Seq(S)
    PROVE  s \o << >> = s
OBVIOUS

LEMMA ConcatTwo ==
    ASSUME NEW S, NEW s \in Seq(S), NEW x \in S, NEW y \in S
    PROVE  s \o <<x, y>> = Append(Append(s, x), y)
OBVIOUS

LEMMA ConcatAssoc == \A s, t, u \in Seq(Message) : s \o (t \o u) = (s \o t) \o u
<1> TAKE s, t, u \in Seq(Message)
<1> QED
  OBVIOUS

\* What is left of the orders matters only order by order.
LEMMA ToldSame ==
    ASSUME NEW O, NEW s, NEW h, NEW L, NEW v, Told(O, s, h, L, v), NEW K,
           \A id \in DOMAIN O : K[id] = L[id]
    PROVE  Told(O, s, h, K, v)
BY DEF Told, Tracks

\* A trade of two orders of the account: the two reports, in either order.
LEMMA ToldPair ==
    ASSUME NEW O, NEW s \in Seq(Message), NEW h, NEW L, NEW v \in Int, Told(O, s, h, L, v),
           NEW x \in Message, NEW y \in Message, x.type = "TradeReport", y.type = "TradeReport",
           x.id # y.id, x.id \in Nat, y.id \in Nat,
           Delta(O, x) + Delta(O, y) = 0,
           NEW K,
           \A id \in DOMAIN O : K[id] = IF id = x.id THEN x.remaining
                                        ELSE IF id = y.id THEN y.remaining ELSE L[id]
    PROVE  Told(O, Append(Append(s, x), y), h, K, v)
<1>1. PICK J : J = [id \in DOMAIN O |-> IF id = x.id THEN x.remaining ELSE L[id]]
  OBVIOUS
<1>2. \A id : /\ Speaks(x, id) <=> id = x.id
              /\ Speaks(y, id) <=> id = y.id
              /\ LeftBy(x, id) = x.remaining /\ LeftBy(y, id) = y.remaining
  BY DEF Speaks, LeftBy, Mentions
<1>3. PICK a \in Int, b \in Int : a = Delta(O, x) /\ b = Delta(O, y)
  BY DeltaType
<1>4. \A id \in DOMAIN O : J[id] = IF Speaks(x, id) THEN LeftBy(x, id) ELSE L[id]
  BY <1>1, <1>2
<1>5. Told(O, Append(s, x), h, J, v + a)
  BY <1>3, <1>4, ToldOne
<1>6. Append(s, x) \in Seq(Message) /\ v + a \in Int
  BY <1>3
<1>7. \A id \in DOMAIN O : K[id] = IF Speaks(y, id) THEN LeftBy(y, id) ELSE J[id]
  BY <1>1, <1>2
<1>8. Told(O, Append(Append(s, x), y), h, K, (v + a) + b)
  BY <1>3, <1>5, <1>6, <1>7, ToldOne
<1>9. (v + a) + b = v
  BY <1>3
<1> QED
  BY <1>8, <1>9

\* The reports of a match, after the first one.
LEMMA ToldMatch ==
    ASSUME to_client \in Seq(Message), link, venue_position \in Int,
           NEW book, NEW id \in Nat, NEW side \in Sides, NEW price,
           NEW first \in Message, NEW k \in 0 .. QuoteSize, NEW left, NEW q, NEW contra, NEW a, NEW b,
           Made(book, id, side, price, first, k, left, q, contra, a, b),
           NEW O, DOMAIN O \subseteq Nat, O[id].side = side,
           \A x \in DOMAIN book : O[x].side = book[x].side,
           NEW h, NEW L, Told(O, Append(to_client, first), h, L, venue_position),
           \A x \in DOMAIN O : L[x] = IF x = id THEN QuoteSize ELSE Left(book)[x]
    PROVE  Told(O, to_client', h, Left(resting'), venue_position')
<1>0. left \in Nat /\ q \in Nat /\ left = QuoteSize - k /\ q <= left /\ QuoteSize \in Nat
  BY OmsAssumption DEF Made
<1>1. PICK s \in Seq(Message) : s = Append(to_client, first)
  BY RangeOfAppend
<1>2. /\ a \in Seq(Message) /\ (k = 0 => a = << >>)
      /\ k # 0 => a = <<Trade(id, k, left)>> /\ Trade(id, k, left) \in Message
  <2>1. << >> \in Seq(Message)
    OBVIOUS
  <2>2. Trade(id, k, left) \in Message
    BY <1>0 DEF Trade, Message
  <2>3. <<Trade(id, k, left)>> \in Seq(Message)
    BY <2>2
  <2> QED
    BY <2>1, <2>2, <2>3 DEF Made
<1>3. PICK w \in Int : w = venue_position + (IF side = "Buy" THEN k ELSE -k) /\ w = venue_position'
  BY <1>0 DEF Made
<1>4. PICK K : K = [x \in DOMAIN O |-> IF x = id THEN left ELSE L[x]]
  OBVIOUS
<1>5. Told(O, s \o a, h, K, w)
  <2>1. CASE k = 0
    <3>1. s \o a = s
      BY <1>2, <2>1, ConcatNone
    <3>2. w = venue_position /\ \A x \in DOMAIN O : K[x] = L[x]
      BY <1>0, <1>3, <1>4, <2>1
    <3> QED
      BY <1>1, <3>1, <3>2, ToldSame
  <2>2. CASE k # 0
    <3>1. PICK m \in Message : m = Trade(id, k, left)
      BY <1>2, <2>2
    <3>2. s \o a = Append(s, m)
      BY <1>2, <2>2, <3>1, ConcatOne
    <3>3. m.type = "TradeReport" /\ m.id = id /\ m.quantity = k /\ m.remaining = left
      BY <3>1 DEF Trade
    <3>4. \A x : (Speaks(m, x) <=> x = id) /\ LeftBy(m, x) = left
      BY <3>3 DEF Speaks, LeftBy, Mentions
    <3>5. \A x \in DOMAIN O : K[x] = IF Speaks(m, x) THEN LeftBy(m, x) ELSE L[x]
      BY <1>4, <3>4
    <3>6. venue_position + Delta(O, m) = w
      BY <1>3, <3>3 DEF Delta
    <3>7. Told(O, s, h, L, venue_position)
      BY <1>1
    <3>8. Told(O, Append(s, m), h, K, venue_position + Delta(O, m))
      BY <3>5, <3>7, ToldOne
    <3> QED
      BY <3>2, <3>6, <3>8
  <2> QED
    BY <2>1, <2>2
<1>6. PICK t \in Seq(Message) : t = s \o a
  BY <1>2, RangeOfConcat
<1>7. PICK S : S = Left(resting')
  OBVIOUS
<1>8. \A x \in DOMAIN O : S[x] =
          IF x = id THEN left - q
          ELSE IF q # 0 /\ x = contra THEN book[contra].remaining - q ELSE K[x]
  <2>1. \A x \in Nat : S[x] =
          IF x = id THEN left - q
          ELSE IF q # 0 /\ x = contra THEN book[contra].remaining - q ELSE Left(book)[x]
    BY <1>7 DEF Made
  <2> QED
    BY <1>4, <2>1
<1>9. b \in Seq(Message) /\ Told(O, t \o b, h, S, w)
  <2>1. CASE q = 0
    <3>1. b = << >>
      BY <2>1 DEF Made
    <3>2. b \in Seq(Message) /\ t \o b = t
      BY <3>1, ConcatNone
    <3>3. \A x \in DOMAIN O : S[x] = K[x]
      BY <1>0, <1>4, <1>8, <2>1
    <3> QED
      BY <1>5, <1>6, <3>2, <3>3, ToldSame
  <2>2. CASE q # 0
    <3>1. Crosses(book, id, side, contra, q)
      BY <2>2 DEF Made
    <3>2. PICK x, y : /\ x = Trade(id, q, left - q)
                      /\ y = Trade(contra, q, book[contra].remaining - q)
                      /\ b = <<x, y>> \/ b = <<y, x>>
      BY <2>2 DEF Made
    <3>3. PICK r \in Nat : r = book[contra].remaining - q
      BY <1>0, <3>1 DEF Crosses
    <3>4. /\ x \in Message /\ x.type = "TradeReport" /\ x.id = id /\ x.quantity = q
          /\ x.remaining = left - q
      BY <1>0, <3>2 DEF Trade, Message
    <3>5. /\ y \in Message /\ y.type = "TradeReport" /\ y.id = contra /\ y.quantity = q
          /\ y.remaining = r /\ contra # id /\ contra \in Nat
      BY <1>0, <3>1, <3>2, <3>3 DEF Trade, Message, Crosses
    <3>6. O[contra].side = Opposite(side)
      BY <3>1 DEF Crosses
    <3>7. Delta(O, x) + Delta(O, y) = 0 /\ Delta(O, y) + Delta(O, x) = 0
      BY <1>0, <3>4, <3>5, <3>6 DEF Delta, Opposite, Sides
    <3>8. \A z \in DOMAIN O : S[z] = IF z = x.id THEN x.remaining
                                     ELSE IF z = y.id THEN y.remaining ELSE K[z]
      BY <1>8, <2>2, <3>3, <3>4, <3>5
    <3>9. \A z \in DOMAIN O : S[z] = IF z = y.id THEN y.remaining
                                     ELSE IF z = x.id THEN x.remaining ELSE K[z]
      BY <3>4, <3>5, <3>8
    <3>10. Told(O, t, h, K, w)
      BY <1>5, <1>6
    <3>11. Told(O, Append(Append(t, x), y), h, S, w)
      BY <3>4, <3>5, <3>7, <3>8, <3>10, ToldPair
    <3>12. Told(O, Append(Append(t, y), x), h, S, w)
      BY <3>4, <3>5, <3>7, <3>9, <3>10, ToldPair
    <3>13. /\ <<x, y>> \in Seq(Message) /\ t \o <<x, y>> = Append(Append(t, x), y)
           /\ <<y, x>> \in Seq(Message) /\ t \o <<y, x>> = Append(Append(t, y), x)
      BY <3>4, <3>5, ConcatTwo, RangeOfTwo
    <3> QED
      BY <3>2, <3>11, <3>12, <3>13
  <2> QED
    BY <2>1, <2>2
<1>10. to_client' = t \o b
  <2>1. PICK f : f = <<first>>
    OBVIOUS
  <2>2. f \in Seq(Message) /\ to_client \o f = s
    BY <1>1, <2>1, ConcatOne
  <2>3. to_client' = to_client \o ((f \o a) \o b)
    BY <2>1 DEF Made, Report
  <2>4. PICK g \in Seq(Message) : g = f \o a
    BY <1>2, <2>2, RangeOfConcat
  <2>5. to_client' = (to_client \o g) \o b
    <3>1. to_client \o (g \o b) = (to_client \o g) \o b
      BY <1>9, <2>4, ConcatAssoc, Zenon
    <3> QED
      BY <2>3, <2>4, <3>1
  <2>6. to_client \o (f \o a) = (to_client \o f) \o a
    <3>1. f \in Seq(Message) /\ a \in Seq(Message) /\ to_client \in Seq(Message)
      BY <1>2, <2>2
    <3> QED
      BY <3>1, ConcatAssoc, Zenon
  <2> QED
    BY <1>6, <2>2, <2>4, <2>5, <2>6
<1> QED
  BY <1>3, <1>7, <1>9, <1>10

-----------------------------------------------------------------------------
(***************************************************************************)
(* Agreement under the venue's steps.                                      *)
(***************************************************************************)
LEMMA AgreeVenue ==
    ASSUME AgreeInv, UNCHANGED <<omsVars, callerVars, readerVars, link, lostVars>>,
           venue_position' \in Int,
           link => Priced(orders, Commands', Range(to_client)', resting'),
           link /\ lost_reports = {} =>
              Told(orders, to_client', Settled, Left(resting'), venue_position')
    PROVE  AgreeInv'
<1>1. /\ orders' = orders /\ fill' = fill /\ holdings' = holdings /\ link' = link
      /\ send_failed' = send_failed /\ lost_reports' = lost_reports
  BY DEF omsVars, callerVars, readerVars, lostVars
<1>2. Settled' = Settled
  BY <1>1 DEF Settled, apply
<1>3. /\ holdings' \in Int /\ fill' \in FillType \cup {None}
  BY <1>1 DEF AgreeInv
<1>4. ASSUME link'
      PROVE  /\ ~send_failed'
             /\ Priced(orders', Commands', Range(to_client)', resting')
             /\ lost_reports' = {} =>
                   Told(orders', to_client', Settled', Left(resting'), venue_position')
  <2>1. link
    BY <1>1, <1>4, Zenon
  <2>2. ~send_failed
    BY <2>1 DEF AgreeInv
  <2>3. /\ Priced(orders, Commands', Range(to_client)', resting')
        /\ lost_reports = {} => Told(orders, to_client', Settled, Left(resting'), venue_position')
    BY <2>1
  <2> QED
    BY <1>1, <1>2, <2>2, <2>3, Zenon
<1> QED
  BY <1>3, <1>4, Zenon DEF AgreeInv

\* One report.
LEMMA AgreeOne ==
    ASSUME TraderInv, AgreeInv, UNCHANGED <<omsVars, callerVars, readerVars, link, lostVars>>,
           Commands' \subseteq Commands,
           NEW r \in Message, r.type # "Replaced", Report(<<r>>),
           venue_position' = venue_position + Delta(orders, r),
           \A id \in DOMAIN orders :
              Left(resting')[id] = IF Speaks(r, id) THEN LeftBy(r, id) ELSE Left(resting)[id],
           \A id \in DOMAIN resting' : id \in DOMAIN resting /\ resting'[id].price = resting[id].price
    PROVE  AgreeInv'
<1>1. to_client \in Seq(Message) /\ venue_position \in Int
  BY DEF TraderInv, WireTyped, AgreeInv
<1>2. venue_position' \in Int
  BY <1>1, DeltaType
<1>3. Range(to_client)' \subseteq Range(to_client) \cup {r}
  BY <1>1, ReportedOne
<1>4. ASSUME link PROVE Priced(orders, Commands', Range(to_client)', resting')
  BY <1>3, <1>4 DEF AgreeInv, Priced
<1>5. ASSUME link, lost_reports = {}
      PROVE  Told(orders, to_client', Settled, Left(resting'), venue_position')
  <2>1. to_client' = Append(to_client, r)
    BY <1>1, <1>5, ConcatOne DEF Report
  <2>2. Told(orders, to_client, Settled, Left(resting), venue_position)
    BY <1>5 DEF AgreeInv
  <2>3. PICK K, L : K = Left(resting') /\ L = Left(resting)
    OBVIOUS
  <2>4. Told(orders, to_client, Settled, L, venue_position)
    BY <2>2, <2>3
  <2>5. \A id \in DOMAIN orders : K[id] = IF Speaks(r, id) THEN LeftBy(r, id) ELSE L[id]
    BY <2>3
  <2>6. Told(orders, Append(to_client, r), Settled, K, venue_position + Delta(orders, r))
    BY <1>1, <2>4, <2>5, ToldOne
  <2> QED
    BY <2>1, <2>3, <2>6
<1> QED
  BY <1>2, <1>4, <1>5, AgreeVenue

LEMMA RefusalAgrees ==
    ASSUME TraderInv, AgreeInv, NEW m, Take(m), Rejected(m.id)
    PROVE  AgreeInv'
<1>1. Commands' \subseteq Commands /\ m \in Command
  BY Taken DEF TraderInv
<1>2. PICK r : r = [type |-> "Rejected", id |-> m.id]
  OBVIOUS
<1>3. r \in Message /\ r.type = "Rejected" /\ Report(<<r>>)
  BY <1>1, <1>2 DEF Message, Command, Rejected
<1>4. /\ UNCHANGED <<omsVars, callerVars, readerVars, link, lostVars>>
      /\ resting' = resting /\ venue_position' = venue_position
  BY DEF Take, Rejected, venueVars
<1>5. Delta(orders, r) = 0 /\ \A id : ~Speaks(r, id)
  BY <1>3 DEF Delta, Speaks
<1>6. venue_position' = venue_position + Delta(orders, r)
  BY <1>4, <1>5 DEF AgreeInv
<1>7. /\ \A id \in DOMAIN orders :
            Left(resting')[id] = IF Speaks(r, id) THEN LeftBy(r, id) ELSE Left(resting)[id]
      /\ \A id \in DOMAIN resting' : id \in DOMAIN resting /\ resting'[id].price = resting[id].price
  BY <1>4, <1>5
<1>8. r.type # "Replaced"
  BY <1>3
<1> QED
  BY <1>1, <1>3, <1>4, <1>6, <1>7, <1>8, AgreeOne

LEMMA CancelOrderAgrees ==
    ASSUME TraderInv, AgreeInv, VenueCancelOrder
    PROVE  AgreeInv'
<1>1. PICK m \in Range(to_exchange) :
        /\ Take(m)
        /\ \/ Rejected(m.id)
           \/ /\ m.id \in DOMAIN resting
              /\ resting' = Without(resting, m.id)
              /\ Report(<<[type |-> "Cancelled", id |-> m.id]>>)
              /\ venue_position' = venue_position
  BY DEF VenueCancelOrder
<1>2. CASE Rejected(m.id)
  BY <1>1, <1>2, RefusalAgrees
<1>3. CASE ~Rejected(m.id)
  <2>1. PICK r : r = [type |-> "Cancelled", id |-> m.id]
    OBVIOUS
  <2>2. Commands' \subseteq Commands /\ m \in Command
    BY <1>1, Taken DEF TraderInv
  <2>3. UNCHANGED <<omsVars, callerVars, readerVars, link, lostVars>> /\ venue_position' = venue_position
    BY <1>1, <1>3 DEF Take, Rejected
  <2>4. DOMAIN orders \subseteq Nat /\ DOMAIN resting \subseteq Nat
    BY DEF TraderInv, Coherent, Sound, Typed
  <2>5. resting' = [x \in DOMAIN resting \ {m.id} |-> resting[x]] /\ m.id \in DOMAIN resting
    BY <1>1, <1>3 DEF Without, Restrict
  <2>6. r.type = "Cancelled" /\ r.id = m.id /\ r \in Message /\ Report(<<r>>)
    BY <1>1, <1>3, <2>1, <2>4, <2>5 DEF Message
  <2>7. /\ Delta(orders, r) = 0
        /\ \A x : (Speaks(r, x) <=> x = m.id) /\ LeftBy(r, x) = 0
    BY <2>6 DEF Delta, Speaks, LeftBy, Mentions
  <2>8. venue_position' = venue_position + Delta(orders, r)
    BY <2>3, <2>7 DEF AgreeInv
  <2>9. \A id \in DOMAIN orders :
            Left(resting')[id] = IF Speaks(r, id) THEN LeftBy(r, id) ELSE Left(resting)[id]
    BY <2>4, <2>5, <2>7 DEF Left
  <2>10. \A id \in DOMAIN resting' : id \in DOMAIN resting /\ resting'[id].price = resting[id].price
    BY <2>5
  <2>11. r.type # "Replaced"
    BY <2>6
  <2> QED
    BY <2>2, <2>3, <2>6, <2>8, <2>9, <2>10, <2>11, AgreeOne
<1> QED
  BY <1>2, <1>3

LEMMA TradeAgrees ==
    ASSUME TraderInv, AgreeInv, VenueTrade
    PROVE  AgreeInv'
<1>0. PICK id \in DOMAIN resting :
        \E q \in 1 .. resting[id].remaining :
           /\ resting' = IF q = resting[id].remaining THEN Without(resting, id)
                         ELSE [resting EXCEPT ![id].remaining = @ - q]
           /\ venue_position' = IF resting[id].side = "Buy" THEN venue_position + q
                                ELSE venue_position - q
           /\ Report(<<Trade(id, q, resting[id].remaining - q)>>)
           /\ UNCHANGED <<omsVars, callerVars, readerVars, link, to_exchange, lostVars>>
  BY DEF VenueTrade
<1>1. PICK q \in 1 .. resting[id].remaining :
        /\ resting' = IF q = resting[id].remaining THEN Without(resting, id)
                      ELSE [resting EXCEPT ![id].remaining = @ - q]
        /\ venue_position' = IF resting[id].side = "Buy" THEN venue_position + q
                             ELSE venue_position - q
        /\ Report(<<Trade(id, q, resting[id].remaining - q)>>)
        /\ UNCHANGED <<omsVars, callerVars, readerVars, link, to_exchange, lostVars>>
  BY <1>0
<1>2. Commands' \subseteq Commands /\ UNCHANGED <<omsVars, callerVars, readerVars, link, lostVars>>
  BY <1>1 DEF Commands, callerVars
<1>3. /\ resting \in [DOMAIN resting -> RestingOrder] /\ DOMAIN resting \subseteq Nat
      /\ id \in Nat /\ resting[id] \in RestingOrder /\ DOMAIN orders \subseteq Nat
      /\ orders[id].side = resting[id].side
  BY DEF TraderInv, Coherent, Sound, Typed, BookSound
<1>4. PICK o \in RestingOrder : o = resting[id]
  BY <1>3
<1>5. PICK left \in Nat : left = o.remaining - q
  BY <1>4 DEF RestingOrder
<1>6. PICK r : r = Trade(id, q, left)
  OBVIOUS
<1>7. /\ r \in Message /\ r.type = "TradeReport" /\ r.id = id /\ r.remaining = left
      /\ r.quantity = q /\ Report(<<r>>) /\ q \in Int
  BY <1>1, <1>3, <1>4, <1>5, <1>6 DEF Trade, Message, RestingOrder
<1>8. /\ \A x : (Speaks(r, x) <=> x = id) /\ LeftBy(r, x) = left
      /\ Delta(orders, r) = IF o.side = "Buy" THEN q ELSE -q
  BY <1>3, <1>4, <1>7 DEF Delta, Speaks, LeftBy, Mentions
<1>9. venue_position' = venue_position + Delta(orders, r)
  <2>1. venue_position \in Int
    BY DEF AgreeInv
  <2>2. venue_position' = IF o.side = "Buy" THEN venue_position + q ELSE venue_position - q
    BY <1>1, <1>4
  <2> QED
    BY <1>7, <1>8, <2>1, <2>2
<1>10. /\ \A x \in Nat : Left(resting')[x] = IF x = id THEN left ELSE Left(resting)[x]
       /\ \A x \in DOMAIN resting' : x \in DOMAIN resting /\ resting'[x].price = resting[x].price
  <2>1. CASE q = o.remaining
    <3>1. resting' = [x \in DOMAIN resting \ {id} |-> resting[x]]
      BY <1>1, <1>4, <2>1 DEF Without, Restrict
    <3>2. left = 0
      BY <1>5, <1>7, <2>1
    <3> QED
      BY <3>1, <3>2 DEF Left
  <2>2. CASE q # o.remaining
    <3>1. PICK v : v = [o EXCEPT !.remaining = left]
      OBVIOUS
    <3>2. v.remaining = left /\ v.price = o.price
      BY <1>4, <3>1 DEF RestingOrder
    <3>3. resting' = [resting EXCEPT ![id] = v]
      BY <1>1, <1>4, <1>5, <2>2, <3>1
    <3>4. DOMAIN resting' = DOMAIN resting /\ resting'[id] = v
          /\ \A x \in DOMAIN resting \ {id} : resting'[x] = resting[x]
      BY <1>3, <3>3
    <3> QED
      BY <1>4, <3>2, <3>4 DEF Left
  <2> QED
    BY <2>1, <2>2
<1>11. \A x \in DOMAIN orders :
          Left(resting')[x] = IF Speaks(r, x) THEN LeftBy(r, x) ELSE Left(resting)[x]
  BY <1>3, <1>8, <1>10
<1>12. r.type # "Replaced"
  BY <1>7
<1> QED
  BY <1>2, <1>7, <1>9, <1>10, <1>11, <1>12, AgreeOne
\* The venue takes m and lets its order id in.
LEMMA ArrivalAgrees ==
    ASSUME TraderInv, AgreeInv, NEW m, Take(m), NEW id \in Creates(m),
           NEW book, book \in [DOMAIN book -> RestingOrder],
           DOMAIN book \subseteq DOMAIN resting,
           \A x \in DOMAIN book : book[x] = resting[x],
           NEW side \in Sides, side = orders[id].side,
           NEW price \in PriceOrNone, link => price = orders[id].price,
           NEW first \in Message, first.type # "TradeReport", Speaks(first, id),
           LeftBy(first, id) = QuoteSize,
           \A x \in DOMAIN orders : Speaks(first, x) /\ x # id => LeftBy(first, x) = Left(book)[x],
           \A x \in DOMAIN orders : ~Speaks(first, x) => Left(resting)[x] = Left(book)[x],
           first.type = "Replaced" => /\ first.id # first.new_id
                                      /\ link => orders[first.new_id].price = first.price,
           NEW k \in 0 .. QuoteSize, Match(book, id, side, price, first, k)
    PROVE  AgreeInv'
<1>1. /\ to_client \in Seq(Message) /\ venue_position \in Int /\ m \in Commands
      /\ Commands' \subseteq Commands /\ m \in Command
  BY Taken DEF TraderInv, WireTyped, AgreeInv
<1>2. /\ Sound(orders, next_client_order_id, Commands, Range(to_client), resting)
      /\ DOMAIN orders \subseteq Nat /\ DOMAIN resting \subseteq Nat
      /\ BookSound(orders, resting)
  BY DEF TraderInv, Coherent, Sound, Typed
<1>3. id \in DOMAIN orders /\ id \notin DOMAIN resting /\ id \in Nat
  BY <1>1, <1>2, CreatedBy, CreatedPending
<1>4. DOMAIN book \subseteq Nat /\ id \notin DOMAIN book
  BY <1>2, <1>3
<1>5. PICK left, q, contra, a, b : Made(book, id, side, price, first, k, left, q, contra, a, b)
  BY <1>3, <1>4, MatchParts
<1>6. UNCHANGED <<omsVars, callerVars, readerVars, link, lostVars>>
  BY DEF Take
<1>7. venue_position' \in Int
  <2>1. k \in Int
    BY OmsAssumption
  <2> QED
    BY <1>1, <1>5, <2>1 DEF Made
<1>8. ASSUME link, lost_reports = {}
      PROVE  Told(orders, to_client', Settled, Left(resting'), venue_position')
  <2>1. PICK K, L : /\ K = [x \in DOMAIN orders |-> IF x = id THEN QuoteSize ELSE Left(book)[x]]
                    /\ L = Left(resting)
    OBVIOUS
  <2>2. Told(orders, to_client, Settled, L, venue_position)
    BY <1>8, <2>1 DEF AgreeInv
  <2>3. \A x \in DOMAIN orders : K[x] = IF Speaks(first, x) THEN LeftBy(first, x) ELSE L[x]
    BY <2>1
  <2>4. Told(orders, Append(to_client, first), Settled, K, venue_position + Delta(orders, first))
    BY <1>1, <2>2, <2>3, ToldOne
  <2>5. venue_position + Delta(orders, first) = venue_position
    BY <1>1 DEF Delta
  <2>6. Told(orders, Append(to_client, first), Settled, K, venue_position)
    BY <2>4, <2>5
  <2>7. \A x \in DOMAIN orders : K[x] = IF x = id THEN QuoteSize ELSE Left(book)[x]
    BY <2>1
  <2>8. \A x \in DOMAIN book : orders[x].side = book[x].side
    BY <1>2 DEF BookSound
  <2>9. link
    BY <1>8
  <2> QED
    BY <1>1, <1>2, <1>3, <1>5, <2>6, <2>7, <2>8, <2>9, ToldMatch
<1>9. ASSUME link PROVE Priced(orders, Commands', Range(to_client)', resting')
  <2>1. Priced(orders, Commands, Range(to_client), resting) /\ price = orders[id].price
    BY <1>9 DEF AgreeInv
  <2>2. \A r \in Range(to_client)' : r \in Range(to_client) \/ r = first \/ r.type # "Replaced"
    <3>1. \A r \in Range(to_client)' :
             \/ r \in Range(to_client) \/ r = first
             \/ r.type = "TradeReport" /\ r.id = id /\ (r.remaining = 0 => id \notin DOMAIN resting')
             \/ Tells(book, resting', r)
      BY <1>1, <1>3, <1>4, Matched
    <3> QED
      BY <3>1 DEF Tells
  <2>3. \A x \in DOMAIN resting' : resting'[x].price = orders[x].price
    <3>1. \A x \in DOMAIN resting' :
             \/ x = id /\ resting'[x].price = price
             \/ x \in DOMAIN book /\ resting'[x].price = book[x].price
      BY <1>5 DEF Made
    <3> QED
      BY <2>1, <3>1 DEF Priced
  <2>4. \A r \in Range(to_client)' : r.type = "Replaced" => r.id # r.new_id /\ orders[r.new_id].price = r.price
    BY <1>9, <2>1, <2>2 DEF Priced
  <2> QED
    BY <1>1, <2>1, <2>3, <2>4 DEF Priced
<1> QED
  BY <1>6, <1>7, <1>8, <1>9, AgreeVenue

LEMMA NewOrderAgrees ==
    ASSUME TraderInv, AgreeInv, VenueNewOrder
    PROVE  AgreeInv'
<1>1. PICK m \in Range(to_exchange) :
        /\ Take(m) /\ m.type = "NewOrder"
        /\ \/ Rejected(m.id)
           \/ \E k \in 0 .. QuoteSize :
                 Match(resting, m.id, m.side, m.price, [type |-> "Accepted", id |-> m.id], k)
  <2>1. \A S : (IF S = {} THEN {0} ELSE 0 .. QuoteSize) \subseteq 0 .. QuoteSize
    BY OmsAssumption
  <2> QED
    BY <2>1 DEF VenueNewOrder
<1>2. CASE Rejected(m.id)
  BY <1>1, <1>2, RefusalAgrees
<1>3. CASE \E k \in 0 .. QuoteSize :
              Match(resting, m.id, m.side, m.price, [type |-> "Accepted", id |-> m.id], k)
  <2>1. PICK f : f = [type |-> "Accepted", id |-> m.id]
    OBVIOUS
  <2>2. PICK k \in 0 .. QuoteSize : Match(resting, m.id, m.side, m.price, f, k)
    BY <1>3, <2>1
  <2>3. m \in Command /\ m \in Commands
    BY <1>1, Taken DEF TraderInv
  <2>4. /\ m.side \in Sides /\ m.price \in PriceOrNone /\ m.id \in Creates(m) /\ f \in Message
        /\ f.type = "Accepted" /\ f.id = m.id
    BY <1>1, <2>1, <2>3 DEF Command, Message, Creates
  <2>5. m.side = orders[m.id].side
    BY <1>1, <2>3 DEF TraderInv, Coherent, Sound, CommandSound
  <2>6. resting \in [DOMAIN resting -> RestingOrder]
    BY DEF TraderInv, Coherent, Sound, Typed
  <2>7. link => m.price = orders[m.id].price
    BY <1>1, <2>3 DEF AgreeInv, Priced
  <2>8. /\ \A x : Speaks(f, x) <=> x = m.id
        /\ LeftBy(f, m.id) = QuoteSize /\ f.type # "TradeReport" /\ f.type # "Replaced"
    BY <2>4 DEF Speaks, LeftBy, Mentions
  <2>9. /\ Speaks(f, m.id)
        /\ \A x \in DOMAIN orders : Speaks(f, x) /\ x # m.id => LeftBy(f, x) = Left(resting)[x]
    BY <2>8
  <2> QED
    BY <1>1, <2>2, <2>4, <2>5, <2>6, <2>7, <2>8, <2>9, ArrivalAgrees
<1> QED
  BY <1>1, <1>2, <1>3

LEMMA ReplaceOrderAgrees ==
    ASSUME TraderInv, AgreeInv, VenueReplaceOrder
    PROVE  AgreeInv'
<1>1. PICK m \in Range(to_exchange) :
        /\ Take(m) /\ m.type = "ReplaceOrder"
        /\ \/ Rejected(m.id)
           \/ /\ m.id \in DOMAIN resting
              /\ \E k \in 0 .. QuoteSize :
                    Match(Without(resting, m.id), m.new_id, resting[m.id].side, m.price,
                          [type |-> "Replaced", id |-> m.id, new_id |-> m.new_id,
                           price |-> m.price], k)
  <2>1. \A S : (IF S = {} THEN {0} ELSE 0 .. QuoteSize) \subseteq 0 .. QuoteSize
    BY OmsAssumption
  <2> QED
    BY <2>1 DEF VenueReplaceOrder
<1>2. CASE Rejected(m.id)
  BY <1>1, <1>2, RefusalAgrees
<1>3. CASE ~Rejected(m.id)
  <2>1. PICK f : f = [type |-> "Replaced", id |-> m.id, new_id |-> m.new_id, price |-> m.price]
    OBVIOUS
  <2>2. PICK b : b = Without(resting, m.id)
    OBVIOUS
  <2>3. PICK k \in 0 .. QuoteSize : Match(b, m.new_id, resting[m.id].side, m.price, f, k)
    BY <1>1, <1>3, <2>1, <2>2
  <2>4. m \in Command /\ m \in Commands /\ m.id \in DOMAIN resting
    BY <1>1, <1>3, Taken DEF TraderInv
  <2>5. /\ m.price \in PriceOrNone /\ m.new_id \in Creates(m) /\ f \in Message
        /\ f.type = "Replaced" /\ f.id = m.id /\ f.new_id = m.new_id /\ f.price = m.price
    BY <1>1, <2>1, <2>4 DEF Command, Message, Creates
  <2>6. /\ CommandSound(orders, resting, m) /\ BookSound(orders, resting)
        /\ resting \in [DOMAIN resting -> RestingOrder] /\ DOMAIN orders \subseteq Nat
    BY <2>4 DEF TraderInv, Coherent, Sound, Typed
  <2>7. PICK s \in Sides : s = resting[m.id].side
    BY <2>4, <2>6 DEF RestingOrder
  <2>8. s = orders[m.new_id].side /\ m.new_id # m.id
    BY <1>1, <2>4, <2>5, <2>6, <2>7 DEF CommandSound, BookSound
  <2>9. b = [x \in DOMAIN resting \ {m.id} |-> resting[x]]
    BY <2>2 DEF Without, Restrict
  <2>10. /\ b \in [DOMAIN b -> RestingOrder] /\ DOMAIN b \subseteq DOMAIN resting
         /\ \A x \in DOMAIN b : b[x] = resting[x]
    BY <2>6, <2>9
  <2>11. Match(b, m.new_id, s, m.price, f, k)
    BY <2>3, <2>7
  <2>12. link => m.price = orders[m.new_id].price
    BY <1>1, <2>4 DEF AgreeInv, Priced
  <2>13. /\ \A x : Speaks(f, x) <=> x \in {m.id, m.new_id}
         /\ LeftBy(f, m.new_id) = QuoteSize /\ LeftBy(f, m.id) = 0
    BY <2>5, <2>8 DEF Speaks, LeftBy, Mentions
  <2>14. \A x \in Nat : Left(b)[x] = IF x = m.id THEN 0 ELSE Left(resting)[x]
    BY <2>9 DEF Left
  <2>15. /\ Speaks(f, m.new_id) /\ LeftBy(f, m.new_id) = QuoteSize
         /\ \A x \in DOMAIN orders : Speaks(f, x) /\ x # m.new_id => LeftBy(f, x) = Left(b)[x]
         /\ \A x \in DOMAIN orders : ~Speaks(f, x) => Left(resting)[x] = Left(b)[x]
    BY <2>6, <2>13, <2>14
  <2>16. /\ f.type # "TradeReport"
         /\ f.type = "Replaced" => /\ f.id # f.new_id
                                   /\ link => orders[f.new_id].price = f.price
    BY <2>5, <2>8, <2>12
  <2> QED
    BY <1>1, <2>5, <2>8, <2>10, <2>11, <2>12, <2>15, <2>16, ArrivalAgrees
<1> QED
  BY <1>2, <1>3
-----------------------------------------------------------------------------
(***************************************************************************)
(* Agreement under the steps of the trader.                                *)
(***************************************************************************)
\* What the OMS makes of a report on orders it knows.
LEMMA HandledRight ==
    ASSUME orders \in [DOMAIN orders -> Order], NEW m \in Message,
           Mentions(m) \subseteq DOMAIN orders,
           m.type = "Replaced" => m.id # m.new_id /\ orders[m.new_id].price = m.price
    PROVE  /\ DOMAIN Handled(m) = DOMAIN orders
           /\ \A id \in DOMAIN orders : Handled(m)[id].price = orders[id].price
           /\ \A id \in DOMAIN orders :
                 IF Speaks(m, id) THEN RightAbout(Handled(m)[id], LeftBy(m, id))
                 ELSE \A l : RightAbout(orders[id], l) => RightAbout(Handled(m)[id], l)
<1>0. QuoteSize \in Nat \ {0} /\ QuoteSize \in Int
  BY OmsAssumption
<1>1. m.id \in DOMAIN orders /\ Known(m.id)
  BY DEF Mentions, Known
<1>2. PICK o \in Order : o = orders[m.id]
  BY <1>1
<1>3. ASSUME NEW v \in Order, v.price = o.price,
             m.type # "Replaced", Handled(m) = [orders EXCEPT ![m.id] = v],
             m.type # "Rejected" => RightAbout(v, LeftBy(m, m.id)),
             m.type = "Rejected" => \A l : RightAbout(o, l) => RightAbout(v, l)
      PROVE  /\ DOMAIN Handled(m) = DOMAIN orders
             /\ \A id \in DOMAIN orders : Handled(m)[id].price = orders[id].price
             /\ \A id \in DOMAIN orders :
                   IF Speaks(m, id) THEN RightAbout(Handled(m)[id], LeftBy(m, id))
                   ELSE \A l : RightAbout(orders[id], l) => RightAbout(Handled(m)[id], l)
  <2>1. PICK P : P = Handled(m)
    OBVIOUS
  <2>2. /\ DOMAIN P = DOMAIN orders /\ P[m.id] = v
        /\ \A x \in DOMAIN orders \ {m.id} : P[x] = orders[x]
    BY <1>1, <1>3, <2>1
  <2>3. \A id : Speaks(m, id) <=> m.type # "Rejected" /\ id = m.id
    BY <1>3 DEF Speaks, Mentions
  <2>4. \A id \in DOMAIN orders : P[id].price = orders[id].price
    BY <1>2, <1>3, <2>2
  <2>5. ASSUME NEW id \in DOMAIN orders
        PROVE  IF Speaks(m, id) THEN RightAbout(P[id], LeftBy(m, id))
               ELSE \A l : RightAbout(orders[id], l) => RightAbout(P[id], l)
    BY <1>2, <1>3, <2>2, <2>3
  <2> QED
    BY <2>1, <2>2, <2>4, <2>5
<1>4. CASE m.type = "Accepted"
  <2>1. PICK v : v = [o EXCEPT !.state = "Live", !.remaining = QuoteSize]
    OBVIOUS
  <2>2. v \in Order /\ v.price = o.price /\ v.state = "Live" /\ v.remaining = QuoteSize
    BY <1>0, <2>1 DEF Order
  <2>3. Handled(m) = [orders EXCEPT ![m.id] = v]
    BY <1>1, <1>2, <1>4, <2>1 DEF Handled, on_accepted
  <2>4. RightAbout(v, LeftBy(m, m.id))
    BY <1>0, <1>4, <2>2 DEF RightAbout, LeftBy, is_live
  <2> QED
    BY <1>3, <1>4, <2>2, <2>3, <2>4
<1>5. CASE m.type = "Rejected"
  <2>1. PICK v : v = [o EXCEPT !.state = IF @ = "PendingNew" THEN "Rejected" ELSE @,
                               !.pending = "None"]
    OBVIOUS
  <2>2. /\ v \in Order /\ v.price = o.price /\ v.remaining = o.remaining
        /\ v.state = IF o.state = "PendingNew" THEN "Rejected" ELSE o.state
    BY <2>1 DEF Order
  <2>3. Handled(m) = [orders EXCEPT ![m.id] = v]
    BY <1>1, <1>2, <1>5, <2>1 DEF Handled, on_rejected
  <2>4. \A l : RightAbout(o, l) => RightAbout(v, l)
    BY <2>2 DEF RightAbout, is_live
  <2> QED
    BY <1>3, <1>5, <2>2, <2>3, <2>4
<1>6. CASE m.type = "Cancelled"
  <2>1. PICK v : v = [o EXCEPT !.state = "Cancelled", !.pending = "None"]
    OBVIOUS
  <2>2. v \in Order /\ v.price = o.price /\ v.state = "Cancelled"
    BY <2>1 DEF Order
  <2>3. Handled(m) = [orders EXCEPT ![m.id] = v]
    BY <1>1, <1>2, <1>6, <2>1 DEF Handled, on_cancelled
  <2>4. RightAbout(v, LeftBy(m, m.id))
    BY <1>6, <2>2 DEF RightAbout, LeftBy, is_live
  <2> QED
    BY <1>3, <1>6, <2>2, <2>3, <2>4
<1>7. CASE m.type = "TradeReport"
  <2>1. PICK s : s = IF m.remaining = 0 THEN "Filled" ELSE "PartiallyFilled"
    OBVIOUS
  <2>2. PICK v : v = [o EXCEPT !.remaining = m.remaining, !.state = s]
    OBVIOUS
  <2>3. v \in Order /\ v.price = o.price /\ v.state = s /\ v.remaining = m.remaining
    BY <1>7, <2>1, <2>2 DEF Order, Message
  <2>4. Handled(m) = [orders EXCEPT ![m.id] = v]
    BY <1>1, <1>2, <1>7, <2>1, <2>2 DEF Handled, on_trade_report
  <2>5. RightAbout(v, LeftBy(m, m.id))
    BY <1>7, <2>1, <2>3 DEF RightAbout, LeftBy, is_live
  <2> QED
    BY <1>3, <1>7, <2>3, <2>4, <2>5
<1>8. CASE m.type = "Replaced"
  <2>1. PICK P : P = Handled(m)
    OBVIOUS
  <2>2. P = [i \in DOMAIN orders |->
               IF i = m.id THEN [orders[i] EXCEPT !.state = "Replaced", !.pending = "None"]
               ELSE IF i = m.new_id
                 THEN [orders[i] EXCEPT !.state = "Live", !.price = m.price, !.remaining = QuoteSize]
               ELSE orders[i]]
    BY <1>1, <1>8, <2>1 DEF Handled, on_replaced
  <2>3. ASSUME NEW i \in DOMAIN orders
        PROVE  /\ P[i].price = orders[i].price
               /\ i = m.id => P[i].state = "Replaced"
               /\ i = m.new_id => P[i].state = "Live" /\ P[i].remaining = QuoteSize
               /\ i # m.id /\ i # m.new_id => P[i] = orders[i]
    <3>1. PICK w \in Order : w = orders[i]
      OBVIOUS
    <3>2. P[i] = IF i = m.id THEN [w EXCEPT !.state = "Replaced", !.pending = "None"]
                 ELSE IF i = m.new_id
                   THEN [w EXCEPT !.state = "Live", !.price = m.price, !.remaining = QuoteSize]
                 ELSE w
      BY <2>2, <3>1
    <3>3. CASE i = m.id
      BY <1>8, <3>1, <3>2, <3>3 DEF Order
    <3>4. CASE i # m.id /\ i = m.new_id
      BY <1>8, <3>1, <3>2, <3>4 DEF Order
    <3>5. CASE i # m.id /\ i # m.new_id
      BY <3>1, <3>2, <3>5
    <3> QED
      BY <3>3, <3>4, <3>5
  <2>4. /\ \A id : Speaks(m, id) <=> id \in {m.id, m.new_id}
        /\ LeftBy(m, m.id) = 0 /\ LeftBy(m, m.new_id) = QuoteSize
    BY <1>8 DEF Speaks, Mentions, LeftBy
  <2>5. DOMAIN P = DOMAIN orders
    BY <2>2
  <2>6. ASSUME NEW id \in DOMAIN orders
        PROVE  IF Speaks(m, id) THEN RightAbout(P[id], LeftBy(m, id))
               ELSE \A l : RightAbout(orders[id], l) => RightAbout(P[id], l)
    <3>1. CASE id = m.id
      BY <1>8, <2>3, <2>4, <3>1 DEF RightAbout, is_live
    <3>2. CASE id = m.new_id
      BY <1>0, <1>8, <2>3, <2>4, <3>2 DEF RightAbout, is_live
    <3>3. CASE id # m.id /\ id # m.new_id
      <4>1. P[id] = orders[id] /\ ~Speaks(m, id)
        BY <2>3, <2>4, <3>3
      <4> QED
        BY <4>1
    <3> QED
      BY <3>1, <3>2, <3>3
  <2> QED
    BY <2>1, <2>3, <2>5, <2>6
<1> QED
  BY <1>4, <1>5, <1>6, <1>7, <1>8 DEF Message

\* The fill a report leaves to settle.
LEMMA FillIsDelta ==
    ASSUME orders \in [DOMAIN orders -> Order], NEW m \in Message, m.id \in DOMAIN orders,
           fill' = IF m.type = "TradeReport" /\ Known(m.id) THEN Fill(m) ELSE None,
           holdings \in Int, holdings' = holdings
    PROVE  fill' \in FillType \cup {None} /\ Settled' = holdings + Delta(orders, m)
<1>1. CASE m.type = "TradeReport"
  <2>1. PICK g : g = fill'
    OBVIOUS
  <2>2. g = [side |-> orders[m.id].side, quantity |-> m.quantity]
    BY <1>1, <2>1 DEF Known, Fill
  <2>3. orders[m.id].side \in Sides /\ m.quantity \in Int
    BY <1>1 DEF Order, Message
  <2>4. g \in FillType /\ g.side = orders[m.id].side /\ g.quantity = m.quantity
    BY <2>2, <2>3 DEF FillType
  <2>5. g # None
    BY <2>4, MarkAssumption
  <2>6. Settled' = IF g.side = "Buy" THEN holdings + g.quantity ELSE holdings - g.quantity
    BY <2>1, <2>5 DEF Settled, apply
  <2> QED
    BY <1>1, <2>1, <2>3, <2>4, <2>6 DEF Delta
<1>2. CASE m.type # "TradeReport"
  <2>1. fill' = None
    BY <1>2
  <2>2. Settled' = holdings
    BY <2>1 DEF Settled
  <2> QED
    BY <1>2, <2>1, <2>2 DEF Delta
<1> QED
  BY <1>1, <1>2

LEMMA HandleAgrees ==
    ASSUME TraderInv, AgreeInv, handle_message
    PROVE  AgreeInv'
<1>1. PICK m : m = Head(to_client)
  OBVIOUS
<1>2. /\ to_client # << >> /\ orders' = Handled(m) /\ to_client' = Tail(to_client) /\ fill = None
      /\ fill' = IF m.type = "TradeReport" /\ Known(m.id) THEN Fill(m) ELSE None
      /\ UNCHANGED <<next_client_order_id, callerVars, holdings, connected, venueVars,
                     link, to_exchange, lostVars>>
  BY <1>1 DEF handle_message
<1>3. to_client \in Seq(Message) /\ holdings \in Int /\ venue_position \in Int
  BY DEF TraderInv, WireTyped, AgreeInv
<1>4. /\ m \in Message /\ m \in Range(to_client) /\ to_client' \in Seq(Message)
      /\ Range(to_client') \subseteq Range(to_client)
  BY <1>1, <1>2, <1>3, RangeOfTail
<1>5. /\ orders \in [DOMAIN orders -> Order] /\ BookSound(orders, resting)
      /\ \A r \in Range(to_client) : ReportSound(orders, Commands, resting, r)
  BY DEF TraderInv, Coherent, Sound, Typed
<1>6. m.id \in DOMAIN orders /\ Mentions(m) \subseteq DOMAIN orders
  BY <1>4, <1>5 DEF ReportSound, Mentions
<1>7. fill' \in FillType \cup {None} /\ Settled' = holdings + Delta(orders, m)
  BY <1>2, <1>3, <1>4, <1>5, <1>6, FillIsDelta
<1>8. /\ holdings' = holdings /\ venue_position' = venue_position /\ resting' = resting
      /\ link' = link /\ send_failed' = send_failed /\ Commands' = Commands
      /\ lost_reports' = lost_reports
  BY <1>2 DEF callerVars, venueVars, Commands, lostVars
<1>9. ASSUME link'
      PROVE  /\ ~send_failed'
             /\ Priced(orders', Commands', Range(to_client)', resting')
             /\ lost_reports' = {} =>
                   Told(orders', to_client', Settled', Left(resting'), venue_position')
  <2>1. link
    BY <1>8, <1>9, Zenon
  <2>2. /\ ~send_failed /\ Priced(orders, Commands, Range(to_client), resting)
        /\ lost_reports = {} =>
              Told(orders, to_client, holdings, Left(resting), venue_position)
    BY <1>2, <2>1 DEF AgreeInv, Settled
  <2>3. PICK P, L : P = orders' /\ L = Left(resting)
    OBVIOUS
  <2>4. m.type = "Replaced" => m.id # m.new_id /\ orders[m.new_id].price = m.price
    BY <1>4, <2>2 DEF Priced
  <2>5. /\ DOMAIN P = DOMAIN orders
        /\ \A id \in DOMAIN orders : P[id].price = orders[id].price
        /\ \A id \in DOMAIN orders :
              IF Speaks(m, id) THEN RightAbout(P[id], LeftBy(m, id))
              ELSE \A l : RightAbout(orders[id], l) => RightAbout(P[id], l)
    BY <1>2, <1>4, <1>5, <1>6, <2>3, <2>4, HandledRight
  <2>6. \A id \in DOMAIN orders : P[id].side = orders[id].side
    <3>1. Hears(orders, resting, Mentions(m), Handled(m))
      BY <1>4, <1>5, HandledWell
    <3> QED
      BY <1>2, <2>3, <3>1 DEF Hears, SameSides
  <2>7. \A i \in DOMAIN to_client : to_client[i].id \in DOMAIN orders
    <3>1. \A i \in DOMAIN to_client : to_client[i] \in Range(to_client)
      BY DEF Range
    <3>2. \A r \in Range(to_client) : r.id \in DOMAIN orders
      BY <1>5 DEF ReportSound, Mentions
    <3> QED
      BY <3>1, <3>2
  <2>8. lost_reports = {} => Told(orders, to_client, holdings, L, venue_position)
    BY <2>2, <2>3
  <2>9. lost_reports = {} =>
           Told(P, Tail(to_client), holdings + Delta(orders, m), L, venue_position)
    BY <1>1, <1>2, <1>3, <2>5, <2>6, <2>7, <2>8, ToldRead
  <2>10. Priced(P, Commands, Range(to_client'), resting)
    <3>1. \A c \in Commands : c.type # "CancelOrder" => Creates(c) \subseteq DOMAIN orders
      BY DEF TraderInv, Coherent, Sound, CommandSound
    <3>2. \A c \in Commands : /\ c.type = "NewOrder" => c.id \in DOMAIN orders
                              /\ c.type = "ReplaceOrder" => c.new_id \in DOMAIN orders
      BY <3>1 DEF Creates
    <3>3. \A r \in Range(to_client) : r.type = "Replaced" => r.new_id \in DOMAIN orders
      BY <1>5 DEF ReportSound, Mentions
    <3>4. \A id \in DOMAIN resting : id \in DOMAIN orders
      BY <1>5 DEF BookSound
    <3> QED
      BY <1>4, <2>2, <2>5, <3>2, <3>3, <3>4 DEF Priced
  <2> QED
    BY <1>2, <1>7, <1>8, <2>2, <2>3, <2>9, <2>10, Zenon
<1> QED
  BY <1>3, <1>7, <1>8, <1>9, Zenon DEF AgreeInv

\* Steps that change neither orders nor reports nor the venue.
LEMMA AgreeQuietly ==
    ASSUME AgreeInv, orders' = orders, to_client' = to_client, UNCHANGED venueVars,
           Commands' \subseteq Commands, holdings' \in Int, fill' \in FillType \cup {None},
           Settled' = Settled, lost_reports' = lost_reports, link' => link /\ ~send_failed'
    PROVE  AgreeInv'
<1>1. resting' = resting /\ venue_position' = venue_position
  BY DEF venueVars
<1>2. venue_position' \in Int
  BY <1>1 DEF AgreeInv
<1>3. ASSUME link'
      PROVE  /\ Priced(orders', Commands', Range(to_client)', resting')
             /\ lost_reports' = {} =>
                   Told(orders', to_client', Settled', Left(resting'), venue_position')
  <2>1. /\ Priced(orders, Commands, Range(to_client), resting)
        /\ lost_reports = {} => Told(orders, to_client, Settled, Left(resting), venue_position)
    BY <1>3 DEF AgreeInv
  <2>2. Priced(orders, Commands', Range(to_client), resting)
    BY <2>1 DEF Priced
  <2> QED
    BY <1>1, <2>1, <2>2, Zenon
<1> QED
  BY <1>2, <1>3, Zenon DEF AgreeInv

LEMMA SettleAgrees ==
    ASSUME AgreeInv, Settle
    PROVE  AgreeInv'
<1>1. /\ orders' = orders /\ to_client' = to_client /\ UNCHANGED venueVars
      /\ holdings' = apply /\ fill # None /\ fill' = None /\ link' = link
      /\ send_failed' = send_failed /\ call' = call /\ to_exchange' = to_exchange
      /\ lost_reports' = lost_reports
  BY DEF Settle, omsVars, callerVars, wireVars, lostVars
<1>2. Commands' \subseteq Commands
  BY <1>1 DEF Commands
<1>3. Settled' = Settled
  BY <1>1 DEF Settled
<1>4. apply \in Int
  <2>1. fill \in FillType /\ holdings \in Int
    BY <1>1 DEF AgreeInv
  <2> QED
    BY <2>1 DEF apply, FillType
<1>5. link' => link /\ ~send_failed'
  <2>1. link => ~send_failed
    BY DEF AgreeInv
  <2> QED
    BY <1>1, <2>1, Zenon
<1>6. holdings' \in Int /\ fill' \in FillType \cup {None}
  BY <1>1, <1>4
<1> QED
  BY <1>1, <1>2, <1>3, <1>5, <1>6, AgreeQuietly

\* Nothing is said of the time after the connection broke.
LEMMA AgreeGone ==
    ASSUME AgreeInv, ~link', holdings' = holdings, fill' = fill, venue_position' = venue_position
    PROVE  AgreeInv'
BY DEF AgreeInv

LEMMA LossAgrees ==
    ASSUME AgreeInv, ReaderExit \/ LinkLost
    PROVE  AgreeInv'
<1>1. holdings' = holdings /\ fill' = fill /\ venue_position' = venue_position
  BY DEF ReaderExit, LinkLost, readerVars, venueVars
<1>2. ~link'
  <2>1. CASE ReaderExit
    <3>1. ~link /\ link' = link
      BY <2>1 DEF ReaderExit
    <3> QED
      BY <3>1, Zenon
  <2>2. CASE LinkLost
    BY <2>2 DEF LinkLost
  <2> QED
    BY <2>1, <2>2
<1> QED
  BY <1>1, <1>2, AgreeGone

\* A command the matching queue refuses, and a report the gateway drops.
LEMMA DropAgrees ==
    ASSUME TraderInv, AgreeInv, CommandRefused \/ ReportDropped
    PROVE  AgreeInv'
<1>1. /\ orders' = orders /\ UNCHANGED venueVars /\ link' = link
      /\ resting' = resting /\ venue_position' = venue_position
      /\ holdings' = holdings /\ fill' = fill /\ call' = call /\ send_failed' = send_failed
  BY DEF CommandRefused, ReportDropped, omsVars, callerVars, readerVars, venueVars
<1>2. Settled' = Settled
  BY <1>1 DEF Settled, apply
<1>3. /\ holdings' \in Int /\ fill' \in FillType \cup {None} /\ venue_position' \in Int
      /\ link => ~send_failed
  BY <1>1 DEF AgreeInv
<1>4. CASE CommandRefused
  <2>1. to_exchange # << >> /\ to_exchange' = Tail(to_exchange)
        /\ to_client' = to_client /\ lost_reports' = lost_reports
    BY <1>4 DEF CommandRefused
  <2>2. Commands' \subseteq Commands
    BY <1>1, <2>1, RangeOfTail DEF Commands, TraderInv, WireTyped
  <2>3. link' => link /\ ~send_failed'
    BY <1>1, <1>3, Zenon
  <2> QED
    BY <1>1, <1>2, <1>3, <2>1, <2>2, <2>3, AgreeQuietly
<1>5. CASE ReportDropped
  <2>1. /\ to_client # << >> /\ to_client' = Tail(to_client) /\ to_exchange' = to_exchange
        /\ lost_reports' # {}
    BY <1>5 DEF ReportDropped
  <2>2. Commands' = Commands /\ Range(to_client') \subseteq Range(to_client)
    BY <1>1, <2>1, RangeOfTail DEF Commands, TraderInv, WireTyped
  <2>3. ASSUME link' PROVE ~send_failed' /\ Priced(orders', Commands', Range(to_client)', resting')
    <3>1. link
      BY <1>1, <2>3, Zenon
    <3>2. ~send_failed /\ Priced(orders, Commands, Range(to_client), resting)
      BY <3>1 DEF AgreeInv
    <3>3. Priced(orders, Commands, Range(to_client'), resting)
      BY <2>2, <3>2 DEF Priced
    <3> QED
      BY <1>1, <2>2, <3>2, <3>3, Zenon
  <2> QED
    BY <1>3, <2>1, <2>3, Zenon DEF AgreeInv
<1> QED
  BY <1>4, <1>5

LEMMA CleanUpAgrees ==
    ASSUME AgreeInv, CleanUp
    PROVE  AgreeInv'
<1>1. /\ holdings' = holdings /\ fill' = fill /\ venue_position' = venue_position
      /\ link' = link /\ send_failed
  BY DEF CleanUp, readerVars, venueVars, wireVars
<1>2. link => ~send_failed
  BY DEF AgreeInv
<1>3. ~link'
  BY <1>1, <1>2, Zenon
<1> QED
  BY <1>1, <1>3, AgreeGone

LEMMA SendAgrees ==
    ASSUME TraderInv, AgreeInv, Send
    PROVE  AgreeInv'
<1>1. /\ orders' = orders /\ to_client' = to_client /\ UNCHANGED venueVars /\ link' = link
      /\ holdings' = holdings /\ fill' = fill /\ call # None /\ call \in Command
      /\ to_exchange \in Seq(Command) /\ venue_position' = venue_position
      /\ lost_reports' = lost_reports
  BY DEF Send, omsVars, readerVars, venueVars, TraderInv, WireTyped, lostVars
<1>2. CASE link
  <2>1. to_exchange' = Append(to_exchange, call) /\ call' = None /\ send_failed' = send_failed
        /\ ~send_failed
    BY <1>2 DEF Send
  <2>2. Range(to_exchange') = Range(to_exchange) \cup {call}
    BY <1>1, <2>1, RangeOfAppend
  <2>3. Commands' \subseteq Commands
    BY <1>1, <2>1, <2>2 DEF Commands
  <2>4. Settled' = Settled
    BY <1>1 DEF Settled, apply
  <2>5. holdings' \in Int /\ fill' \in FillType \cup {None}
    BY <1>1 DEF AgreeInv
  <2>6. link' => link /\ ~send_failed'
    BY <1>1, <2>1, Zenon
  <2> QED
    BY <1>1, <2>3, <2>4, <2>5, <2>6, AgreeQuietly
<1>3. CASE ~link
  <2>1. ~link'
    BY <1>1, <1>3, Zenon
  <2> QED
    BY <1>1, <2>1, AgreeGone
<1> QED
  BY <1>2, <1>3

LEMMA ThinkingAgrees ==
    ASSUME AgreeInv, UNCHANGED omVars
    PROVE  AgreeInv'
<1>1. /\ orders' = orders /\ to_client' = to_client /\ UNCHANGED venueVars /\ link' = link
      /\ holdings' = holdings /\ fill' = fill /\ call' = call /\ to_exchange' = to_exchange
      /\ send_failed' = send_failed /\ lost_reports' = lost_reports
  BY DEF omVars, omsVars, callerVars, readerVars, venueVars, wireVars, lostVars
<1>2. Commands' \subseteq Commands /\ Settled' = Settled
  BY <1>1 DEF Commands, Settled, apply
<1>3. holdings' \in Int /\ fill' \in FillType \cup {None}
  BY <1>1 DEF AgreeInv
<1>4. link' => link /\ ~send_failed'
  <2>1. link => ~send_failed
    BY DEF AgreeInv
  <2> QED
    BY <1>1, <2>1, Zenon
<1> QED
  BY <1>1, <1>2, <1>3, <1>4, AgreeQuietly

\* The caller registers an order or notes a request, and has c to send.
LEMMA AgreeCall ==
    ASSUME TraderInv, AgreeInv, UNCHANGED <<readerVars, venueVars, wireVars>>,
           send_failed' = send_failed, NEW c, call' = c,
           NEW P, P = orders',
           \A id \in DOMAIN orders :
              /\ id \in DOMAIN P /\ P[id].side = orders[id].side
              /\ P[id].state = orders[id].state /\ P[id].price = orders[id].price
              /\ P[id].remaining = orders[id].remaining,
           \A id \in DOMAIN P \ DOMAIN orders : id \in Nat /\ P[id].state = "PendingNew",
           c.type = "NewOrder" => P[c.id].price = c.price,
           c.type = "ReplaceOrder" => P[c.new_id].price = c.price
    PROVE  AgreeInv'
<1>1. /\ to_client' = to_client /\ UNCHANGED venueVars /\ link' = link
      /\ holdings' = holdings /\ fill' = fill /\ to_exchange' = to_exchange
      /\ resting' = resting /\ venue_position' = venue_position
      /\ lost_reports' = lost_reports
  BY DEF readerVars, venueVars, wireVars, lostVars
<1>2. Settled' = Settled
  BY <1>1 DEF Settled, apply
<1>3. /\ to_client \in Seq(Message) /\ BookSound(orders, resting)
      /\ \A r \in Range(to_client) : ReportSound(orders, Commands, resting, r)
      /\ \A d \in Commands : CommandSound(orders, resting, d)
  BY DEF TraderInv, WireTyped, Coherent, Sound
<1>4. Commands' \subseteq Commands \cup {c}
  BY <1>1 DEF Commands
<1>5. ASSUME link'
      PROVE  /\ ~send_failed'
             /\ Priced(orders', Commands', Range(to_client)', resting')
             /\ lost_reports' = {} =>
                   Told(orders', to_client', Settled', Left(resting'), venue_position')
  <2>1. link
    BY <1>1, <1>5, Zenon
  <2>2. /\ ~send_failed /\ Priced(orders, Commands, Range(to_client), resting)
        /\ lost_reports = {} => Told(orders, to_client, Settled, Left(resting), venue_position)
    BY <2>1 DEF AgreeInv
  <2>3. PICK L : L = Left(resting)
    OBVIOUS
  <2>4. \A i \in DOMAIN to_client : to_client[i].id \in DOMAIN orders /\ Mentions(to_client[i]) \subseteq DOMAIN orders
    <3>1. \A i \in DOMAIN to_client : to_client[i] \in Range(to_client)
      BY DEF Range
    <3>2. \A r \in Range(to_client) : r.id \in DOMAIN orders /\ Mentions(r) \subseteq DOMAIN orders
      BY <1>3 DEF ReportSound, Mentions
    <3> QED
      BY <3>1, <3>2
  <2>5. \A id \in DOMAIN P \ DOMAIN orders :
           /\ L[id] = 0 /\ P[id].state = "PendingNew"
           /\ \A i \in DOMAIN to_client : ~Speaks(to_client[i], id)
    <3>1. \A id \in DOMAIN P \ DOMAIN orders : L[id] = 0
      BY <1>3, <2>3 DEF Left, BookSound
    <3>2. \A id \in DOMAIN P \ DOMAIN orders :
             \A i \in DOMAIN to_client : ~Speaks(to_client[i], id)
      BY <2>4 DEF Speaks
    <3> QED
      BY <3>1, <3>2
  <2>6. \A i \in DOMAIN to_client : to_client[i].id \in DOMAIN orders
    BY <2>4
  <2>7. lost_reports = {} => Told(orders, to_client, Settled, L, venue_position)
    BY <2>2, <2>3
  <2>8. \A id \in DOMAIN orders :
           /\ id \in DOMAIN P /\ P[id].side = orders[id].side /\ P[id].state = orders[id].state
           /\ P[id].remaining = orders[id].remaining
    OBVIOUS
  <2>9. lost_reports = {} => Told(P, to_client, Settled, L, venue_position)
    BY <1>3, <2>5, <2>6, <2>7, <2>8, ToldOrders
  <2>10. Priced(P, Commands', Range(to_client), resting)
    <3>1. \A d \in Commands : /\ d.type = "NewOrder" => d.id \in DOMAIN orders
                              /\ d.type = "ReplaceOrder" => d.new_id \in DOMAIN orders
      BY <1>3 DEF CommandSound, Creates
    <3>2. \A r \in Range(to_client) : r.type = "Replaced" => r.new_id \in DOMAIN orders
      BY <1>3 DEF ReportSound, Mentions
    <3>3. \A id \in DOMAIN resting : id \in DOMAIN orders
      BY <1>3 DEF BookSound
    <3> QED
      BY <1>4, <2>2, <3>1, <3>2, <3>3 DEF Priced
  <2> QED
    BY <1>1, <1>2, <2>2, <2>3, <2>9, <2>10, Zenon
<1>6. holdings' \in Int /\ fill' \in FillType \cup {None} /\ venue_position' \in Int
  BY <1>1 DEF AgreeInv
<1> QED
  BY <1>5, <1>6, Zenon DEF AgreeInv

LEMMA SubmitAgrees ==
    ASSUME TraderInv, AgreeInv, Submit
    PROVE  AgreeInv'
<1>1. mm_pc = "submit" /\ UNCHANGED <<readerVars, venueVars, wireVars>>
  BY DEF Submit
<1>2. CASE UNCHANGED <<omsVars, callerVars>>
  <2>1. UNCHANGED omVars
    BY <1>1, <1>2 DEF omVars
  <2> QED
    BY <2>1, ThinkingAgrees
<1>3. CASE submit_new_order(Side, desired(Side))
  <2>1. /\ Typed(orders, next_client_order_id, Commands, Range(to_client), resting)
        /\ next_client_order_id \notin DOMAIN orders /\ Side \in Sides
        /\ desired(Side) \in PriceOrNone
    BY <1>1, Calling
  <2>2. PICK s, p, n, P, o : /\ s = Side /\ p = desired(Side) /\ n = next_client_order_id
                             /\ P = orders' /\ o = ClientOrder(s, p)
    OBVIOUS
  <2>3. PICK c : c = [type |-> "NewOrder", id |-> n, side |-> s, price |-> p]
    OBVIOUS
  <2>4. /\ call' = c /\ send_failed' = send_failed
        /\ P = [i \in DOMAIN orders \cup {n} |-> IF i = n THEN o ELSE orders[i]]
    BY <1>3, <2>2, <2>3 DEF submit_new_order, With
  <2>5. o.state = "PendingNew" /\ o.price = p
    BY <2>2 DEF ClientOrder
  <2>6. c.type = "NewOrder" /\ c.id = n /\ c.price = p /\ n \in Nat /\ n \notin DOMAIN orders
    BY <2>1, <2>2, <2>3 DEF Typed
  <2>7. /\ DOMAIN P = DOMAIN orders \cup {n} /\ P[n] = o
        /\ \A id \in DOMAIN orders : P[id] = orders[id]
    BY <2>4, <2>6
  <2>8. /\ \A id \in DOMAIN orders :
              /\ id \in DOMAIN P /\ P[id].side = orders[id].side
              /\ P[id].state = orders[id].state /\ P[id].price = orders[id].price
              /\ P[id].remaining = orders[id].remaining
        /\ \A id \in DOMAIN P \ DOMAIN orders : id \in Nat /\ P[id].state = "PendingNew"
    BY <2>5, <2>6, <2>7
  <2>9. /\ c.type = "NewOrder" => P[c.id].price = c.price
        /\ c.type = "ReplaceOrder" => P[c.new_id].price = c.price
    BY <2>5, <2>6, <2>7
  <2>10. call' = c /\ send_failed' = send_failed /\ P = orders'
    BY <2>2, <2>4
  <2> QED
    BY <1>1, <2>8, <2>9, <2>10, AgreeCall
<1> QED
  BY <1>2, <1>3 DEF Submit, submit_rejected

LEMMA CancelAgrees ==
    ASSUME TraderInv, AgreeInv, Cancel
    PROVE  AgreeInv'
<1>1. mm_pc = "cancel" /\ UNCHANGED <<readerVars, venueVars, wireVars>>
  BY DEF Cancel
<1>2. CASE UNCHANGED <<omsVars, callerVars>>
  <2>1. UNCHANGED omVars
    BY <1>1, <1>2 DEF omVars
  <2> QED
    BY <2>1, ThinkingAgrees
<1>3. CASE cancel_order(quote[Side])
  <2>1. Typed(orders, next_client_order_id, Commands, Range(to_client), resting)
    BY <1>1, Calling
  <2>2. PICK p, P : p = quote[Side] /\ P = orders'
    OBVIOUS
  <2>3. p \in DOMAIN orders /\ orders[p] \in Order
    BY <1>3, <2>1, <2>2 DEF cancel_order, Changeable, Known, Typed
  <2>4. PICK c : c = [type |-> "CancelOrder", id |-> p]
    OBVIOUS
  <2>5. PICK o \in Order : o = orders[p]
    BY <2>3
  <2>6. PICK v : v = [o EXCEPT !.pending = "Cancel"]
    OBVIOUS
  <2>7. v.side = o.side /\ v.state = o.state /\ v.price = o.price /\ v.remaining = o.remaining
    BY <2>5, <2>6 DEF Order
  <2>8. call' = c /\ send_failed' = send_failed /\ P = [orders EXCEPT ![p] = v]
    BY <1>3, <2>2, <2>4, <2>5, <2>6 DEF cancel_order
  <2>9. DOMAIN P = DOMAIN orders /\ P[p] = v /\ \A x \in DOMAIN orders \ {p} : P[x] = orders[x]
    BY <2>3, <2>8
  <2>10. /\ \A id \in DOMAIN orders :
              /\ id \in DOMAIN P /\ P[id].side = orders[id].side
              /\ P[id].state = orders[id].state /\ P[id].price = orders[id].price
              /\ P[id].remaining = orders[id].remaining
         /\ \A id \in DOMAIN P \ DOMAIN orders : id \in Nat /\ P[id].state = "PendingNew"
    BY <2>5, <2>7, <2>9
  <2>11. /\ c.type = "NewOrder" => P[c.id].price = c.price
         /\ c.type = "ReplaceOrder" => P[c.new_id].price = c.price
    BY <2>4
  <2>12. call' = c /\ send_failed' = send_failed /\ P = orders'
    BY <2>2, <2>8
  <2> QED
    BY <1>1, <2>10, <2>11, <2>12, AgreeCall
<1> QED
  BY <1>2, <1>3 DEF Cancel

LEMMA ReplaceAgrees ==
    ASSUME TraderInv, AgreeInv, Replace
    PROVE  AgreeInv'
<1>1. mm_pc = "replace" /\ UNCHANGED <<readerVars, venueVars, wireVars>>
  BY DEF Replace
<1>2. CASE UNCHANGED <<omsVars, callerVars>>
  <2>1. UNCHANGED omVars
    BY <1>1, <1>2 DEF omVars
  <2> QED
    BY <2>1, ThinkingAgrees
<1>3. CASE replace_order(quote[Side], desired(Side))
  <2>1. /\ Typed(orders, next_client_order_id, Commands, Range(to_client), resting)
        /\ next_client_order_id \notin DOMAIN orders
    BY <1>1, Calling
  <2>2. PICK r, n, p, P, w :
          /\ r = desired(Side) /\ n = next_client_order_id /\ p = quote[Side]
          /\ P = orders' /\ w = ClientOrder(orders[p].side, r)
    OBVIOUS
  <2>3. p \in DOMAIN orders /\ orders[p] \in Order
    BY <1>3, <2>1, <2>2 DEF replace_order, Changeable, Known, Typed
  <2>4. PICK c : c = [type |-> "ReplaceOrder", id |-> p, new_id |-> n, price |-> r]
    OBVIOUS
  <2>5. PICK o \in Order : o = orders[p]
    BY <2>3
  <2>6. PICK v : v = [o EXCEPT !.pending = "Replace"]
    OBVIOUS
  <2>7. v.side = o.side /\ v.state = o.state /\ v.price = o.price /\ v.remaining = o.remaining
    BY <2>5, <2>6 DEF Order
  <2>8. PICK Q : Q = [orders EXCEPT ![p] = v]
    OBVIOUS
  <2>9. DOMAIN Q = DOMAIN orders /\ Q[p] = v /\ \A x \in DOMAIN orders \ {p} : Q[x] = orders[x]
    BY <2>3, <2>8
  <2>10. /\ call' = c /\ send_failed' = send_failed
         /\ P = [i \in DOMAIN Q \cup {n} |-> IF i = n THEN w ELSE Q[i]]
    BY <1>3, <2>2, <2>4, <2>5, <2>6, <2>8 DEF replace_order, With
  <2>11. w.state = "PendingNew" /\ w.price = r
    BY <2>2 DEF ClientOrder
  <2>12. c.type = "ReplaceOrder" /\ c.new_id = n /\ c.price = r /\ n \in Nat /\ n \notin DOMAIN orders
    BY <2>1, <2>2, <2>4 DEF Typed
  <2>13. /\ DOMAIN P = DOMAIN orders \cup {n} /\ P[n] = w
         /\ \A id \in DOMAIN orders : P[id] = Q[id]
    BY <2>9, <2>10, <2>12
  <2>14. /\ \A id \in DOMAIN orders :
              /\ id \in DOMAIN P /\ P[id].side = orders[id].side
              /\ P[id].state = orders[id].state /\ P[id].price = orders[id].price
              /\ P[id].remaining = orders[id].remaining
         /\ \A id \in DOMAIN P \ DOMAIN orders : id \in Nat /\ P[id].state = "PendingNew"
    BY <2>5, <2>7, <2>9, <2>11, <2>12, <2>13
  <2>15. /\ c.type = "NewOrder" => P[c.id].price = c.price
         /\ c.type = "ReplaceOrder" => P[c.new_id].price = c.price
    BY <2>11, <2>12, <2>13
  <2>16. call' = c /\ send_failed' = send_failed /\ P = orders'
    BY <2>2, <2>10
  <2> QED
    BY <1>1, <2>14, <2>15, <2>16, AgreeCall
<1> QED
  BY <1>2, <1>3 DEF Replace

LEMMA AgreeInit == Init => AgreeInv
<1> SUFFICES ASSUME Init PROVE AgreeInv
  OBVIOUS
<1>1. /\ orders = << >> /\ call = None /\ send_failed = FALSE /\ fill = None
      /\ holdings = SeedPosition /\ venue_position = SeedPosition
      /\ to_exchange = << >> /\ to_client = << >> /\ resting = << >>
  BY DEF Init, OmInit
<1>2. Commands = {} /\ Range(to_client) = {} /\ DOMAIN orders = {} /\ DOMAIN resting = {}
  BY <1>1 DEF Commands, Range
<1>3. Priced(orders, Commands, Range(to_client), resting)
  BY <1>2 DEF Priced
<1>4. SeedPosition \in Int /\ Settled = SeedPosition
  BY <1>1, OmsAssumption DEF Settled
<1>5. Leads(orders, to_client, SeedPosition, SeedPosition)
  <2>1. PICK f : f = [i \in 0 .. 0 |-> SeedPosition]
    OBVIOUS
  <2>2. Len(to_client) = 0
    BY <1>1
  <2>3. f \in [0 .. 0 -> Int] /\ f[0] = SeedPosition
    BY <1>4, <2>1
  <2> QED
    BY <2>2, <2>3 DEF Leads
<1>6. Told(orders, to_client, Settled, Left(resting), venue_position)
  BY <1>1, <1>2, <1>4, <1>5 DEF Told, Tracks
<1> QED
  BY <1>1, <1>3, <1>4, <1>6 DEF AgreeInv

LEMMA AgreeStep == TraderInv /\ AgreeInv /\ [Next]_vars => AgreeInv'
<1> SUFFICES ASSUME TraderInv, AgreeInv, [Next]_vars PROVE AgreeInv'
  OBVIOUS
<1>1. CASE Strategy
  <2>1. on_book_update \/ LookAtAsk \/ LookAtBid \/ Decide \/ Replaced => UNCHANGED omVars
    BY DEF on_book_update, LookAtAsk, LookAtBid, Decide, Replaced
  <2> QED
    BY <1>1, <2>1, ThinkingAgrees, SubmitAgrees, CancelAgrees, ReplaceAgrees DEF Strategy
<1>2. CASE Caller
  BY <1>2, SendAgrees, CleanUpAgrees DEF Caller
<1>3. CASE Reader
  BY <1>3, HandleAgrees, SettleAgrees, LossAgrees DEF Reader
<1>4. CASE Environment
  BY <1>4, NewOrderAgrees, CancelOrderAgrees, ReplaceOrderAgrees, TradeAgrees, LossAgrees,
     DropAgrees DEF Environment, VenueCommand
<1>5. CASE UNCHANGED vars
  BY <1>5, ThinkingAgrees DEF vars
<1> QED
  BY <1>1, <1>2, <1>3, <1>4, <1>5 DEF Next

\* With nothing in flight and no report dropped (commands may have been) the OMS, the
\* position tracker and the venue agree: on the orders
\* that work, on what is left of them and at which price, and on the position
\* (order_management_system.cpp, handle_message(); position_tracker.cpp, apply()).
THEOREM QuietAgreement == Spec => []AgreeWhenQuiet
<1>1. TraderInv /\ AgreeInv => AgreeWhenQuiet
  <2> SUFFICES ASSUME TraderInv, AgreeInv, Quiet
               PROVE  /\ {id \in DOMAIN orders : is_live(orders[id])} = DOMAIN resting
                      /\ \A id \in DOMAIN resting : /\ orders[id].remaining = resting[id].remaining
                                                    /\ orders[id].price = resting[id].price
                      /\ holdings = venue_position
    BY DEF AgreeWhenQuiet
  <2>1. link /\ lost_reports = {} /\ fill = None /\ to_client = << >>
    BY DEF Quiet
  <2>2. /\ Priced(orders, Commands, Range(to_client), resting)
        /\ Told(orders, to_client, holdings, Left(resting), venue_position)
    BY <2>1 DEF AgreeInv, Settled
  <2>3. /\ BookSound(orders, resting) /\ resting \in [DOMAIN resting -> RestingOrder]
        /\ DOMAIN orders \subseteq Nat
    BY DEF TraderInv, Coherent, Sound, Typed
  <2>4. \A id \in DOMAIN orders : RightAbout(orders[id], Left(resting)[id])
    BY <2>1, <2>2 DEF Told, Tracks
  <2>5. ASSUME NEW id \in DOMAIN orders
        PROVE  /\ is_live(orders[id]) <=> id \in DOMAIN resting
               /\ id \in DOMAIN resting => orders[id].remaining = resting[id].remaining
    <3>1. CASE id \in DOMAIN resting
      <4>1. Left(resting)[id] = resting[id].remaining /\ resting[id].remaining # 0
        BY <2>3, <3>1 DEF Left, RestingOrder
      <4> QED
        BY <2>4, <3>1, <4>1 DEF RightAbout
    <3>2. CASE id \notin DOMAIN resting
      <4>1. Left(resting)[id] = 0
        BY <2>3, <3>2 DEF Left
      <4> QED
        BY <2>4, <3>2, <4>1 DEF RightAbout
    <3> QED
      BY <3>1, <3>2
  <2>6. DOMAIN resting \subseteq DOMAIN orders
    BY <2>3 DEF BookSound
  <2>7. \A id \in DOMAIN resting : orders[id].price = resting[id].price
    BY <2>2 DEF Priced
  <2>8. holdings = venue_position
    <3>1. Leads(orders, << >>, holdings, venue_position)
      BY <2>1, <2>2 DEF Told
    <3>2. Len(<< >>) = 0
      OBVIOUS
    <3> QED
      BY <3>1, <3>2 DEF Leads
  <2> QED
    BY <2>5, <2>6, <2>7, <2>8
<1>2. Spec => []AgreeInv
  BY TraderInvariance, AgreeInit, AgreeStep, PTL DEF Spec
<1> QED
  BY <1>1, <1>2, TraderInvariance, PTL
=============================================================================
