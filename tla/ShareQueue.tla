----------------------------- MODULE ShareQueue -----------------------------
(***************************************************************************)
(* What a first in, first out ledger of one security promises: shares are   *)
(* single units in the order they came; a sale takes the oldest ones and    *)
(* tells which; its profit is explained only when every share it took was   *)
(* bought at a known price and nothing unexplained happened to it since.    *)
(***************************************************************************)
EXTENDS Naturals, Sequences

CONSTANTS Ids, MaxQuantity

VARIABLES queue,   \* the shares held: which row brought them, is their cost known
          sale     \* the outcome of the last sale

Shares(id, n, known) == [i \in 1 .. n |-> [from |-> id, known |-> known]]
Unexplained(q) == [i \in 1 .. Len(q) |-> [q[i] EXCEPT !.known = FALSE]]
Taken(q, n) == IF n < Len(q) THEN n ELSE Len(q)
Oldest(q, n) == [i \in 1 .. Taken(q, n) |-> q[i]]
Left(q, n) == [i \in 1 .. Len(q) - Taken(q, n) |-> q[Taken(q, n) + i]]

NoSale == [shares |-> << >>, missing |-> 0, explained |-> FALSE]

QueueInit == queue = << >> /\ sale = NoSale

Buy(id, n, priced) == queue' = queue \o Shares(id, n, priced) /\ UNCHANGED sale

Sell(n, priced) ==
  /\ sale' = [shares |-> Oldest(queue, n),
              missing |-> n - Taken(queue, n),
              explained |-> priced /\ Taken(queue, n) = n /\ \A i \in 1 .. n : queue[i].known]
  /\ queue' = Left(queue, n)

\* Shares come from or go elsewhere: what is held is no longer explained.
Arrive(id, n) == queue' = Unexplained(queue) \o Shares(id, n, FALSE) /\ UNCHANGED sale
Depart(n)     == queue' = Unexplained(Left(queue, n)) /\ UNCHANGED sale

\* Every share becomes two, or every two of one row become one.
Doubled(q) == [i \in 1 .. 2 * Len(q) |-> q[(i + 1) \div 2]]
Halved(q)  == [i \in 1 .. Len(q) \div 2 |-> q[2 * i]]
Paired(q)  == \A i \in 1 .. Len(q) : i % 2 = 1 => i < Len(q) /\ q[i] = q[i + 1]

Double == queue' = Doubled(queue) /\ UNCHANGED sale
Halve  == Paired(queue) /\ queue' = Halved(queue) /\ UNCHANGED sale

\* A row may change nothing; this comes first because TLC tries the alternatives in order.
QueueNext ==
  \/ UNCHANGED <<queue, sale>>
  \/ \E id \in Ids, n \in 1 .. MaxQuantity, priced \in BOOLEAN : Buy(id, n, priced)
  \/ \E n \in 1 .. MaxQuantity, priced \in BOOLEAN : Sell(n, priced)
  \/ \E id \in Ids, n \in 1 .. MaxQuantity : Arrive(id, n)
  \/ \E n \in 1 .. MaxQuantity : Depart(n)
  \/ Double \/ Halve

QueueSpec == QueueInit /\ [][QueueNext]_<<queue, sale>>
=============================================================================
