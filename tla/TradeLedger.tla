---------------------------- MODULE TradeLedger ----------------------------
(***************************************************************************)
(* The allocation of the executions a broker reports to lots                *)
(* (allocate_trades in backend/app/domain/portfolio/trade_ledger.py), for   *)
(* one security and currency: the lots of others are kept apart.  One step  *)
(* is one row, in the order of the ledger.  Quantities are whole shares     *)
(* here; prices are only known or not.                                      *)
(***************************************************************************)
EXTENDS Naturals, Sequences

CONSTANTS MaxRowCount,   \* bound: rows of the ledger
          MaxQuantity,   \* bound: shares of one row
          MaxHeld        \* bound: shares held, for splits

ASSUME LedgerAssumption == {MaxRowCount, MaxQuantity, MaxHeld} \subseteq Nat

VARIABLES
  row,      \* rows read so far; their number is their id
  lots,     \* open lots, oldest first; cycle (history): the group of the buy, 0 for none
  group,    \* the group of the security: the id of the row that opened it, 0 at first
  last,     \* the last event (buy or sale) there is
  outcome   \* of the last sale: the part of each lot it took, and what it could not take

ledgerVars == <<row, lots, group, last, outcome>>

LedgerInit ==
  /\ row = 0 /\ lots = << >> /\ group = 0
  /\ last = [id |-> 0, group |-> 0, remaining |-> 0]
  /\ outcome = [allocations |-> << >>, unallocated |-> 0, pnl |-> FALSE]

-----------------------------------------------------------------------------
Lot(id, n, known, cycle) == [id |-> id, remaining |-> n, known |-> known, cycle |-> cycle]

Held(ls) ==
  LET sum[i \in 0 .. Len(ls)] == IF i = 0 THEN 0 ELSE sum[i - 1] + ls[i].remaining
  IN  sum[Len(ls)]

Least(m, n) == IF m < n THEN m ELSE n

\* Mutant: what a lot gave is not taken off the rest.
ServedInFull(p, lot) ==
  LET consumed == Least(lot.remaining, p.left)
      part(n)  == IF n > 0 THEN << [lot EXCEPT !.remaining = n] >> ELSE << >>
  IN  [left  |-> p.left,
       kept  |-> p.kept \o part(lot.remaining - consumed),
       taken |-> p.taken \o part(consumed)]

\* The rest p.left of a row takes what it can from one lot; empty lots are removed.
Served(p, lot) ==
  LET consumed == Least(lot.remaining, p.left)
      part(n)  == IF n > 0 THEN << [lot EXCEPT !.remaining = n] >> ELSE << >>
  IN  [left  |-> p.left - consumed,
       kept  |-> p.kept \o part(lot.remaining - consumed),
       taken |-> p.taken \o part(consumed)]

\* What a row of n shares takes from the lots ls, what it leaves, and what is missing.
Consumption(n, ls) ==
  LET pass[i \in 0 .. Len(ls)] == IF i = 0 THEN [left |-> n, kept |-> << >>, taken |-> << >>]
                                  ELSE Served(pass[i - 1], ls[i])
  IN  pass[Len(ls)]

Unknown(ls) == [i \in DOMAIN ls |-> [ls[i] EXCEPT !.known = FALSE]]

\* Mutant: every event opens a group.
GroupAlways(id) == id

\* Without open lots an event opens a new group; so does the first event of all.
Group(id) == IF lots = << >> \/ group = 0 THEN id ELSE group

\* Mutant: a corporate action leaves the last event as it was.
RestatedNever(ls) == last

\* A corporate action restates what the last event of the group left.
Restated(ls) == IF group # 0 THEN [last EXCEPT !.remaining = Held(ls)] ELSE last

NextRow == row < MaxRowCount /\ row' = row + 1

-----------------------------------------------------------------------------
BuyRow(n, priced) ==
  LET g == Group(row + 1)
      after == Append(lots, Lot(row + 1, n, priced, g))
  IN /\ NextRow
     /\ lots' = after /\ group' = g
     /\ last' = [id |-> row + 1, group |-> g, remaining |-> Held(after)]
     /\ UNCHANGED outcome

SellRow(n, priced) ==
  LET g == Group(row + 1)
      sale == Consumption(n, lots)
  IN /\ NextRow
     /\ outcome' = [allocations |-> sale.taken, unallocated |-> sale.left,
                    pnl |-> /\ priced /\ sale.left = 0
                            /\ \A i \in DOMAIN sale.taken : sale.taken[i].known]
     /\ lots' = sale.kept /\ group' = g
     /\ last' = [id |-> row + 1, group |-> g, remaining |-> Held(lots')]

\* Corporate actions are no events.  transfer_in and sell_cancelled bring shares whose
\* cost is unknown; transfer_out, delisted, expiration and the like take the oldest.
Moved(after) ==
  /\ NextRow
  /\ lots' = after
  /\ last' = Restated(after)
  /\ UNCHANGED <<group, outcome>>

InRow(n)  == Moved(Append(Unknown(lots), Lot(row + 1, n, FALSE, 0)))
OutRow(n) == Moved(Consumption(n, Unknown(lots)).kept)

\* split: the row has the difference; the lots keep their proportions and their cost.
\* Only splits into whole shares are taken, up to MaxHeld.
SplitRow(new) ==
  LET old == Held(lots) IN
  /\ old > 0 /\ new <= MaxHeld
  /\ \A i \in DOMAIN lots : (lots[i].remaining * new) % old = 0
  /\ Moved([i \in DOMAIN lots |-> [lots[i] EXCEPT !.remaining = (@ * new) \div old]])

LedgerNext ==
  \/ \E n \in 1 .. MaxQuantity, priced \in BOOLEAN : BuyRow(n, priced) \/ SellRow(n, priced)
  \/ \E n \in 1 .. MaxQuantity : InRow(n) \/ OutRow(n)
  \/ SplitRow(2 * Held(lots))
  \/ Held(lots) % 2 = 0 /\ SplitRow(Held(lots) \div 2)

LedgerSpec == LedgerInit /\ [][LedgerNext]_ledgerVars

-----------------------------------------------------------------------------
\* The shares of the lots one by one.
SharesOf(lot) == [k \in 1 .. lot.remaining |-> [from |-> lot.id, known |-> lot.known]]
Units(ls) ==
  LET list[i \in 0 .. Len(ls)] == IF i = 0 THEN << >> ELSE list[i - 1] \o SharesOf(ls[i])
  IN  list[Len(ls)]

Shares == INSTANCE ShareQueue WITH
  Ids <- 1 .. MaxRowCount, queue <- Units(lots),
  sale <- [shares |-> Units(outcome.allocations), missing |-> outcome.unallocated,
           explained |-> outcome.pnl]

\* The ledger of lots is a queue of single shares: through partial sales, sales beyond
\* the holding, transfers and splits the oldest shares go first, a sale says exactly
\* which, and no profit is stated that is not explained by known purchases.
ImplementsShareQueue == Shares!QueueSpec

\* The last event of the current group shows what is held, also when corporate actions
\* followed it: the journal reads from it whether the cycle is over.
LastEventShowsHolding == group # 0 => last.group = group /\ last.remaining = Held(lots)

\* A sale never uses a buy of another cycle: all open lots that were bought belong to the
\* current group, also after transfers into a closed one and corporate actions in between.
CyclesAreSeparate == \A i \in DOMAIN lots : lots[i].cycle \in {0, group}
=============================================================================
