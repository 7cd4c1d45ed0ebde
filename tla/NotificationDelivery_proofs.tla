-------------------- MODULE NotificationDelivery_proofs --------------------
(***************************************************************************)
(* Theorems about the notification dispatcher for every number of alerts,   *)
(* tickers and subjects, every limit, window, retry pause and fault bound.  *)
(***************************************************************************)
EXTENDS NotificationDelivery, FiniteSetTheorems, TLAPS

------------------------------------------------------------------------------
\* What the proofs need of the constants.

\* Intervals and bounds are numbers, and the day has at least an hour.
LEMMA Bounds ==
  /\ WindowTicks \in Nat
  /\ RetryTicks \in Nat
  /\ DayTicks \in Nat \ {0}
  /\ MaxFaults \in Nat
  /\ MaxChanges \in Nat
  /\ Alerts \subseteq Nat
  /\ InitialMode \in [Routes -> Modes]
BY DeliveryAssumption DEF DeliveryAssumption

\* Alerts of one kind can be counted.
LEMMA Countable ==
  ASSUME NEW S, S \subseteq Alerts
  PROVE  IsFiniteSet(S) /\ Cardinality(S) \in Nat
<1>1. IsFiniteSet(Alerts)
  BY DeliveryAssumption DEF DeliveryAssumption
<1>2. IsFiniteSet(S)
  BY <1>1, FS_Subset
<1> QED
  BY <1>2, FS_CardinalityType

------------------------------------------------------------------------------
\* The shape of what the steps write.

\* The messages of the day are counted alike.
SameTally(v, w) == w.counts = v.counts /\ w.today = v.today

\* A blank entry in a given place is an entry.
LEMMA NoBoxType ==
  ASSUME NEW place \in Places
  PROVE  /\ [NoBox EXCEPT !.place = place] \in Box
         /\ [NoBox EXCEPT !.place = place].place = place
<1>1. 0 \in 0..RetryTicks
  BY Bounds
<1> QED
  BY <1>1 DEF NoBox, Box

\* The state of a dispatcher that never ran is a state.
LEMMA BlankType == Blank \in State
<1>1. NoBox \in Box
  BY Bounds DEF NoBox, Box, Places
<1> QED
  BY <1>1, Bounds DEF Blank, State

\* Entries that leave the queue: a state, and only their place is new.
LEMMA EndedType ==
  ASSUME NEW w \in State, NEW S, NEW place \in Places
  PROVE  /\ Ended(w, S, place) \in State
         /\ SameTally(w, Ended(w, S, place))
         /\ \A a \in Alerts : Ended(w, S, place).box[a].place =
                                IF a \in S THEN place ELSE w.box[a].place
<1> DEFINE B == [a \in Alerts |-> IF a \in S THEN [NoBox EXCEPT !.place = place]
                                  ELSE w.box[a]]
<1>1. Ended(w, S, place) = [w EXCEPT !.box = B]
  BY DEF Ended
<1>2. B \in [Alerts -> Box]
  BY NoBoxType DEF State
<1> HIDE DEF B
<1>3. /\ [w EXCEPT !.box = B] \in State /\ [w EXCEPT !.box = B].box = B
      /\ SameTally(w, [w EXCEPT !.box = B])
  BY <1>2 DEF State, SameTally
<1>4. \A a \in Alerts : B[a].place = IF a \in S THEN place ELSE w.box[a].place
  BY NoBoxType DEF B
<1> QED
  BY <1>1, <1>3, <1>4

\* Entries that wait for the summary: a state, and every place is kept.
LEMMA DigestedType ==
  ASSUME NEW w \in State, NEW S
  PROVE  /\ Digested(w, S) \in State
         /\ SameTally(w, Digested(w, S))
         /\ \A a \in Alerts : Digested(w, S).box[a].place = w.box[a].place
<1> DEFINE B == [a \in Alerts |-> IF a \in S THEN [w.box[a] EXCEPT !.digest = TRUE]
                                  ELSE w.box[a]]
<1>1. Digested(w, S) = [w EXCEPT !.box = B]
  BY DEF Digested
<1>2. \A a \in Alerts : B[a] \in Box /\ B[a].place = w.box[a].place
  BY DEF State, Box
<1>3. B \in [Alerts -> Box]
  BY <1>2
<1> HIDE DEF B
<1>4. /\ [w EXCEPT !.box = B] \in State /\ [w EXCEPT !.box = B].box = B
      /\ SameTally(w, [w EXCEPT !.box = B])
  BY <1>3 DEF State, SameTally
<1> QED
  BY <1>1, <1>2, <1>4

\* A new day leaves the entries alone.
LEMMA ResetType ==
  ASSUME NEW w \in State
  PROVE  Reset(w) \in State /\ Reset(w).box = w.box
BY DEF Reset, State

\* A recorded message: a state, and its entries are sent.
LEMMA SentType ==
  ASSUME NEW w \in State, NEW S, S \subseteq Alerts, NEW t \in Tickers
  PROVE  /\ Sent(w, S, t) \in State
         /\ \A a \in Alerts : Sent(w, S, t).box[a].place =
                                IF a \in S THEN "sent" ELSE w.box[a].place
<1> DEFINE v == Ended(w, S, "sent")
           C == [v.counts EXCEPT ![t] = v.counts[t] + 1]
           W == [v.window EXCEPT ![t] = WindowTicks]
           L == [s \in Subjects |->
                  IF LineLimit[s] > 0
                    THEN v.lines[s] + Cardinality({a \in S : SubjectOf[a] = s})
                    ELSE v.lines[s]]
<1>1. v \in State /\ \A a \in Alerts : v.box[a].place =
                       IF a \in S THEN "sent" ELSE w.box[a].place
  BY EndedType DEF Places
<1> HIDE DEF v
<1>2. Sent(w, S, t) = [v EXCEPT !.counts = C, !.window = W, !.lines = L]
  BY <1>1 DEF Sent, v, State
<1>3. C \in [Tickers -> Nat]
  BY <1>1 DEF State
<1>4. W \in [Tickers -> 0..WindowTicks]
  BY <1>1, Bounds DEF State
<1>5. \A s \in Subjects : Cardinality({a \in S : SubjectOf[a] = s}) \in Nat
  BY Countable
<1>6. L \in [Subjects -> Nat]
  BY <1>1, <1>5 DEF State
<1> HIDE DEF C, W, L
<1>7. /\ [v EXCEPT !.counts = C, !.window = W, !.lines = L] \in State
      /\ [v EXCEPT !.counts = C, !.window = W, !.lines = L].box = v.box
  BY <1>1, <1>3, <1>4, <1>6 DEF State
<1> QED
  BY <1>1, <1>2, <1>7

\* A recorded message is counted for its ticker.
LEMMA SentTally ==
  ASSUME NEW w \in State, NEW S, NEW t \in Tickers
  PROVE  Sent(w, S, t).counts = [w.counts EXCEPT ![t] = w.counts[t] + 1]
<1> DEFINE v == Ended(w, S, "sent")
<1>1. v \in State /\ v.counts = w.counts
  BY EndedType DEF Places, SameTally
<1> HIDE DEF v
<1> QED
  BY <1>1 DEF Sent, v, State

\* A recorded message leaves the day alone.
LEMMA SentToday ==
  ASSUME NEW w \in State, NEW S, NEW t \in Tickers
  PROVE  Sent(w, S, t).today = w.today
<1> DEFINE v == Ended(w, S, "sent")
<1>1. v \in State /\ v.today = w.today
  BY EndedType DEF Places, SameTally
<1> HIDE DEF v
<1> QED
  BY <1>1 DEF Sent, v, State

\* Entries that will be tried again: a state, and every place is kept.
LEMMA RetriedType ==
  ASSUME NEW w \in State, NEW S
  PROVE  /\ Retried(w, S) \in State
         /\ SameTally(w, Retried(w, S))
         /\ \A a \in Alerts : Retried(w, S).box[a].place = w.box[a].place
<1> DEFINE B == [a \in Alerts |-> IF a \in S THEN [w.box[a] EXCEPT !.retry = RetryTicks]
                                  ELSE w.box[a]]
<1>1. Retried(w, S) = [w EXCEPT !.box = B]
  BY DEF Retried
<1>2. \A a \in Alerts : B[a] \in Box /\ B[a].place = w.box[a].place
  BY Bounds DEF State, Box
<1>3. B \in [Alerts -> Box]
  BY <1>2
<1> HIDE DEF B
<1>4. /\ [w EXCEPT !.box = B] \in State /\ [w EXCEPT !.box = B].box = B
      /\ SameTally(w, [w EXCEPT !.box = B])
  BY <1>3 DEF State, SameTally
<1> QED
  BY <1>1, <1>2, <1>4

\* Entries with another cut are entries in the same place.
LEMMA RecutType ==
  ASSUME NEW w \in State,
         NEW old, NEW new \in {"later", "passed", "waiting"}
  PROVE  /\ Recut(w, old, new) \in [Alerts -> Box]
         /\ \A a \in Alerts : Recut(w, old, new)[a].place = w.box[a].place
<1>1. \A a \in Alerts : /\ Recut(w, old, new)[a] \in Box
                        /\ Recut(w, old, new)[a].place = w.box[a].place
  BY DEF Recut, State, Box
<1> QED
  BY <1>1 DEF Recut

\* A summary that begins to wait: a state, and every place is kept.
LEMMA ScheduledType ==
  ASSUME NEW w \in State
  PROVE  /\ Scheduled(w) \in State
         /\ SameTally(w, Scheduled(w))
         /\ \A a \in Alerts : Scheduled(w).box[a].place = w.box[a].place
<1> DEFINE B == Recut(w, "passed", "waiting")
<1>1. \/ Scheduled(w) = w
      \/ Scheduled(w) = [w EXCEPT !.slot = "waiting", !.box = B]
  BY DEF Scheduled
<1>2. B \in [Alerts -> Box] /\ \A a \in Alerts : B[a].place = w.box[a].place
  BY RecutType
<1> HIDE DEF B
<1>3. /\ [w EXCEPT !.slot = "waiting", !.box = B] \in State
      /\ [w EXCEPT !.slot = "waiting", !.box = B].box = B
      /\ SameTally(w, [w EXCEPT !.slot = "waiting", !.box = B])
  BY <1>2 DEF State, SameTally
<1>4. CASE Scheduled(w) = w
  BY <1>4 DEF SameTally
<1>5. CASE Scheduled(w) = [w EXCEPT !.slot = "waiting", !.box = B]
  BY <1>2, <1>3, <1>5
<1> QED
  BY <1>1, <1>4, <1>5

\* A summary that is done: a state, and every place is kept.
LEMMA ConcludedType ==
  ASSUME NEW w \in State
  PROVE  /\ Concluded(w) \in State
         /\ SameTally(w, Concluded(w))
         /\ \A a \in Alerts : Concluded(w).box[a].place = w.box[a].place
<1> DEFINE B == Recut(w, "waiting", "passed")
           slot == IF w.slot = "waiting" THEN "done" ELSE "open"
<1>1. Concluded(w) = [w EXCEPT !.slot = slot, !.box = B]
  BY DEF Concluded
<1>2. B \in [Alerts -> Box] /\ \A a \in Alerts : B[a].place = w.box[a].place
  BY RecutType
<1> HIDE DEF B
<1>3. /\ [w EXCEPT !.slot = slot, !.box = B] \in State
      /\ [w EXCEPT !.slot = slot, !.box = B].box = B
      /\ SameTally(w, [w EXCEPT !.slot = slot, !.box = B])
  BY <1>2 DEF State, SameTally
<1> QED
  BY <1>1, <1>2, <1>3

\* An interval that gets shorter stays an interval.
LEMMA LessType ==
  ASSUME NEW m \in Nat, NEW n \in 0..m
  PROVE  Less(n) \in 0..m
BY DEF Less

\* Time that passes: a state, and every place is kept.
LEMMA AgedType ==
  ASSUME NEW w \in State, NEW h
  PROVE  /\ Aged(w, h) \in State
         /\ \A a \in Alerts : Aged(w, h).box[a].place = w.box[a].place
<1> DEFINE B == [a \in Alerts |-> AgedBox(w.box[a], h)]
           W == [t \in Tickers |-> Less(w.window[t])]
           today == IF NewMonitorDay(h) THEN FALSE ELSE w.today
           slot == IF h # 0 THEN w.slot
                   ELSE CASE w.slot \in {"waiting", "late"} -> "late"
                          [] w.slot \in {"open", "done"}    -> "open"
<1>1. ASSUME NEW b \in Box
      PROVE  AgedBox(b, h) \in Box /\ AgedBox(b, h).place = b.place
  <2>1. Less(b.retry) \in 0..RetryTicks
    BY LessType, Bounds DEF Box
  <2> QED
    BY <2>1 DEF AgedBox, Box
<1>2. B \in [Alerts -> Box] /\ \A a \in Alerts : B[a].place = w.box[a].place
  BY <1>1 DEF State
<1>3. W \in [Tickers -> 0..WindowTicks]
  BY LessType, Bounds DEF State
<1>4. today \in BOOLEAN
  BY DEF State
<1>5. slot \in {"open", "waiting", "late", "done"}
  BY DEF State
<1>6. Less(w.retry) \in 0..RetryTicks
  BY LessType, Bounds DEF State
<1>7. Aged(w, h) = [w EXCEPT !.box = B, !.window = W, !.today = today,
                             !.slot = slot, !.retry = Less(@)]
  BY DEF Aged
<1> HIDE DEF B, W, today, slot
<1>8. Aged(w, h) \in State /\ Aged(w, h).box = B
  BY <1>2, <1>3, <1>4, <1>5, <1>6, <1>7 DEF State
<1> QED
  BY <1>2, <1>8

\* A group is a part of what is ready, its message of the group, about one of
\* the tickers.
LEMMA GroupFacts ==
  ASSUME TypeOK, NEW g \in Groups
  PROVE  /\ g \subseteq tx.ready
         /\ g \subseteq Alerts
         /\ Sendable(g) \subseteq g
         /\ Sendable(g) # {} => TickerIn(g) \in Tickers
<1>1. tx.ready \subseteq Alerts
  BY DEF TypeOK, Dispatch
<1>2. g \subseteq tx.ready
  BY DEF Groups
<1>3. Sendable(g) \subseteq g
  BY DEF Sendable
<1>4. ASSUME NEW a \in g  PROVE TickerIn(g) \in Tickers
  <2>1. TickerOf[a] \in Tickers
    BY <1>1, <1>2, <1>4 DEF Tickers
  <2> QED
    BY <2>1 DEF TickerIn
<1> QED
  BY <1>1, <1>2, <1>3, <1>4

\* The messages of a dispatch can be counted.
LEMMA OrdinaryType ==
  ASSUME TypeOK, NEW t \in Tickers
  PROVE  Cardinality(Ordinary(t)) \in Nat
<1>1. Ordinary(t) \subseteq SUBSET Alerts
  BY DEF Ordinary, TypeOK, Dispatch
<1>2. IsFiniteSet(SUBSET Alerts)
  BY Countable, FS_SUBSET
<1> QED
  BY <1>1, <1>2, FS_Subset, FS_CardinalityType

\* A queued alert is pending, the ones it replaces leave the queue.
LEMMA QueuedType ==
  ASSUME NEW w \in State, NEW a \in Alerts
  PROVE  /\ Queued(w, a) \in State
         /\ SameTally(w, Queued(w, a))
         /\ \A b \in Alerts : Queued(w, a).box[b].place =
              IF b = a THEN "pending"
              ELSE IF b \in Superseded(w, a) THEN "replaced" ELSE w.box[b].place
<1> DEFINE v == Ended(w, Superseded(w, a), "replaced")
           n == [NoBox EXCEPT !.place = "pending"]
<1>1. /\ v \in State /\ SameTally(w, v)
      /\ \A b \in Alerts : v.box[b].place =
           IF b \in Superseded(w, a) THEN "replaced" ELSE w.box[b].place
  BY EndedType DEF Places
<1>2. n \in Box /\ n.place = "pending"
  BY NoBoxType DEF Places
<1>3. Queued(w, a) = [v EXCEPT !.box = [v.box EXCEPT ![a] = n]]
  BY DEF Queued
<1> HIDE DEF v, n
<1>4. /\ [v EXCEPT !.box = [v.box EXCEPT ![a] = n]] \in State
      /\ [v EXCEPT !.box = [v.box EXCEPT ![a] = n]].box = [v.box EXCEPT ![a] = n]
      /\ SameTally(w, [v EXCEPT !.box = [v.box EXCEPT ![a] = n]])
  BY <1>1, <1>2 DEF State, SameTally
<1>5. v.box \in [Alerts -> Box]
  BY <1>1 DEF State
<1>6. \A b \in Alerts : [v.box EXCEPT ![a] = n][b].place =
         IF b = a THEN "pending"
         ELSE IF b \in Superseded(w, a) THEN "replaced" ELSE w.box[b].place
  BY <1>1, <1>2, <1>5
<1> QED
  BY <1>3, <1>4, <1>6

------------------------------------------------------------------------------
\* Type correctness.

\* No dispatch is a dispatch record.
LEMMA ClosedType == Closed \in Dispatch
BY DEF Closed, Dispatch, Steps

\* The system starts well typed.
LEMMA TypeInit == Init => TypeOK
<1> SUFFICES ASSUME Init PROVE TypeOK
  OBVIOUS
<1>1. 0 \in 0..DayTicks - 1 /\ 0 \in 0..MaxFaults /\ 0 \in 0..MaxChanges
  BY Bounds
<1> QED
  BY <1>1, BlankType, ClosedType, Bounds DEF Init, TypeOK

\* A dispatch that opens or goes on leaves a dispatch and a state.
LEMMA TypeStep == TypeOK /\ [Next]_vars => TypeOK'
<1> SUFFICES ASSUME TypeOK, [Next]_vars PROVE TypeOK'
  OBVIOUS
<1> USE DEF TypeOK
<1>1. ASSUME Faulty PROVE faults' \in 0..MaxFaults
  BY <1>1, Bounds DEF Faulty
<1>2. ASSUME NEW flush \in BOOLEAN, NEW batch \in SUBSET Alerts, Open(flush, batch)
      PROVE  tx' \in Dispatch /\ work' \in State
  BY <1>2, ResetType, ClosedType DEF Open, Dispatch, Steps
<1>3. CASE DeliverSome
  BY <1>2, <1>3 DEF DeliverSome, Deliver, bounds
<1>4. CASE Flush
  BY <1>2, <1>4 DEF Flush, bounds, detector
<1>5. CASE AcceptSome
  <2> PICK a \in Alerts : Accept(a)
    BY <1>5 DEF AcceptSome
  <2>1. work' \in State
    BY EndedType, QueuedType DEF Accept, Places
  <2>2. tx' \in Dispatch
    BY DEF Accept, Dispatch
  <2> QED
    BY <2>1, <2>2 DEF Accept, bounds, detector
<1>6. CASE Plan
  <2>1. work' \in State
    BY <1>6, DigestedType DEF Plan
  <2>2. tx' \in Dispatch
    BY <1>6 DEF Plan, Dispatch, Steps, Available, Allowed, Pending, PlacedIn
  <2> QED
    BY <1>6, <2>1, <2>2 DEF Plan, bounds, detector
<1>7. CASE SkipSome
  <2> PICK g \in Groups : SkipGroup(g)
    BY <1>7 DEF SkipSome
  <2>1. work' \in State
    BY DigestedType DEF SkipGroup
  <2>2. tx' \in Dispatch
    BY DEF SkipGroup, Dispatch
  <2> QED
    BY <2>1, <2>2 DEF SkipGroup, bounds, detector
<1>8. CASE SendSome
  <2> PICK g \in Groups : SendGroup(g)
    BY <1>8 DEF SendSome
  <2>1. Sendable(g) \subseteq Alerts /\ TickerIn(g) \in Tickers
    BY GroupFacts DEF SendGroup
  <2>2. work' \in State
    BY <2>1, DigestedType, SentType DEF SendGroup
  <2>3. /\ tx.ready \ g \in SUBSET Alerts
        /\ tx.groups \cup {Sendable(g)} \in SUBSET (SUBSET Alerts)
    BY <2>1 DEF Dispatch
  <2>4. tx' \in Dispatch
    BY <2>3 DEF SendGroup, Dispatch
  <2> QED
    BY <2>2, <2>4 DEF SendGroup, bounds, detector
<1>9. CASE OutOfTime
  <2>1. tx' \in Dispatch
    BY <1>9 DEF OutOfTime, Dispatch
  <2> QED
    BY <1>9, <2>1 DEF OutOfTime, bounds, detector
<1>10. CASE Clean
  <2>1. work' \in State
    BY <1>10, EndedType DEF Clean, Places
  <2>2. tx' \in Dispatch
    BY <1>10 DEF Clean, Dispatch, Steps
  <2> QED
    BY <1>10, <2>1, <2>2 DEF Clean, bounds, detector
<1>11. CASE NoSummary
  <2>1. work' \in State
    BY <1>11, ScheduledType, ConcludedType DEF NoSummary
  <2>2. tx' \in Dispatch
    BY <1>11 DEF NoSummary, Dispatch, Steps
  <2> QED
    BY <1>11, <2>1, <2>2 DEF NoSummary, bounds, detector
<1>12. CASE SendSummary
  <2>1. work' \in State
    BY <1>12, ScheduledType, EndedType, ConcludedType DEF SendSummary, Places
  <2>2. Content(Scheduled(work)) \subseteq Alerts
    BY DEF Content, Pending, PlacedIn
  <2>3. tx' \in Dispatch
    BY <1>12, <2>2 DEF SendSummary, Dispatch, Steps
  <2> QED
    BY <1>12, <2>1, <2>3 DEF SendSummary, bounds, detector
<1>13. CASE Commit
  <2>1. \A t \in Tickers : ordinary'[t] \in Nat
    BY <1>13, OrdinaryType DEF Commit
  <2>2. ordinary' \in [Tickers -> Nat]
    BY <1>13, <2>1 DEF Commit
  <2>3. told' \in SUBSET Alerts /\ monitor' \in {"idle", "deliver", "save"}
    BY <1>13 DEF Commit, Reported, Dispatch
  <2> QED
    BY <1>13, <2>2, <2>3, ClosedType, BlankType DEF Commit, Close, bounds
<1>14. CASE FailSome
  <2> PICK g \in Groups : FailGroup(g)
    BY <1>14 DEF FailSome
  <2>1. work' \in State
    BY DigestedType, RetriedType DEF FailGroup
  <2>2. tx' \in Dispatch
    BY DEF FailGroup, Dispatch
  <2> QED
    BY <1>1, <2>1, <2>2 DEF FailGroup, detector
<1>15. CASE FailSummary
  <2> DEFINE w == Scheduled(work)
  <2>1. work' = [w EXCEPT !.retry = RetryTicks]
    BY <1>15 DEF FailSummary
  <2>2. w \in State
    BY ScheduledType
  <2> HIDE DEF w
  <2>3. work' \in State
    BY <2>1, <2>2, Bounds DEF State
  <2>4. tx' \in Dispatch
    BY <1>15 DEF FailSummary, Dispatch, Steps
  <2> QED
    BY <1>1, <1>15, <2>3, <2>4 DEF FailSummary, detector
<1>16. CASE Rollback
  BY <1>1, <1>16, ClosedType, BlankType DEF Rollback, Close
<1>17. CASE Save
  BY <1>17 DEF Save, bounds
<1>18. CASE MonitorDies
  BY <1>1, <1>18 DEF MonitorDies
<1>19. CASE ChangeSome
  <2> PICK r \in Routes, m \in Modes : ChangeMode(r, m)
    BY <1>19 DEF ChangeSome
  <2>1. changes' \in 0..MaxChanges
    BY Bounds DEF ChangeMode
  <2> QED
    BY <2>1 DEF ChangeMode, detector
<1>20. CASE Tick
  <2>1. hour' \in 0..DayTicks - 1
    BY <1>20, Bounds DEF Tick
  <2>2. state' \in State
    BY <1>20, AgedType DEF Tick
  <2>3. faults' \in 0..MaxFaults
    BY <1>1, <1>20 DEF Tick
  <2>4. ordinary' \in [Tickers -> Nat]
    BY <1>20 DEF Tick
  <2> QED
    BY <1>20, <2>1, <2>2, <2>3, <2>4 DEF Tick, detector
<1>21. CASE UNCHANGED vars
  BY <1>21 DEF vars, detector, bounds
<1> QED
  BY <1>3, <1>4, <1>5, <1>6, <1>7, <1>8, <1>9, <1>10, <1>11, <1>12, <1>13, <1>14,
     <1>15, <1>16, <1>17, <1>18, <1>19, <1>20, <1>21 DEF Next, Proceed

\* The dispatcher's variables keep their types in every instance: places,
\* counts and intervals in their ranges, messages made of alerts.
THEOREM TypeCorrect == Spec => []TypeOK
<1> QED
  BY TypeInit, TypeStep, PTL DEF Spec

------------------------------------------------------------------------------
\* The inductive invariant.

\* From v to w nothing enters the queue, and what leaves it is not replaced.
Narrowed(v, w) ==
  \A a \in Alerts : \/ w.box[a].place = v.box[a].place
                    \/ /\ v.box[a].place = "pending"
                       /\ w.box[a].place \in {"sent", "off", "log"}

\* What is accepted in v is accepted in w, and what is finished stays as it is.
Carried(v, w) ==
  \A a \in Alerts : /\ v.box[a].place # "new" => w.box[a].place # "new"
                    /\ v.box[a].place \notin {"new", "pending"}
                         => w.box[a].place = v.box[a].place

\* The working copy continues the committed state; what it is about to send is
\* still pending, and what it has sent was not finished before.
DispatchContinues ==
  /\ IF tx.step = "closed" THEN tx = Closed /\ work = Blank ELSE Carried(state, work)
  /\ tx.left \subseteq tx.batch
  /\ tx.ready \subseteq Pending(work)
  /\ tx.step # "send" => tx.ready = {}
  /\ \A a \in Messages : state.box[a].place \in {"new", "pending"}

\* A transition is offered only when the ones before are saved as announced.
DetectedInOrder ==
  \A a, b \in Alerts :
    (/\ a < b
     /\ SameSubject(a, b)
     /\ b \in AcceptedBy(state) \cup AcceptedBy(work) \cup tx.batch) => a \in known

\* No transition waits behind a newer one.
NewestWaits(w) ==
  \A a, b \in Alerts :
    (/\ a < b
     /\ SameSubject(a, b)
     /\ w.box[b].place \in {"pending", "sent"}) => w.box[a].place # "pending"

\* What was replaced has a successor.
HasSuccessor(w) ==
  \A a \in Alerts : w.box[a].place = "replaced" =>
    \E b \in AcceptedBy(w) : b > a /\ SameSubject(a, b)

Inv == /\ AcceptedIsKept
       /\ DispatchContinues
       /\ DetectedInOrder
       /\ NewestWaits(state) /\ NewestWaits(work)
       /\ HasSuccessor(state) /\ HasSuccessor(work)

\* Sets of alerts, by the place of their members.
LEMMA PlaceFacts ==
  ASSUME NEW w
  PROVE  /\ \A a \in Alerts : a \in AcceptedBy(w) <=> w.box[a].place # "new"
         /\ \A a \in Alerts : a \in Pending(w) <=> w.box[a].place = "pending"
         /\ AcceptedBy(w) \subseteq Alerts
         /\ Pending(w) \subseteq Alerts
BY DEF AcceptedBy, Pending, PlacedIn

\* A narrower copy keeps what the invariant says of a copy.
LEMMA NarrowedKeeps ==
  ASSUME NEW u, NEW v, NEW w, Narrowed(v, w)
  PROVE  /\ AcceptedBy(w) = AcceptedBy(v)
         /\ Carried(u, v) => Carried(u, w)
         /\ NewestWaits(v) => NewestWaits(w)
         /\ HasSuccessor(v) => HasSuccessor(w)
<1>1. AcceptedBy(w) = AcceptedBy(v)
  BY DEF AcceptedBy, PlacedIn, Narrowed
<1>2. Carried(u, v) => Carried(u, w)
  BY DEF Carried, Narrowed
<1>3. NewestWaits(v) => NewestWaits(w)
  BY DEF NewestWaits, Narrowed
<1>4. HasSuccessor(v) => HasSuccessor(w)
  BY <1>1 DEF HasSuccessor, Narrowed
<1> QED
  BY <1>1, <1>2, <1>3, <1>4

\* A dispatcher that never ran satisfies whatever is said of a copy.
LEMMA BlankKeeps ==
  /\ AcceptedBy(Blank) = {}
  /\ NewestWaits(Blank)
  /\ HasSuccessor(Blank)
<1>1. \A a \in Alerts : Blank.box[a].place = "new"
  BY DEF Blank, NoBox
<1> QED
  BY <1>1 DEF AcceptedBy, PlacedIn, NewestWaits, HasSuccessor

\* Nothing is accepted, detected or sent at the start.
LEMMA InvInit == Init => Inv
<1> SUFFICES ASSUME Init PROVE Inv
  OBVIOUS
<1> USE DEF Init
<1>1. AcceptedIsKept
  BY DEF AcceptedIsKept
<1>2. DispatchContinues
  BY DEF DispatchContinues, Closed, Messages
<1>3. DetectedInOrder
  BY BlankKeeps DEF DetectedInOrder, Closed
<1> QED
  BY <1>1, <1>2, <1>3, BlankKeeps DEF Inv

\* A step of a dispatch that accepts nothing: its copy gets narrower, and what
\* it sends was pending.
LEMMA NarrowStep ==
  ASSUME Inv,
         tx.step # "closed", tx'.step # "closed",
         tx'.step # "send" => tx'.ready = {},
         state' = state, told' = told, known' = known,
         Narrowed(work, work'),
         tx'.left = tx.left, tx'.batch = tx.batch,
         tx'.ready \subseteq Pending(work'),
         Messages' \subseteq Messages \cup Pending(work)
  PROVE  Inv'
<1>1. Carried(state, work)
  BY DEF Inv, DispatchContinues
<1>2. AcceptedBy(work') = AcceptedBy(work) /\ Carried(state, work')
  BY <1>1, NarrowedKeeps
<1>3. NewestWaits(work') /\ HasSuccessor(work')
  BY NarrowedKeeps DEF Inv
<1>4. ASSUME NEW a \in Messages'
      PROVE  state'.box[a].place \in {"new", "pending"}
  <2>1. CASE a \in Messages
    BY <2>1 DEF Inv, DispatchContinues
  <2>2. CASE a \in Pending(work)
    <3>1. a \in Alerts /\ work.box[a].place = "pending"
      BY <2>2 DEF Pending, PlacedIn
    <3> QED
      BY <1>1, <3>1 DEF Carried
  <2> QED
    BY <2>1, <2>2
<1>5. DispatchContinues'
  BY <1>2, <1>4 DEF Inv, DispatchContinues
<1>6. DetectedInOrder'
  BY <1>2 DEF Inv, DetectedInOrder, AcceptedBy, PlacedIn
<1> QED
  BY <1>3, <1>5, <1>6 DEF Inv, AcceptedIsKept, NewestWaits, HasSuccessor, AcceptedBy, PlacedIn

\* Accepting an alert of the batch.
LEMMA AcceptStep ==
  ASSUME TypeOK, Inv, NEW a \in Alerts, Accept(a)
  PROVE  Inv'
<1>1. /\ tx.step # "closed" /\ tx'.step # "closed"
      /\ state' = state /\ told' = told /\ known' = known
      /\ a \in tx.batch /\ tx'.batch = tx.batch
      /\ tx'.left = tx.left \ {a}
      /\ tx'.ready = {} /\ Messages' = Messages
      /\ work \in State
  BY DEF Accept, detector, TypeOK, Dispatch, Inv, DispatchContinues, Messages
<1>2. /\ Carried(state, work)
      /\ tx.left \subseteq tx.batch
      /\ \A m \in Messages : state.box[m].place \in {"new", "pending"}
      /\ DetectedInOrder /\ NewestWaits(work) /\ HasSuccessor(work)
      /\ told \cup known \subseteq AcceptedBy(state)
  BY <1>1 DEF Inv, DispatchContinues, AcceptedIsKept
<1>3. SUFFICES /\ Carried(state, work')
               /\ AcceptedBy(work') \subseteq AcceptedBy(work) \cup {a}
               /\ NewestWaits(work') /\ HasSuccessor(work')
  <2>1. DispatchContinues'
    BY <1>1, <1>2, <1>3 DEF DispatchContinues
  <2>2. DetectedInOrder'
    BY <1>1, <1>2, <1>3 DEF DetectedInOrder, AcceptedBy, PlacedIn
  <2> QED
    BY <1>1, <1>3, <2>1, <2>2
       DEF Inv, AcceptedIsKept, NewestWaits, HasSuccessor, AcceptedBy, PlacedIn
<1>4. CASE work' = work
  BY <1>2, <1>4
\* The alerts before a new one were announced, so the copy has them.
<1>5. ASSUME work.box[a].place = "new", NEW b \in Alerts,
             SameSubject(a, b), work.box[b].place # "new"
      PROVE  b < a
  <2>1. CASE a < b
    <3>1. b \in AcceptedBy(work)
      BY <1>5, PlaceFacts
    <3>2. a \in known
      BY <1>2, <1>5, <2>1, <3>1 DEF DetectedInOrder
    <3>3. state.box[a].place # "new"
      BY <1>2, <3>2, PlaceFacts
    <3> QED
      BY <1>2, <1>5, <3>3 DEF Carried
  <2>2. a # b
    BY <1>5
  <2> QED
    BY <2>1, <2>2, Bounds
<1>6. CASE work.box[a].place = "new" /\ work' = Ended(work, {a}, "off")
  <2>1. \A b \in Alerts : work'.box[b].place = IF b = a THEN "off" ELSE work.box[b].place
    BY <1>1, <1>6, EndedType DEF Places
  <2>2. \A b \in AcceptedBy(work) : b \in AcceptedBy(work')
    BY <2>1, PlaceFacts
  <2>3. Carried(state, work')
    BY <1>2, <1>6, <2>1 DEF Carried
  <2>4. AcceptedBy(work') \subseteq AcceptedBy(work) \cup {a}
    BY <2>1, PlaceFacts
  <2>5. NewestWaits(work')
    BY <1>2, <2>1 DEF NewestWaits
  <2>6. HasSuccessor(work')
    BY <1>2, <2>1, <2>2 DEF HasSuccessor
  <2> QED
    BY <2>3, <2>4, <2>5, <2>6
<1>7. CASE work.box[a].place = "new" /\ work' = Queued(work, a)
  <2>1. \A b \in Alerts : work'.box[b].place =
          IF b = a THEN "pending"
          ELSE IF b \in Superseded(work, a) THEN "replaced" ELSE work.box[b].place
    BY <1>1, <1>7, QueuedType
  <2>2. \A b \in Alerts : b \in Superseded(work, a) <=>
          work.box[b].place = "pending" /\ SameSubject(a, b)
    BY DEF Superseded, Pending, PlacedIn, SameSubject
  <2>3. a \in AcceptedBy(work') /\ \A b \in AcceptedBy(work) : b \in AcceptedBy(work')
    BY <2>1, PlaceFacts
  <2>4. Carried(state, work')
    BY <1>2, <1>7, <2>1, <2>2 DEF Carried
  <2>5. AcceptedBy(work') \subseteq AcceptedBy(work) \cup {a}
    BY <2>1, <2>2, PlaceFacts
  <2>6. NewestWaits(work')
    <3> SUFFICES ASSUME NEW x \in Alerts, NEW y \in Alerts, x < y, SameSubject(x, y),
                        work'.box[y].place \in {"pending", "sent"}
                 PROVE  work'.box[x].place # "pending"
      BY DEF NewestWaits
    <3>1. CASE y = a
      <4>1. x # a /\ SameSubject(a, x)
        BY <3>1, Bounds DEF SameSubject
      <4> QED
        BY <2>1, <2>2, <4>1
    <3>2. CASE x = a
      <4>1. y # a /\ work.box[y].place \in {"pending", "sent"}
        BY <2>1, <3>2, Bounds
      <4>2. y < a
        BY <1>5, <1>7, <3>2, <4>1
      <4> QED
        BY <3>2, <4>2, Bounds
    <3>3. CASE x # a /\ y # a
      BY <1>2, <2>1, <3>3 DEF NewestWaits
    <3> QED
      BY <3>1, <3>2, <3>3
  <2>7. HasSuccessor(work')
    <3> SUFFICES ASSUME NEW x \in Alerts, work'.box[x].place = "replaced"
                 PROVE  \E b \in AcceptedBy(work') : b > x /\ SameSubject(x, b)
      BY DEF HasSuccessor
    <3>1. CASE x \in Superseded(work, a)
      <4>1. x < a /\ SameSubject(x, a)
        BY <1>5, <1>7, <2>2, <3>1 DEF SameSubject
      <4> QED
        BY <2>3, <4>1, Bounds
    <3>2. CASE x \notin Superseded(work, a)
      <4>1. work.box[x].place = "replaced"
        BY <2>1, <3>2
      <4> QED
        BY <1>2, <2>3, <4>1 DEF HasSuccessor
    <3> QED
      BY <3>1, <3>2
  <2> QED
    BY <2>4, <2>5, <2>6, <2>7
<1>8. \/ work' = work
      \/ work.box[a].place = "new" /\ work' = Ended(work, {a}, "off")
      \/ work.box[a].place = "new" /\ work' = Queued(work, a)
  <2>1. CASE a \in AcceptedBy(work)
    BY <2>1 DEF Accept
  <2>2. CASE a \notin AcceptedBy(work) /\ Off(a)
    BY <2>2, PlaceFacts DEF Accept
  <2>3. CASE a \notin AcceptedBy(work) /\ ~Off(a)
    BY <2>3, PlaceFacts DEF Accept
  <2> QED
    BY <2>1, <2>2, <2>3
<1> QED
  BY <1>4, <1>6, <1>7, <1>8

\* Opening a dispatch: the copy has the entries of the committed state.
LEMMA OpenStep ==
  ASSUME TypeOK, Inv, NEW batch,
         work' = Reset(state),
         tx'.step = "accept", tx'.batch = batch, tx'.left = batch,
         tx'.ready = {}, tx'.groups = {}, tx'.summary = {},
         state' = state, told' = told, known' = known,
         \A a \in batch : Detectable(a)
  PROVE  Inv'
<1>1. /\ work'.box = state.box
      /\ tx'.step = "accept" /\ tx'.batch = batch /\ tx'.left = batch
      /\ tx'.ready = {} /\ Messages' = {}
  BY ResetType DEF TypeOK, Messages
<1>2. AcceptedBy(work') = AcceptedBy(state)
  BY <1>1 DEF AcceptedBy, PlacedIn
<1>3. DispatchContinues'
  BY <1>1 DEF DispatchContinues, Carried
<1>4. DetectedInOrder'
  <2> SUFFICES ASSUME NEW a \in Alerts, NEW b \in Alerts, a < b, SameSubject(a, b),
                      b \in AcceptedBy(state) \cup batch
               PROVE  a \in known
    BY <1>1, <1>2 DEF DetectedInOrder, AcceptedBy, PlacedIn
  <2>1. CASE b \in AcceptedBy(state)
    BY <2>1 DEF Inv, DetectedInOrder
  <2>2. CASE b \in batch
    BY <2>2 DEF Detectable, SameSubject
  <2> QED
    BY <2>1, <2>2
<1>5. NewestWaits(work') /\ HasSuccessor(work')
  BY <1>1, <1>2 DEF Inv, NewestWaits, HasSuccessor
<1> QED
  BY <1>3, <1>4, <1>5 DEF Inv, AcceptedIsKept, NewestWaits, HasSuccessor, AcceptedBy, PlacedIn

\* The steps of a dispatch that accept nothing make its copy narrower.
LEMMA SendingSteps ==
  ASSUME TypeOK, Inv,
         \/ Plan \/ SkipSome \/ SendSome \/ FailSome \/ OutOfTime \/ Clean
         \/ NoSummary \/ SendSummary \/ FailSummary
  PROVE  Inv'
<1> USE DEF TypeOK
<1>1. /\ tx.ready \subseteq Pending(work) /\ tx \in Dispatch
      /\ tx.step # "send" => tx.ready = {}
  BY DEF Inv, DispatchContinues
<1>2. CASE Plan
  <2>1. /\ tx.step = "accept" /\ tx'.step = "send"
        /\ state' = state /\ told' = told /\ known' = known
        /\ tx'.left = tx.left /\ tx'.batch = tx.batch
        /\ tx'.ready = Available(work) /\ Messages' = Messages
        /\ work' = Digested(work, Deferred(work))
    BY <1>1, <1>2 DEF Plan, detector, Dispatch, Messages
  <2>2. \A a \in Alerts : work'.box[a].place = work.box[a].place
    BY <2>1, DigestedType
  <2>3. Available(work) \subseteq Pending(work')
    BY <2>2, PlaceFacts DEF Available, Allowed
  <2> QED
    BY <2>1, <2>2, <2>3, NarrowStep DEF Narrowed
<1>3. CASE SkipSome
  <2> PICK g \in Groups : SkipGroup(g)
    BY <1>3 DEF SkipSome
  <2>1. /\ tx.step = "send" /\ tx'.step = "send"
        /\ state' = state /\ told' = told /\ known' = known
        /\ tx'.left = tx.left /\ tx'.batch = tx.batch
        /\ tx'.ready = tx.ready \ g /\ Messages' = Messages
        /\ work' = Digested(work, g)
    BY <1>1 DEF SkipGroup, detector, Dispatch, Messages
  <2>2. \A a \in Alerts : work'.box[a].place = work.box[a].place
    BY <2>1, DigestedType
  <2>3. tx'.ready \subseteq Pending(work')
    BY <1>1, <2>1, <2>2, PlaceFacts
  <2> QED
    BY <2>1, <2>2, <2>3, NarrowStep DEF Narrowed
<1>4. CASE SendSome
  <2> PICK g \in Groups : SendGroup(g)
    BY <1>4 DEF SendSome
  <2>1. /\ tx.step = "send" /\ tx'.step = "send"
        /\ state' = state /\ told' = told /\ known' = known
        /\ tx'.left = tx.left /\ tx'.batch = tx.batch
        /\ tx'.ready = tx.ready \ g
        /\ tx'.groups = tx.groups \cup {Sendable(g)} /\ tx'.summary = tx.summary
        /\ work' = Sent(Digested(work, g \ Sendable(g)), Sendable(g), TickerIn(g))
        /\ Sendable(g) # {}
    BY <1>1 DEF SendGroup, detector, Dispatch
  <2>2. /\ Sendable(g) \subseteq g /\ g \subseteq tx.ready /\ g \subseteq Alerts
        /\ TickerIn(g) \in Tickers
    BY <2>1, GroupFacts
  <2>3. \A a \in Alerts : work'.box[a].place =
          IF a \in Sendable(g) THEN "sent" ELSE work.box[a].place
    <3> DEFINE d == Digested(work, g \ Sendable(g))
               S == Sendable(g)
               t == TickerIn(g)
    <3>1. /\ d \in State /\ S \subseteq Alerts /\ t \in Tickers
          /\ work' = Sent(d, S, t)
          /\ \A a \in Alerts : d.box[a].place = work.box[a].place
      BY <2>1, <2>2, DigestedType
    <3> HIDE DEF d, S, t
    <3>2. \A a \in Alerts : Sent(d, S, t).box[a].place =
            IF a \in S THEN "sent" ELSE d.box[a].place
      BY <3>1, SentType
    <3> QED
      BY <3>1, <3>2 DEF S
  <2>4. ASSUME NEW a \in tx.ready, a \notin g  PROVE a \in Pending(work')
    <3>1. a \in Alerts /\ work.box[a].place = "pending"
      BY <1>1, PlaceFacts
    <3>2. work'.box[a].place = "pending"
      BY <2>2, <2>3, <2>4, <3>1
    <3> QED
      BY <3>1, <3>2, PlaceFacts
  <2>5. Narrowed(work, work')
    BY <1>1, <2>2, <2>3, PlaceFacts DEF Narrowed
  <2>6. Messages' \subseteq Messages \cup Pending(work)
    BY <1>1, <2>1, <2>2 DEF Messages
  <2> QED
    BY <2>1, <2>4, <2>5, <2>6, NarrowStep
<1>5. CASE FailSome
  <2> PICK g \in Groups : FailGroup(g)
    BY <1>5 DEF FailSome
  <2>1. /\ tx.step = "send" /\ tx'.step = "send"
        /\ state' = state /\ told' = told /\ known' = known
        /\ tx'.left = tx.left /\ tx'.batch = tx.batch
        /\ tx'.ready = tx.ready \ g /\ Messages' = Messages
        /\ work' = Retried(Digested(work, g \ Sendable(g)), Sendable(g))
    BY <1>1 DEF FailGroup, detector, Dispatch, Messages
  <2>2. \A a \in Alerts : work'.box[a].place = work.box[a].place
    BY <2>1, DigestedType, RetriedType
  <2>3. ASSUME NEW a \in tx'.ready  PROVE a \in Pending(work')
    <3>1. a \in Alerts /\ work.box[a].place = "pending"
      BY <1>1, <2>1, PlaceFacts
    <3>2. work'.box[a].place = "pending"
      BY <2>2, <3>1
    <3> QED
      BY <3>1, <3>2, PlaceFacts
  <2>4. Narrowed(work, work')
    BY <2>2 DEF Narrowed
  <2> QED
    BY <2>1, <2>3, <2>4, NarrowStep
<1>6. CASE OutOfTime
  <2>1. /\ tx.step = "send" /\ tx'.step = "send"
        /\ state' = state /\ told' = told /\ known' = known /\ work' = work
        /\ tx'.left = tx.left /\ tx'.batch = tx.batch
        /\ tx'.ready = {} /\ Messages' = Messages
    BY <1>1, <1>6 DEF OutOfTime, detector, Dispatch, Messages
  <2> QED
    BY <2>1, NarrowStep DEF Narrowed
<1>7. CASE Clean
  <2> DEFINE off == {a \in Pending(work) : Off(a)}
             log == {a \in Pending(work) : ForDigest(work, a)
                                             /\ RouteOf[a] \notin Summarized}
  <2>1. /\ tx.step = "send" /\ tx'.step # "closed"
        /\ state' = state /\ told' = told /\ known' = known
        /\ tx'.left = tx.left /\ tx'.batch = tx.batch
        /\ tx'.ready = {} /\ Messages' = Messages
        /\ work' = Ended(Ended(work, off, "off"), log, "log")
    BY <1>1, <1>7 DEF Clean, detector, Dispatch, Messages
  <2>2. off \subseteq Pending(work) /\ log \subseteq Pending(work)
    OBVIOUS
  <2> HIDE DEF off, log
  <2>3. \A a \in Alerts : work'.box[a].place =
          IF a \in log THEN "log" ELSE IF a \in off THEN "off" ELSE work.box[a].place
    BY <2>1, EndedType DEF Places
  <2>4. Narrowed(work, work')
    BY <2>2, <2>3, PlaceFacts DEF Narrowed
  <2> QED
    BY <2>1, <2>4, NarrowStep
<1>8. CASE NoSummary \/ FailSummary
  <2>1. /\ tx.step = "summary" /\ tx'.step = "commit"
        /\ state' = state /\ told' = told /\ known' = known
        /\ tx'.left = tx.left /\ tx'.batch = tx.batch
        /\ tx'.ready = {} /\ Messages' = Messages
    BY <1>1, <1>8 DEF NoSummary, FailSummary, detector, Dispatch, Messages
  <2>2. Scheduled(work) \in State
        /\ \A a \in Alerts : Scheduled(work).box[a].place = work.box[a].place
    BY ScheduledType
  <2>3. \/ work' = Scheduled(work)
        \/ work' = Concluded(Scheduled(work))
        \/ work' = [Scheduled(work) EXCEPT !.retry = RetryTicks]
    BY <1>8 DEF NoSummary, FailSummary
  <2>4. \A a \in Alerts : work'.box[a].place = work.box[a].place
    <3> DEFINE w == Scheduled(work)
    <3>1. w \in State /\ \A a \in Alerts : w.box[a].place = work.box[a].place
      BY <2>2
    <3>2. work' = w \/ work' = Concluded(w) \/ work' = [w EXCEPT !.retry = RetryTicks]
      BY <2>3
    <3> HIDE DEF w
    <3>3. CASE work' = Concluded(w)
      BY <3>1, <3>3, ConcludedType
    <3>4. CASE work' = [w EXCEPT !.retry = RetryTicks]
      <4>1. work'.box = w.box
        BY <3>1, <3>4 DEF State
      <4> QED
        BY <3>1, <4>1
    <3> QED
      BY <3>1, <3>2, <3>3, <3>4
  <2>5. Narrowed(work, work')
    BY <2>4 DEF Narrowed
  <2> QED
    BY <2>1, <2>5, NarrowStep
<1>9. CASE SendSummary
  <2> DEFINE w == Scheduled(work)
  <2>1. w \in State /\ \A a \in Alerts : w.box[a].place = work.box[a].place
    BY ScheduledType
  <2>2. Content(w) \subseteq Pending(work)
    BY <2>1, PlaceFacts DEF Content
  <2>3. /\ tx.step = "summary" /\ tx'.step = "commit"
        /\ state' = state /\ told' = told /\ known' = known
        /\ tx'.left = tx.left /\ tx'.batch = tx.batch
        /\ tx'.ready = {}
        /\ tx'.groups = tx.groups /\ tx'.summary = Content(w)
        /\ work' = Concluded(Ended(w, Content(w), "sent"))
    BY <1>1, <1>9 DEF SendSummary, detector, Dispatch
  <2> HIDE DEF w
  <2>4. \A a \in Alerts : work'.box[a].place =
          IF a \in Content(w) THEN "sent" ELSE work.box[a].place
    BY <2>1, <2>3, EndedType, ConcludedType DEF Places
  <2>5. Narrowed(work, work')
    BY <2>2, <2>4, PlaceFacts DEF Narrowed
  <2>6. Messages' \subseteq Messages \cup Pending(work)
    BY <2>2, <2>3 DEF Messages
  <2> QED
    BY <2>3, <2>5, <2>6, NarrowStep
<1> QED
  BY <1>2, <1>3, <1>4, <1>5, <1>6, <1>7, <1>8, <1>9

\* The end of a dispatch: the copy becomes the state, or is forgotten.
LEMMA ClosingSteps ==
  ASSUME TypeOK, Inv, Commit \/ Rollback
  PROVE  Inv'
<1>1. /\ tx.step # "closed" /\ Carried(state, work)
      /\ told \cup known \subseteq AcceptedBy(state)
      /\ DetectedInOrder
  BY DEF Commit, Rollback, Inv, DispatchContinues, AcceptedIsKept
<1>2. /\ tx' = Closed /\ work' = Blank /\ known' = known
      /\ tx'.left = {} /\ tx'.batch = {} /\ tx'.ready = {} /\ tx'.step = "closed"
      /\ Messages' = {}
  BY DEF Commit, Rollback, Close, Closed, Messages
<1>3. DispatchContinues'
  BY <1>2 DEF DispatchContinues
<1>4. AcceptedBy(work') = {} /\ NewestWaits(work') /\ HasSuccessor(work')
  BY <1>2, BlankKeeps
<1>5. AcceptedBy(state) \subseteq AcceptedBy(work)
  BY <1>1, PlaceFacts DEF Carried
<1>6. CASE Commit
  <2>1. state' = work /\ told' \subseteq told \cup AcceptedBy(work)
    <3>1. Reported \subseteq AcceptedBy(work)
      BY DEF Reported
    <3> QED
      BY <1>6, <3>1 DEF Commit
  <2>2. AcceptedIsKept'
    BY <1>1, <1>2, <1>5, <2>1 DEF AcceptedIsKept, AcceptedBy, PlacedIn
  <2>3. DetectedInOrder'
    BY <1>1, <1>2, <1>4, <2>1 DEF DetectedInOrder, AcceptedBy, PlacedIn
  <2>4. NewestWaits(state') /\ HasSuccessor(state')
    BY <2>1 DEF Inv
  <2> QED
    BY <1>3, <1>4, <2>2, <2>3, <2>4
       DEF Inv, NewestWaits, HasSuccessor, AcceptedBy, PlacedIn
<1>7. CASE Rollback
  <2>1. state' = state /\ told' = told
    BY <1>7 DEF Rollback
  <2>2. DetectedInOrder'
    BY <1>1, <1>2, <1>4, <2>1 DEF DetectedInOrder, AcceptedBy, PlacedIn
  <2> QED
    BY <1>1, <1>2, <1>3, <1>4, <2>1, <2>2
       DEF Inv, AcceptedIsKept, NewestWaits, HasSuccessor, AcceptedBy, PlacedIn
<1> QED
  BY <1>6, <1>7

\* The steps outside a dispatch: entries stay in their places, and the monitor
\* saves no more than it was told.
LEMMA OtherSteps ==
  ASSUME TypeOK, Inv,
         \/ Save \/ MonitorDies \/ ChangeSome \/ Tick
         \/ UNCHANGED vars
  PROVE  Inv'
<1>1. /\ tx' = tx /\ work' = work
      /\ told' \subseteq told /\ known \subseteq known' /\ known' \subseteq told \cup known
  <2>1. CASE Save
    BY <2>1 DEF Save
  <2>2. CASE MonitorDies
    BY <2>2 DEF MonitorDies
  <2>3. CASE ChangeSome
    BY <2>3 DEF ChangeSome, ChangeMode, detector
  <2>4. CASE Tick
    BY <2>4 DEF Tick, detector
  <2>5. CASE UNCHANGED vars
    BY <2>5 DEF vars, detector
  <2> QED
    BY <2>1, <2>2, <2>3, <2>4, <2>5
<1>2. \A a \in Alerts : state'.box[a].place = state.box[a].place
  <2>1. CASE Tick
    BY <2>1, AgedType DEF Tick, TypeOK
  <2>2. CASE ~Tick
    BY <2>2 DEF Save, MonitorDies, ChangeSome, ChangeMode, vars
  <2> QED
    BY <2>1, <2>2
<1>3. AcceptedBy(state') = AcceptedBy(state)
  BY <1>2 DEF AcceptedBy, PlacedIn
<1>4. AcceptedIsKept'
  BY <1>1, <1>3 DEF Inv, AcceptedIsKept, AcceptedBy, PlacedIn
<1>5. DispatchContinues'
  <2>1. Carried(state, work) => Carried(state', work)
    BY <1>2 DEF Carried
  <2>2. \A a \in Messages : a \in Alerts
    BY DEF Messages, TypeOK, Dispatch
  <2>3. Messages' = Messages
    BY <1>1 DEF Messages
  <2> QED
    BY <1>1, <1>2, <2>1, <2>2, <2>3 DEF Inv, DispatchContinues
<1>6. DetectedInOrder'
  BY <1>1, <1>3 DEF Inv, DetectedInOrder, AcceptedBy, PlacedIn
<1>7. NewestWaits(state') /\ HasSuccessor(state')
  BY <1>2, <1>3 DEF Inv, NewestWaits, HasSuccessor
<1> QED
  BY <1>1, <1>4, <1>5, <1>6, <1>7
     DEF Inv, NewestWaits, HasSuccessor, AcceptedBy, PlacedIn

\* Every step of monitor, dispatcher and time keeps the invariant.
LEMMA InvStep == TypeOK /\ Inv /\ [Next]_vars => Inv'
<1> SUFFICES ASSUME TypeOK, Inv, [Next]_vars PROVE Inv'
  OBVIOUS
<1>1. CASE DeliverSome
  <2> PICK batch \in SUBSET Alerts : Deliver(batch)
    BY <1>1 DEF DeliverSome
  <2>1. \A a \in batch : Detectable(a)
    BY DEF Deliver
  <2> QED
    BY <2>1, OpenStep DEF Deliver, Open, Closed
<1>2. CASE Flush
  <2>1. /\ work' = Reset(state)
        /\ tx'.step = "accept" /\ tx'.batch = {} /\ tx'.left = {}
        /\ tx'.ready = {} /\ tx'.groups = {} /\ tx'.summary = {}
        /\ state' = state /\ told' = told /\ known' = known
    BY <1>2 DEF Flush, Open, Closed, detector
  <2> QED
    BY <2>1, OpenStep
<1>3. CASE AcceptSome
  BY <1>3, AcceptStep DEF AcceptSome
<1>4. CASE Plan \/ SkipSome \/ SendSome \/ FailSome \/ OutOfTime \/ Clean
             \/ NoSummary \/ SendSummary \/ FailSummary
  BY <1>4, SendingSteps
<1>5. CASE Commit \/ Rollback
  BY <1>5, ClosingSteps
<1>6. CASE Save \/ MonitorDies \/ ChangeSome \/ Tick \/ UNCHANGED vars
  BY <1>6, OtherSteps
<1> QED
  BY <1>1, <1>2, <1>3, <1>4, <1>5, <1>6 DEF Next, Proceed

------------------------------------------------------------------------------
\* The safety properties.

\* The inductive invariant of the dispatcher and the monitor: what was reported
\* is accepted, the working copy continues the committed state, transitions
\* arrive in order, none waits behind a newer one, and what was replaced has a
\* successor.
THEOREM Invariance == Spec => []Inv
<1> QED
  BY TypeInit, TypeStep, InvInit, InvStep, PTL DEF Spec

\* What was reported to the monitor as accepted is in the committed state, in
\* every instance and through any number of failed commits.
THEOREM AcceptedCorrect == Spec => []AcceptedIsKept
<1>1. Inv => AcceptedIsKept
  BY DEF Inv
<1> QED
  BY <1>1, Invariance, PTL

\* No message is about an alert whose message was recorded before.
THEOREM NoSecondCorrect == Spec => []NoSecondMessage
<1>1. Inv => NoSecondMessage
  BY DEF Inv, DispatchContinues, NoSecondMessage
<1> QED
  BY <1>1, Invariance, PTL

\* No message brings a transition of a subject of which a newer one is queued
\* or sent.
THEOREM NeverBackwardsCorrect == Spec => []NeverBackwards
<1>1. TypeOK /\ Inv => NeverBackwards
  <2> SUFFICES ASSUME TypeOK, Inv, NEW a \in Messages, NEW b \in Alerts,
                      b > a, SameSubject(a, b),
                      state.box[b].place \in {"pending", "sent"}
               PROVE  FALSE
    BY DEF NeverBackwards
  <2>1. a \in Alerts /\ state.box[a].place \in {"new", "pending"}
    BY DEF Inv, DispatchContinues, Messages, TypeOK, Dispatch
  <2>2. a < b
    BY <2>1, Bounds
  <2>3. b \in AcceptedBy(state)
    BY PlaceFacts
  <2>4. a \in known
    BY <2>1, <2>2, <2>3 DEF Inv, DetectedInOrder
  <2>5. state.box[a].place # "new"
    BY <2>1, <2>4, PlaceFacts DEF Inv, AcceptedIsKept
  <2> QED
    BY <2>1, <2>2, <2>5 DEF Inv, NewestWaits
<1> QED
  BY <1>1, TypeCorrect, Invariance, PTL

\* What was replaced has a newer accepted transition of its subject.
THEOREM LatestCorrect == Spec => []LatestSurvives
<1>1. Inv => LatestSurvives
  BY DEF Inv, HasSuccessor, LatestSurvives, PlacedIn
<1> QED
  BY <1>1, Invariance, PTL

------------------------------------------------------------------------------
\* The daily limit.

\* The recorded messages of the monitor day are counted in the committed state
\* or, when its counts are of another day, there are none; the copy has counted
\* the ones it has just sent.
Counted ==
  \A t \in Tickers :
    /\ ordinary[t] <= IF state.today THEN state.counts[t] ELSE 0
    /\ tx.step # "closed" =>
         work.today /\ ordinary[t] + Cardinality(Ordinary(t)) <= work.counts[t]

\* A message is about the ticker of its group, and one that is not urgent comes
\* from a group without urgent alerts, whose ticker is below its limit.
LEMMA MessageFacts ==
  ASSUME TypeOK, NEW g \in Groups, Sendable(g) # {}
  PROVE  /\ TickerIn(Sendable(g)) = TickerIn(g)
         /\ (TickerLimit > 0 /\ Sendable(g) \cap Urgent = {})
              => work.counts[TickerIn(g)] < TickerLimit
<1>1. g \subseteq Alerts /\ Sendable(g) \subseteq g /\ TickerIn(g) \in Tickers
  BY GroupFacts
<1>2. PICK t \in Tickers : \A a \in g : TickerOf[a] = t
  BY <1>1 DEF Groups, Tickers
<1>3. \A S : (S \subseteq g /\ S # {}) => TickerIn(S) = t
  BY <1>2 DEF TickerIn
<1>4. TickerIn(Sendable(g)) = TickerIn(g)
  BY <1>1, <1>3
<1>5. \A a \in g \cap Urgent : ~LineFull(work, a)
  BY DeliveryAssumption DEF DeliveryAssumption, LineFull
<1>6. ~(TickerFull(work, TickerIn(g)) /\ g \cap Urgent = {})
  BY DEF Sendable
<1>7. Sendable(g) = {a \in g : ~LineFull(work, a)}
  BY <1>6 DEF Sendable
<1>8. Sendable(g) \cap Urgent = {} => ~TickerFull(work, TickerIn(g))
  BY <1>5, <1>6, <1>7
<1>9. work.counts[TickerIn(g)] \in Nat /\ TickerLimit \in Nat
  BY <1>1, DeliveryAssumption DEF TypeOK, State, DeliveryAssumption
<1> QED
  BY <1>4, <1>8, <1>9 DEF TickerFull

\* One message more counts at most once, and only for its own ticker.
LEMMA OrdinaryGrows ==
  ASSUME TypeOK, NEW S \in SUBSET Alerts, tx'.groups = tx.groups \cup {S},
         NEW t \in Tickers
  PROVE  /\ Cardinality(Ordinary(t))' \in Nat
         /\ Cardinality(Ordinary(t))' <= Cardinality(Ordinary(t)) + 1
         /\ (TickerIn(S) # t \/ S \cap Urgent # {}) => Ordinary(t)' = Ordinary(t)
<1>1. Ordinary(t) \subseteq SUBSET Alerts
  BY DEF Ordinary, TypeOK, Dispatch
<1>2. IsFiniteSet(SUBSET Alerts)
  BY Countable, FS_SUBSET
<1>3. IsFiniteSet(Ordinary(t)) /\ Cardinality(Ordinary(t)) \in Nat
  BY <1>1, <1>2, FS_Subset, FS_CardinalityType
<1>4. CASE TickerIn(S) = t /\ S \cap Urgent = {}
  <2>1. Ordinary(t)' = Ordinary(t) \cup {S}
    BY <1>4 DEF Ordinary
  <2>2. Cardinality(Ordinary(t) \cup {S}) \in
          {Cardinality(Ordinary(t)), Cardinality(Ordinary(t)) + 1}
    BY <1>3, FS_AddElement
  <2>3. Cardinality(Ordinary(t))' = Cardinality(Ordinary(t) \cup {S})
    BY <2>1
  <2> QED
    BY <1>3, <1>4, <2>2, <2>3
<1>5. CASE TickerIn(S) # t \/ S \cap Urgent # {}
  <2>1. Ordinary(t)' = Ordinary(t)
    BY <1>5 DEF Ordinary
  <2> QED
    BY <1>3, <2>1
<1> QED
  BY <1>4, <1>5

\* A closed dispatch has no messages to count.
LEMMA NothingOrdinary ==
  ASSUME NEW t \in Tickers
  PROVE  /\ tx.groups = {} => Cardinality(Ordinary(t)) = 0
         /\ tx'.groups = {} => Cardinality(Ordinary(t))' = 0
<1>1. tx.groups = {} => Ordinary(t) = {}
  BY DEF Ordinary
<1>2. tx'.groups = {} => Ordinary(t)' = {}
  BY DEF Ordinary
<1> QED
  BY <1>1, <1>2, FS_EmptySet

\* Nothing is recorded and nothing is counted at the start.
LEMMA CountedInit == Init => Counted
<1> SUFFICES ASSUME Init PROVE Counted
  OBVIOUS
<1>1. \A t \in Tickers : ordinary[t] = 0
  BY DEF Init
<1>2. tx.step = "closed" /\ ~state.today
  BY DEF Init, Closed, Blank
<1> QED
  BY <1>1, <1>2 DEF Counted

\* A step of a dispatch that confirms no message of a group.
LEMMA UncountedStep ==
  ASSUME Counted, SameTally(work, work'),
         tx.step # "closed", tx'.groups = tx.groups,
         state' = state, ordinary' = ordinary
  PROVE  Counted'
<1>1. \A t \in Tickers : Ordinary(t)' = Ordinary(t)
  BY DEF Ordinary
<1> QED
  BY <1>1 DEF Counted, SameTally

\* Every step counts what it records: sending and committing, and the day's reset.
LEMMA CountedStep == TypeOK /\ Inv /\ Counted /\ [Next]_vars => Counted'
<1> SUFFICES ASSUME TypeOK, Inv, Counted, [Next]_vars PROVE Counted'
  OBVIOUS
<1> USE DEF TypeOK
<1>1. tx \in Dispatch /\ (tx.step = "closed" => tx.groups = {})
  BY DEF Inv, DispatchContinues, Closed
<1>2. \A t \in Tickers : ordinary[t] \in Nat /\ state.counts[t] \in Nat
  BY DEF State
<1>3. ASSUME NEW flush, NEW batch, Open(flush, batch), state' = state, ordinary' = ordinary
      PROVE  Counted'
  <2>1. tx'.groups = {}
    BY <1>3 DEF Open, Closed
  <2>2. work'.today /\ \A t \in Tickers :
          work'.counts[t] = IF state.today THEN state.counts[t] ELSE 0
    BY <1>3 DEF Open, Reset, State
  <2>3. \A t \in Tickers : Cardinality(Ordinary(t))' = 0
    BY <2>1, NothingOrdinary
  <2> QED
    BY <1>2, <1>3, <2>2, <2>3 DEF Counted
<1>4. CASE DeliverSome
  <2> PICK batch \in SUBSET Alerts : Deliver(batch)
    BY <1>4 DEF DeliverSome
  <2>1. \E flush : Open(flush, batch)
    BY Zenon DEF Deliver
  <2>2. state' = state /\ ordinary' = ordinary
    BY DEF Deliver
  <2> QED
    BY <1>3, <2>1, <2>2
<1>5. CASE Flush
  <2>1. \E flush, batch : Open(flush, batch)
    BY <1>5, Zenon DEF Flush
  <2>2. state' = state /\ ordinary' = ordinary
    BY <1>5 DEF Flush
  <2> QED
    BY <1>3, <2>1, <2>2
<1>6. CASE AcceptSome
  <2> PICK a \in Alerts : Accept(a)
    BY <1>6 DEF AcceptSome
  <2>1. SameTally(work, work')
    BY EndedType, QueuedType DEF Accept, Places, SameTally
  <2>2. /\ tx.step # "closed" /\ tx'.groups = tx.groups
        /\ state' = state /\ ordinary' = ordinary
    BY <1>1 DEF Accept, Dispatch
  <2> QED
    BY <2>1, <2>2, UncountedStep
<1>7. CASE Plan
  <2>1. SameTally(work, work')
    BY <1>7, DigestedType DEF Plan
  <2>2. /\ tx.step # "closed" /\ tx'.groups = tx.groups
        /\ state' = state /\ ordinary' = ordinary
    BY <1>1, <1>7 DEF Plan, Dispatch
  <2> QED
    BY <2>1, <2>2, UncountedStep
<1>8. CASE SkipSome
  <2> PICK g \in Groups : SkipGroup(g)
    BY <1>8 DEF SkipSome
  <2>1. SameTally(work, work')
    BY DigestedType DEF SkipGroup
  <2>2. /\ tx.step # "closed" /\ tx'.groups = tx.groups
        /\ state' = state /\ ordinary' = ordinary
    BY <1>1 DEF SkipGroup, Dispatch
  <2> QED
    BY <2>1, <2>2, UncountedStep
<1>9. CASE SendSome
  <2> PICK g \in Groups : SendGroup(g)
    BY <1>9 DEF SendSome
  <2> DEFINE d == Digested(work, g \ Sendable(g))
             S == Sendable(g)
             k == TickerIn(g)
  <2>1. /\ tx.step # "closed" /\ tx'.groups = tx.groups \cup {S}
        /\ state' = state /\ ordinary' = ordinary
        /\ work' = Sent(d, S, k)
    BY <1>1 DEF SendGroup, Dispatch
  <2>2. d \in State /\ SameTally(work, d)
    BY DigestedType
  <2>3. S \in SUBSET Alerts /\ k \in Tickers /\ TickerIn(S) = k
    BY GroupFacts, MessageFacts DEF SendGroup
  <2> HIDE DEF d, S, k
  <2>4. /\ work'.today = d.today
        /\ work'.counts[k] = d.counts[k] + 1
        /\ \A t \in Tickers \ {k} : work'.counts[t] = d.counts[t]
    <3>1. d \in State /\ k \in Tickers
      BY <2>2, <2>3
    <3>2. Sent(d, S, k).counts = [d.counts EXCEPT ![k] = d.counts[k] + 1]
      BY <3>1, SentTally
    <3>3. d.counts \in [Tickers -> Nat]
      BY <3>1 DEF State
    <3>4. /\ work'.counts[k] = d.counts[k] + 1
          /\ \A t \in Tickers \ {k} : work'.counts[t] = d.counts[t]
      BY <2>1, <3>1, <3>2, <3>3
    <3>5. Sent(d, S, k).today = d.today
      BY <3>1, SentToday
    <3> QED
      BY <2>1, <3>4, <3>5, Zenon
  <2>5. ASSUME NEW t \in Tickers
        PROVE  ordinary[t] + Cardinality(Ordinary(t))' <= work'.counts[t]
    <3>1. /\ Cardinality(Ordinary(t))' \in Nat
          /\ Cardinality(Ordinary(t))' <= Cardinality(Ordinary(t)) + 1
          /\ t # k => Ordinary(t)' = Ordinary(t)
      BY <2>1, <2>3, OrdinaryGrows
    <3>2. ordinary[t] + Cardinality(Ordinary(t)) <= work.counts[t]
      BY <2>1 DEF Counted
    <3>3. /\ Cardinality(Ordinary(t)) \in Nat /\ work.counts[t] \in Nat
          /\ work'.counts[t] = IF t = k THEN work.counts[t] + 1 ELSE work.counts[t]
      BY <2>2, <2>4, OrdinaryType DEF State, SameTally
    <3> QED
      BY <1>2, <3>1, <3>2, <3>3
  <2> QED
    BY <2>1, <2>2, <2>4, <2>5 DEF Counted, SameTally
<1>10. CASE FailSome
  <2> PICK g \in Groups : FailGroup(g)
    BY <1>10 DEF FailSome
  <2>1. SameTally(work, work')
    BY DigestedType, RetriedType DEF FailGroup, SameTally
  <2>2. /\ tx.step # "closed" /\ tx'.groups = tx.groups
        /\ state' = state /\ ordinary' = ordinary
    BY <1>1 DEF FailGroup, Dispatch
  <2> QED
    BY <2>1, <2>2, UncountedStep
<1>11. CASE OutOfTime
  <2>1. /\ tx.step # "closed" /\ tx'.groups = tx.groups
        /\ state' = state /\ ordinary' = ordinary /\ work' = work
    BY <1>1, <1>11 DEF OutOfTime, Dispatch
  <2> QED
    BY <2>1, UncountedStep DEF SameTally
<1>12. CASE Clean
  <2> DEFINE off == {a \in Pending(work) : Off(a)}
             log == {a \in Pending(work) : ForDigest(work, a)
                                             /\ RouteOf[a] \notin Summarized}
             w == Ended(work, off, "off")
  <2>1. work' = Ended(w, log, "log")
    BY <1>12 DEF Clean
  <2> HIDE DEF log
  <2>2. w \in State /\ SameTally(work, w)
    BY EndedType DEF Places
  <2> HIDE DEF off, w
  <2>3. SameTally(work, work')
    BY <2>1, <2>2, EndedType DEF Places, SameTally
  <2>4. /\ tx.step # "closed" /\ tx'.groups = tx.groups
        /\ state' = state /\ ordinary' = ordinary
    BY <1>1, <1>12 DEF Clean, Dispatch
  <2> QED
    BY <2>3, <2>4, UncountedStep
<1>13. CASE NoSummary \/ SendSummary \/ FailSummary
  <2> DEFINE w == Scheduled(work)
  <2>1. w \in State /\ SameTally(work, w)
    BY ScheduledType
  <2>2. \/ work' = w
        \/ work' = Concluded(w)
        \/ work' = Concluded(Ended(w, Content(w), "sent"))
        \/ work' = [w EXCEPT !.retry = RetryTicks]
    BY <1>13 DEF NoSummary, SendSummary, FailSummary
  <2> HIDE DEF w
  <2>3. SameTally(w, work')
    <3>1. CASE work' = w
      BY <3>1, Zenon DEF SameTally
    <3>2. CASE work' = Concluded(w)
      BY <2>1, <3>2, ConcludedType, Zenon
    <3>3. CASE work' = Concluded(Ended(w, Content(w), "sent"))
      <4> DEFINE v == Ended(w, Content(w), "sent")
      <4>1. work' = Concluded(v)
        BY <3>3
      <4>2. v \in State /\ SameTally(w, v)
        BY <2>1, EndedType DEF Places
      <4> HIDE DEF v
      <4>3. SameTally(v, Concluded(v))
        BY <4>2, ConcludedType, Zenon
      <4> QED
        BY <4>1, <4>2, <4>3, Zenon DEF SameTally
    <3>4. CASE work' = [w EXCEPT !.retry = RetryTicks]
      BY <2>1, <3>4 DEF State, SameTally
    <3> QED
      BY <2>2, <3>1, <3>2, <3>3, <3>4
  <2>4. /\ tx.step # "closed" /\ tx'.groups = tx.groups
        /\ state' = state /\ ordinary' = ordinary
    BY <1>1, <1>13 DEF NoSummary, SendSummary, FailSummary, Dispatch
  <2>5. SameTally(work, work')
    BY <2>1, <2>3 DEF SameTally
  <2> QED
    BY <2>4, <2>5, UncountedStep
<1>14. CASE Commit
  <2>1. \A t \in Tickers : /\ ordinary'[t] = ordinary[t] + Cardinality(Ordinary(t))
                           /\ state' = work /\ tx'.step = "closed"
    BY <1>14 DEF Commit, Close, Closed
  <2>2. \A t \in Tickers :
          work.today /\ ordinary[t] + Cardinality(Ordinary(t)) <= work.counts[t]
    BY <1>14 DEF Counted, Commit
  <2> QED
    BY <2>1, <2>2 DEF Counted
<1>15. CASE Rollback
  BY <1>15 DEF Rollback, Close, Closed, Counted
<1>16. CASE Save \/ MonitorDies \/ ChangeSome \/ UNCHANGED vars
  <2>1. tx' = tx /\ work' = work /\ state' = state /\ ordinary' = ordinary
    BY <1>16 DEF Save, MonitorDies, ChangeSome, ChangeMode, vars
  <2>2. \A t \in Tickers : Ordinary(t)' = Ordinary(t)
    BY <2>1 DEF Ordinary
  <2> QED
    BY <2>1, <2>2 DEF Counted
<1>17. CASE Tick
  <2>1. tx' = tx /\ tx.step = "closed" /\ state' = Aged(state, hour')
    BY <1>17 DEF Tick
  <2>2. /\ state'.counts = state.counts
        /\ state'.today = IF hour' = MonitorHour THEN FALSE ELSE state.today
    BY <2>1 DEF Aged, State, NewMonitorDay
  <2>3. \A t \in Tickers : ordinary'[t] = IF hour' = MonitorHour THEN 0 ELSE ordinary[t]
    BY <1>17 DEF Tick
  <2> QED
    BY <1>2, <2>1, <2>2, <2>3 DEF Counted
<1> QED
  BY <1>4, <1>5, <1>6, <1>7, <1>8, <1>9, <1>10, <1>11, <1>12, <1>13, <1>14, <1>15,
     <1>16, <1>17 DEF Next, Proceed

\* The limit is a number.
LEMMA LimitType == TickerLimit \in Nat
BY DeliveryAssumption DEF DeliveryAssumption

\* No message is recorded at the start.
LEMMA LimitInit == Init => LimitHolds
<1> SUFFICES ASSUME Init PROVE LimitHolds
  OBVIOUS
<1>1. tx.groups = {} /\ \A t \in Tickers : ordinary[t] = 0
  BY DEF Init, Closed
<1>2. \A t \in Tickers : Cardinality(Ordinary(t)) = 0
  BY <1>1, NothingOrdinary
<1> QED
  BY <1>1, <1>2, LimitType DEF LimitHolds

\* A step that confirms no message of a group and records none.
LEMMA QuietStep ==
  ASSUME TypeOK, LimitHolds, ordinary' = ordinary,
         tx'.groups = tx.groups \/ tx'.groups = {}
  PROVE  LimitHolds'
<1> SUFFICES ASSUME NEW t \in Tickers, TickerLimit > 0
             PROVE  ordinary[t] + Cardinality(Ordinary(t))' <= TickerLimit
  BY DEF LimitHolds
<1>1. ordinary[t] + Cardinality(Ordinary(t)) <= TickerLimit
  BY DEF LimitHolds
<1>2. ordinary[t] \in Nat /\ Cardinality(Ordinary(t)) \in Nat
  BY OrdinaryType DEF TypeOK
<1>3. CASE tx'.groups = tx.groups
  <2>1. Ordinary(t)' = Ordinary(t)
    BY <1>3 DEF Ordinary
  <2> QED
    BY <1>1, <2>1
<1>4. CASE tx'.groups = {}
  <2>1. Cardinality(Ordinary(t))' = 0
    BY <1>4, NothingOrdinary
  <2> QED
    BY <1>1, <1>2, <2>1, LimitType
<1> QED
  BY <1>3, <1>4

\* No step brings a ticker above the limit of its day.
LEMMA LimitStep == TypeOK /\ Inv /\ Counted /\ LimitHolds /\ [Next]_vars => LimitHolds'
<1> SUFFICES ASSUME TypeOK, Inv, Counted, LimitHolds, [Next]_vars PROVE LimitHolds'
  OBVIOUS
<1>1. tx \in Dispatch /\ (tx.step = "closed" => tx.groups = {})
  BY DEF TypeOK, Inv, DispatchContinues, Closed
<1>2. CASE DeliverSome
  BY <1>2, QuietStep DEF DeliverSome, Deliver, Open, Closed
<1>3. CASE Flush
  BY <1>3, QuietStep DEF Flush, Open, Closed
<1>4. CASE AcceptSome \/ Plan \/ SkipSome \/ FailSome \/ OutOfTime \/ Clean
  <2>1. ordinary' = ordinary /\ tx'.groups = tx.groups
    BY <1>1, <1>4 DEF AcceptSome, Accept, Plan, SkipSome, SkipGroup, FailSome,
                      FailGroup, OutOfTime, Clean, Dispatch
  <2> QED
    BY <2>1, QuietStep
<1>5. CASE SendSome
  <2> PICK g \in Groups : SendGroup(g)
    BY <1>5 DEF SendSome
  <2> DEFINE S == Sendable(g)
             k == TickerIn(g)
  <2>1. /\ tx.step # "closed" /\ tx'.groups = tx.groups \cup {S}
        /\ ordinary' = ordinary
    BY <1>1 DEF SendGroup, Dispatch
  <2>2. S \in SUBSET Alerts /\ k \in Tickers
    BY GroupFacts DEF SendGroup
  <2>3. /\ TickerIn(S) = k
        /\ (TickerLimit > 0 /\ S \cap Urgent = {}) => work.counts[k] < TickerLimit
    BY MessageFacts DEF SendGroup
  <2> HIDE DEF S, k
  <2> SUFFICES ASSUME NEW t \in Tickers, TickerLimit > 0
               PROVE  ordinary[t] + Cardinality(Ordinary(t))' <= TickerLimit
    BY <2>1 DEF LimitHolds
  <2>4. ordinary[t] + Cardinality(Ordinary(t)) <= TickerLimit
    BY DEF LimitHolds
  <2>5. /\ ordinary[t] \in Nat /\ Cardinality(Ordinary(t)) \in Nat
        /\ work.counts[t] \in Nat
    BY OrdinaryType DEF TypeOK, State
  <2>6. CASE t # k \/ S \cap Urgent # {}
    <3>1. Ordinary(t)' = Ordinary(t)
      BY <2>1, <2>2, <2>3, <2>6, OrdinaryGrows
    <3> QED
      BY <2>4, <3>1
  <2>7. CASE t = k /\ S \cap Urgent = {}
    <3>1. /\ Cardinality(Ordinary(t))' \in Nat
          /\ Cardinality(Ordinary(t))' <= Cardinality(Ordinary(t)) + 1
      BY <2>1, <2>2, OrdinaryGrows
    <3>2. ordinary[t] + Cardinality(Ordinary(t)) <= work.counts[t]
      BY <2>1 DEF Counted
    <3>3. work.counts[t] < TickerLimit
      BY <2>3, <2>7
    <3> QED
      BY <2>5, <3>1, <3>2, <3>3, LimitType
  <2> QED
    BY <2>6, <2>7
<1>6. CASE NoSummary \/ SendSummary \/ FailSummary
  <2>1. ordinary' = ordinary /\ tx'.groups = tx.groups
    BY <1>1, <1>6 DEF NoSummary, SendSummary, FailSummary, Dispatch
  <2> QED
    BY <2>1, QuietStep
<1>7. CASE Commit
  <2>1. tx'.groups = {}
    BY <1>7 DEF Commit, Close, Closed
  <2>2. \A t \in Tickers : /\ ordinary'[t] = ordinary[t] + Cardinality(Ordinary(t))
                           /\ Cardinality(Ordinary(t))' = 0
    BY <1>7, <2>1, NothingOrdinary DEF Commit
  <2>3. \A t \in Tickers : ordinary[t] \in Nat /\ Cardinality(Ordinary(t)) \in Nat
    BY OrdinaryType DEF TypeOK
  <2> QED
    BY <2>2, <2>3 DEF LimitHolds
<1>8. CASE Rollback \/ Save \/ MonitorDies \/ ChangeSome \/ UNCHANGED vars
  <2>1. ordinary' = ordinary /\ (tx'.groups = tx.groups \/ tx'.groups = {})
    BY <1>8 DEF Rollback, Close, Closed, Save, MonitorDies, ChangeSome, ChangeMode, vars
  <2> QED
    BY <2>1, QuietStep
<1>9. CASE Tick
  <2>1. tx.groups = {} /\ tx'.groups = {}
    BY <1>1, <1>9 DEF Tick
  <2>2. \A t \in Tickers : /\ ordinary'[t] = ordinary[t] \/ ordinary'[t] = 0
                           /\ ordinary[t] \in Nat
                           /\ Cardinality(Ordinary(t)) = 0
                           /\ Cardinality(Ordinary(t))' = 0
    BY <1>9, <2>1, NothingOrdinary DEF Tick, TypeOK
  <2> QED
    BY <2>2, LimitType DEF LimitHolds
<1> QED
  BY <1>2, <1>3, <1>4, <1>5, <1>6, <1>7, <1>8, <1>9 DEF Next, Proceed

\* LimitHolds: per ticker and monitor day there are never more recorded messages
\* without an urgent alert than the limit allows, for every limit, although the
\* counts are only reset when the next dispatch opens and a failed commit takes
\* them back.
THEOREM LimitCorrect == Spec => []LimitHolds
<1>1. Init => Counted /\ LimitHolds
  BY CountedInit, LimitInit
<1>2. TypeOK /\ Inv /\ Counted /\ LimitHolds /\ [Next]_vars => Counted' /\ LimitHolds'
  BY CountedStep, LimitStep
<1> QED
  BY <1>1, <1>2, TypeCorrect, Invariance, PTL DEF Spec
=============================================================================
