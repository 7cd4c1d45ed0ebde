------------------------ MODULE NotificationDelivery ------------------------
(***************************************************************************)
(* The notification dispatcher, services/notification_delivery.py: one      *)
(* settings document holds what is pending, what is finished and what was   *)
(* counted; every dispatch works on it under an advisory lock, talks to     *)
(* Pushover while the transaction is open and commits at the end.           *)
(*                                                                          *)
(* Two callers take the lock in turns.  The position monitor delivers the   *)
(* transitions it has detected and saves them as announced only afterwards, *)
(* in a transaction of its own; the flush task delivers what is pending and *)
(* the daily summary.  A dispatch is a sequence of steps here, because the  *)
(* provider may fail at every message and the process may die at any step.  *)
(*                                                                          *)
(* A tick is a stretch of the day, long against a dispatch; hours wrap      *)
(* round, intervals count down.  An alert keeps its id when it is detected  *)
(* again (final close prices; intraday crossings get a new id).             *)
(***************************************************************************)
EXTENDS Integers, FiniteSets

CONSTANTS
  Alerts,        \* transitions, numbered in the order they are detected
  TickerOf,
  SubjectOf,     \* ticker and line or rating it is about; NoSubject: stop, ATR
  NoSubject,
  RouteOf,       \* the setting that routes it: break, recovery, score, stop
  Urgent,        \* stops and escalations, with their bypass switched on
  SessionBound,  \* sent in regular trading hours only
  Routes,
  InitialMode,   \* modes of the routes when the behaviour begins
  Summarized,    \* routes the daily summary includes; none: it is switched off
  Grouping,      \* alerts of one ticker travel together, and apart in time
  TickerLimit,   \* ordinary messages per ticker and monitor day; 0: no limit
  LineLimit,     \* alerts per subject and monitor day; 0: no limit
  MaxPending,    \* MAX_PENDING
  WindowTicks,   \* grouping window after a message
  RetryTicks,    \* pause after a failed message
  DayTicks,      \* hours 0..DayTicks-1, midnight first
  QuietHours,
  RegularHours,
  SummaryHour,
  MonitorHour,   \* the monitor day begins
  MaxFaults,     \* bound: failed messages, commits, flushes and monitor runs
  MaxChanges     \* bound: changes of the settings

Modes    == {"off", "digest", "immediate"}
Tickers  == {TickerOf[a] : a \in Alerts}
Subjects == {SubjectOf[a] : a \in Alerts} \ {NoSubject}

ASSUME DeliveryAssumption ==
  /\ Alerts \subseteq Nat /\ IsFiniteSet(Alerts)
  /\ Urgent \subseteq Alerts
  /\ \A a \in Urgent : SubjectOf[a] = NoSubject
  /\ SessionBound \subseteq Alerts
  /\ RouteOf \in [Alerts -> Routes]
  /\ InitialMode \in [Routes -> Modes]
  /\ Grouping \in BOOLEAN
  /\ TickerLimit \in Nat
  /\ LineLimit \in [Subjects -> Nat]
  /\ MaxPending \in Nat
  /\ WindowTicks \in Nat
  /\ RetryTicks \in Nat
  /\ DayTicks \in Nat \ {0}
  /\ SummaryHour \in 1..DayTicks - 1
  /\ MonitorHour \in 0..DayTicks - 1
  /\ MaxFaults \in Nat
  /\ MaxChanges \in Nat

VARIABLES
  hour,
  mode,      \* notification_preferences: route -> mode
  state,     \* notification_dispatch_state, as committed
  tx,        \* the dispatch that holds the lock: how far it has come
  work,      \* its working copy of the state; Blank when nobody dispatches
  monitor,   \* the monitor run: "idle", "deliver" (called) or "save" (returned)
  told,      \* what the dispatcher reported as accepted to this run
  known,     \* transitions the monitor has saved as announced
  flushed,   \* the flush task ran since the last tick
  ordinary,  \* history: recorded messages without urgent alerts, by ticker, today
  faults, changes

detector == <<monitor, told, known>>
bounds   == <<faults, changes>>
vars     == <<hour, mode, state, tx, work, detector, flushed, ordinary, bounds>>

\* An alert in the dispatcher's hands.  Finished ones are in the list "seen",
\* and the delivery log says how they ended.
Places == {"new", "pending", "sent", "off", "replaced", "log"}
Box    == [place  : Places,
           digest : BOOLEAN,              \* it has a digest_reason
           retry  : 0..RetryTicks,        \* ticks until retry_at
           cut    : {"later", "passed", "waiting"}]  \* accepted after the last
                          \* summary time, before it, before the waiting summary's
NoBox  == [place |-> "new", digest |-> FALSE, retry |-> 0, cut |-> "later"]

State == [box    : [Alerts -> Box],
          counts : [Tickers -> Nat],      \* messages of the monitor day
          lines  : [Subjects -> Nat],     \* alerts of the monitor day
          window : [Tickers -> 0..WindowTicks],   \* left of the grouping window
          today  : BOOLEAN,               \* the counts are those of this day
          slot   : {"open", "waiting", "late", "done"},  \* today's summary; "late":
                                          \* one of an earlier date still waits
          retry  : 0..RetryTicks]         \* ticks until summary_retry_at

Blank == [box    |-> [a \in Alerts |-> NoBox],
          counts |-> [t \in Tickers |-> 0],
          lines  |-> [s \in Subjects |-> 0],
          window |-> [t \in Tickers |-> 0],
          today  |-> FALSE,
          slot   |-> "open",
          retry  |-> 0]

Steps    == {"closed", "accept", "send", "summary", "commit"}
Dispatch == [step    : Steps,
             flush   : BOOLEAN,
             batch   : SUBSET Alerts,           \* what the monitor delivers
             left    : SUBSET Alerts,           \* of these, not yet looked at
             ready   : SUBSET Alerts,           \* may go out at once
             tried   : BOOLEAN,                 \* a message has taken its time
             groups  : SUBSET (SUBSET Alerts),  \* messages the provider confirmed
             summary : SUBSET Alerts]           \* a confirmed summary's content

Closed == [step |-> "closed", flush |-> FALSE, batch |-> {}, left |-> {},
           ready |-> {}, tried |-> FALSE, groups |-> {}, summary |-> {}]

TypeOK ==
  /\ hour \in 0..DayTicks - 1
  /\ mode \in [Routes -> Modes]
  /\ state \in State
  /\ tx \in Dispatch
  /\ work \in State
  /\ monitor \in {"idle", "deliver", "save"}
  /\ told \in SUBSET Alerts
  /\ known \in SUBSET Alerts
  /\ flushed \in BOOLEAN
  /\ ordinary \in [Tickers -> Nat]
  /\ faults \in 0..MaxFaults
  /\ changes \in 0..MaxChanges

Init ==
  /\ hour = 0
  /\ mode = InitialMode
  /\ state = Blank
  /\ tx = Closed
  /\ work = Blank
  /\ monitor = "idle"
  /\ told = {}
  /\ known = {}
  /\ flushed = FALSE
  /\ ordinary = [t \in Tickers |-> 0]
  /\ faults = 0
  /\ changes = 0

Faulty == faults < MaxFaults /\ faults' = faults + 1

------------------------------------------------------------------------------
\* What the dispatcher's state says.

PlacedIn(w, place) == {a \in Alerts : w.box[a].place = place}
Pending(w)         == PlacedIn(w, "pending")

\* Mutant: the finished alerts are forgotten.
AcceptedByQueue(w) == Pending(w)

\* The lists "seen" and "pending" together.
AcceptedBy(w) == Alerts \ PlacedIn(w, "new")

Off(a)          == mode[RouteOf[a]] = "off"
Immediate(w, a) == mode[RouteOf[a]] = "immediate" /\ ~w.box[a].digest
ForDigest(w, a) == ~Off(a) /\ ~Immediate(w, a)

Quiet(hasBypass) == hour \in QuietHours /\ ~hasBypass
OutOfSession(a)  == a \in SessionBound /\ hour \notin RegularHours
InWindow(w, a)   == Grouping /\ a \notin Urgent /\ w.window[TickerOf[a]] > 0
TickerFull(w, t) == TickerLimit > 0 /\ w.counts[t] >= TickerLimit
LineFull(w, a)   == /\ SubjectOf[a] # NoSubject
                    /\ LineLimit[SubjectOf[a]] > 0
                    /\ w.lines[SubjectOf[a]] >= LineLimit[SubjectOf[a]]

\* S leaves the queue.
Ended(w, S, place) ==
  [w EXCEPT !.box = [a \in Alerts |-> IF a \in S THEN [NoBox EXCEPT !.place = place]
                                      ELSE @[a]]]

\* S waits for the daily summary.
Digested(w, S) ==
  [w EXCEPT !.box = [a \in Alerts |-> IF a \in S THEN [@[a] EXCEPT !.digest = TRUE]
                                      ELSE @[a]]]

------------------------------------------------------------------------------
\* Opening a dispatch.

\* New day, new counts.
Reset(w) ==
  IF w.today THEN w
  ELSE [w EXCEPT !.today = TRUE, !.counts = [t \in Tickers |-> 0],
                 !.lines = [s \in Subjects |-> 0]]

Open(flush, batch) ==
  /\ tx.step = "closed"
  /\ tx' = [Closed EXCEPT !.step = "accept", !.flush = flush,
                          !.batch = batch, !.left = batch]
  /\ work' = Reset(state)

\* A transition is detected against the saved ones: not again once it is
\* known, and the next one of a subject only after the one before.
Detectable(a) ==
  /\ a \notin known
  /\ \A b \in Alerts : (b < a /\ SubjectOf[b] = SubjectOf[a] /\ SubjectOf[a] # NoSubject)
       => b \in known

Deliver(batch) ==
  /\ monitor = "idle"
  /\ batch \subseteq {a \in Alerts : Detectable(a)}
  /\ Open(FALSE, batch)
  /\ monitor' = "deliver"
  /\ UNCHANGED <<hour, mode, state, told, known, flushed, ordinary, bounds>>

Flush ==
  /\ Open(TRUE, {})
  /\ flushed' = TRUE
  /\ UNCHANGED <<hour, mode, state, detector, ordinary, bounds>>

------------------------------------------------------------------------------
\* Accepting.

\* Mutant: the older transition stays in the queue.
SupersededNever(w, a) == {}

\* Mutant: the subject of an alert is its ticker.
SupersededByTicker(w, a) == {b \in Pending(w) : TickerOf[b] = TickerOf[a]}

\* Unsent transitions of the same subject give way to the new one.
Superseded(w, a) ==
  {b \in Pending(w) : SubjectOf[b] = SubjectOf[a] /\ SubjectOf[a] # NoSubject}

Queued(w, a) ==
  [Ended(w, Superseded(w, a), "replaced") EXCEPT
     !.box = [@ EXCEPT ![a] = [NoBox EXCEPT !.place = "pending"]]]

\* One alert of the batch: known here already, switched off, refused by a full
\* queue, or queued.
Accept(a) ==
  /\ tx.step = "accept"
  /\ a \in tx.left
  /\ \A b \in tx.left : a <= b
  /\ work' = CASE a \in AcceptedBy(work) -> work
               [] a \notin AcceptedBy(work) /\ Off(a) -> Ended(work, {a}, "off")
               [] OTHER -> IF Cardinality(Pending(work)) < MaxPending
                             THEN Queued(work, a) ELSE work
  /\ tx' = [tx EXCEPT !.left = @ \ {a}]
  /\ UNCHANGED <<hour, mode, state, detector, flushed, ordinary, bounds>>

------------------------------------------------------------------------------
\* Sending.

\* Pending alerts whose hour has come.
Allowed(w) ==
  {a \in Pending(w) : Immediate(w, a) /\ w.box[a].retry = 0
                        /\ ~Quiet(a \in Urgent)}

\* Of these, the ones that must not come late as news: detected outside the
\* session, or above a limit.
Deferred(w) ==
  {a \in Allowed(w) :
     IF OutOfSession(a) THEN SubjectOf[a] # NoSubject
     ELSE \/ LineFull(w, a)
          \/ a \notin Urgent /\ ~InWindow(w, a) /\ TickerFull(w, TickerOf[a])}

Available(w) ==
  {a \in Allowed(w) \ Deferred(w) : ~OutOfSession(a) /\ ~InWindow(w, a)}

Plan ==
  /\ tx.step = "accept"
  /\ tx.left = {}
  /\ work' = Digested(work, Deferred(work))
  /\ tx' = [tx EXCEPT !.step = "send", !.ready = Available(work)]
  /\ UNCHANGED <<hour, mode, state, detector, flushed, ordinary, bounds>>

\* Pending alerts that go out as one message.
Groups == IF Grouping THEN {{a \in tx.ready : TickerOf[a] = t} : t \in Tickers} \ {{}}
          ELSE {{a} : a \in tx.ready}

TickerIn(g) == CHOOSE t \in Tickers : \E a \in g : TickerOf[a] = t

\* What the limits, which earlier groups may have reached, leave of a group.
Sendable(g) ==
  IF TickerFull(work, TickerIn(g)) /\ g \cap Urgent = {} THEN {}
  ELSE {a \in g : ~LineFull(work, a)}

\* A confirmed message about S.  Lines without a limit are not counted.
Sent(w, S, t) ==
  [Ended(w, S, "sent") EXCEPT
     !.counts[t] = @ + 1,
     !.window[t] = WindowTicks,
     !.lines = [s \in Subjects |->
       IF LineLimit[s] > 0 THEN @[s] + Cardinality({a \in S : SubjectOf[a] = s})
       ELSE @[s]]]

Retried(w, S) ==
  [w EXCEPT !.box = [a \in Alerts |-> IF a \in S THEN [@[a] EXCEPT !.retry = RetryTicks]
                                      ELSE @[a]]]

\* One group: nothing left to send, a confirmed message, or a failed one.
SkipGroup(g) ==
  /\ tx.step = "send"
  /\ g \in Groups
  /\ Sendable(g) = {}
  /\ work' = Digested(work, g)
  /\ tx' = [tx EXCEPT !.ready = @ \ g]
  /\ UNCHANGED <<hour, mode, state, detector, flushed, ordinary, bounds>>

SendGroup(g) ==
  /\ tx.step = "send"
  /\ g \in Groups
  /\ Sendable(g) # {}
  /\ work' = Sent(Digested(work, g \ Sendable(g)), Sendable(g), TickerIn(g))
  /\ tx' = [tx EXCEPT !.ready = @ \ g, !.tried = TRUE,
                      !.groups = @ \cup {Sendable(g)}]
  /\ UNCHANGED <<hour, mode, state, detector, flushed, ordinary, bounds>>

FailGroup(g) ==
  /\ Faulty
  /\ tx.step = "send"
  /\ g \in Groups
  /\ Sendable(g) # {}
  /\ work' = Retried(Digested(work, g \ Sendable(g)), Sendable(g))
  /\ tx' = [tx EXCEPT !.ready = @ \ g, !.tried = TRUE]
  /\ UNCHANGED <<hour, mode, state, detector, flushed, ordinary, changes>>

\* Eight seconds are over; what is left waits for the next dispatch.
OutOfTime ==
  /\ tx.step = "send"
  /\ tx.tried
  /\ tx.ready # {}
  /\ tx' = [tx EXCEPT !.ready = {}]
  /\ UNCHANGED <<hour, mode, state, work, detector, flushed, ordinary, bounds>>

\* Mutant: what no summary includes goes on waiting.
CleanOffOnly ==
  /\ tx.step = "send"
  /\ tx.ready = {}
  /\ work' = Ended(work, {a \in Pending(work) : Off(a)}, "off")
  /\ tx' = [tx EXCEPT !.step = IF tx.flush THEN "summary" ELSE "commit"]
  /\ UNCHANGED <<hour, mode, state, detector, flushed, ordinary, bounds>>

\* Alerts switched off while they waited, and those for a summary that does
\* not include them, end in the log.
Clean ==
  /\ tx.step = "send"
  /\ tx.ready = {}
  /\ LET off == {a \in Pending(work) : Off(a)}
         log == {a \in Pending(work) : ForDigest(work, a)
                                         /\ RouteOf[a] \notin Summarized}
     IN  work' = Ended(Ended(work, off, "off"), log, "log")
  /\ tx' = [tx EXCEPT !.step = IF tx.flush THEN "summary" ELSE "commit"]
  /\ UNCHANGED <<hour, mode, state, detector, flushed, ordinary, bounds>>

------------------------------------------------------------------------------
\* The daily summary.

\* The entries with one cut get another.
Recut(w, old, new) ==
  [a \in Alerts |-> IF w.box[a].cut = old THEN [w.box[a] EXCEPT !.cut = new]
                    ELSE w.box[a]]

\* Today's summary begins to wait, with its date and its closing time.
Scheduled(w) ==
  IF w.slot = "open" /\ hour >= SummaryHour /\ Summarized # {}
    THEN [w EXCEPT !.slot = "waiting", !.box = Recut(w, "passed", "waiting")]
    ELSE w

Due(w) == w.slot \in {"waiting", "late"} /\ w.retry = 0 /\ Summarized # {}

Content(w) == {a \in Pending(w) : /\ RouteOf[a] \in Summarized
                                  /\ w.box[a].cut = "waiting"
                                  /\ ForDigest(w, a)}

\* The summary that waited is done; a later one may come.
Concluded(w) ==
  [w EXCEPT !.slot = IF @ = "waiting" THEN "done" ELSE "open",
            !.box  = Recut(w, "waiting", "passed")]

\* Nothing is due, or quiet hours hold it, or there is nothing to say.
NoSummary ==
  LET w == Scheduled(work) IN
  /\ tx.step = "summary"
  /\ ~Due(w) \/ Quiet(FALSE) \/ Content(w) = {}
  /\ work' = IF Due(w) /\ ~Quiet(FALSE) THEN Concluded(w) ELSE w
  /\ tx' = [tx EXCEPT !.step = "commit"]
  /\ UNCHANGED <<hour, mode, state, detector, flushed, ordinary, bounds>>

SendSummary ==
  LET w == Scheduled(work) IN
  /\ tx.step = "summary"
  /\ Due(w) /\ ~Quiet(FALSE) /\ Content(w) # {}
  /\ work' = Concluded(Ended(w, Content(w), "sent"))
  /\ tx' = [tx EXCEPT !.step = "commit", !.summary = Content(w)]
  /\ UNCHANGED <<hour, mode, state, detector, flushed, ordinary, bounds>>

FailSummary ==
  LET w == Scheduled(work) IN
  /\ Faulty
  /\ tx.step = "summary"
  /\ Due(w) /\ ~Quiet(FALSE) /\ Content(w) # {}
  /\ work' = [w EXCEPT !.retry = RetryTicks]
  /\ tx' = [tx EXCEPT !.step = "commit"]
  /\ UNCHANGED <<hour, mode, state, detector, flushed, ordinary, changes>>

------------------------------------------------------------------------------
\* The end of a dispatch, and of the monitor run.

\* An alert of several events counts as accepted with all of them: the
\* transitions of one ticker are one alert, stops and ATR are their own.
Reported ==
  {a \in tx.batch : \A b \in tx.batch :
     (b = a \/ (TickerOf[b] = TickerOf[a] /\ SubjectOf[a] # NoSubject
                                         /\ SubjectOf[b] # NoSubject))
     => b \in AcceptedBy(work)}

Close == tx' = Closed /\ work' = Blank

Ordinary(t) == {g \in tx.groups : TickerIn(g) = t /\ g \cap Urgent = {}}

Commit ==
  /\ tx.step = "commit"
  /\ state' = work
  /\ ordinary' = [t \in Tickers |-> ordinary[t] + Cardinality(Ordinary(t))]
  /\ IF tx.flush THEN UNCHANGED <<monitor, told>>
     ELSE monitor' = "save" /\ told' = Reported
  /\ Close
  /\ UNCHANGED <<hour, mode, known, flushed, bounds>>

\* Mutant: the result is returned although the commit failed.
RollbackReporting ==
  /\ Faulty
  /\ tx.step # "closed"
  /\ IF tx.flush THEN UNCHANGED <<monitor, told>>
     ELSE monitor' = "save" /\ told' = Reported
  /\ Close
  /\ UNCHANGED <<hour, mode, state, known, flushed, ordinary, changes>>

\* The commit fails, the time limit strikes or the process dies: the messages
\* are out, the state is what it was, and nothing counts as accepted.
Rollback ==
  /\ Faulty
  /\ tx.step # "closed"
  /\ monitor' = IF tx.flush THEN monitor ELSE "idle"
  /\ Close
  /\ UNCHANGED <<hour, mode, state, told, known, flushed, ordinary, changes>>

\* The monitor saves the accepted transitions as announced ...
Save ==
  /\ monitor = "save"
  /\ known' = known \cup told
  /\ told' = {}
  /\ monitor' = "idle"
  /\ UNCHANGED <<hour, mode, state, tx, work, flushed, ordinary, bounds>>

\* ... or dies before, or after the stops and ATR warnings, which it saves
\* first, and will detect and deliver the rest again.
MonitorDies ==
  /\ Faulty
  /\ monitor = "save"
  /\ \E saved \in SUBSET {a \in told : SubjectOf[a] = NoSubject} : known' = known \cup saved
  /\ told' = {}
  /\ monitor' = "idle"
  /\ UNCHANGED <<hour, mode, state, tx, work, flushed, ordinary, changes>>

------------------------------------------------------------------------------
\* Settings and time.

\* The settings of a dispatch are read when it opens.
ChangeMode(r, m) ==
  /\ changes < MaxChanges
  /\ tx.step = "closed"
  /\ m # mode[r]
  /\ mode' = [mode EXCEPT ![r] = m]
  /\ changes' = changes + 1
  /\ UNCHANGED <<hour, state, tx, work, detector, flushed, ordinary, faults>>

\* Mutant: intervals that are over go on.
LessForever(n) == n - 1

\* What is left of an interval.
Less(n) == IF n > 0 THEN n - 1 ELSE 0

\* Mutant: the counts begin again at midnight.
NewDayAtMidnight(h) == h = 0

\* A monitor day begins in the morning.
NewMonitorDay(h) == h = MonitorHour

\* An entry, and the state, as seen at the hour h that begins.
AgedBox(b, h) ==
  [b EXCEPT !.retry = Less(@),
            !.cut   = IF @ = "later" /\ b.place = "pending" /\ h = SummaryHour
                        THEN "passed" ELSE @]

Aged(w, h) ==
  [w EXCEPT
     !.box    = [a \in Alerts |-> AgedBox(w.box[a], h)],
     !.window = [t \in Tickers |-> Less(w.window[t])],
     !.today  = IF NewMonitorDay(h) THEN FALSE ELSE @,
     !.slot   = IF h # 0 THEN @
                ELSE CASE @ \in {"waiting", "late"} -> "late"
                       [] @ \in {"open", "done"}    -> "open",
     !.retry  = Less(@)]

\* The flush task runs every minute, so in every stretch of a day, unless the
\* workers are down.
Tick ==
  /\ tx.step = "closed"
  /\ \/ flushed /\ UNCHANGED faults
     \/ ~flushed /\ Faulty
  /\ hour' = (hour + 1) % DayTicks
  /\ state' = Aged(state, hour')
  /\ flushed' = FALSE
  /\ ordinary' = IF hour' = MonitorHour THEN [t \in Tickers |-> 0] ELSE ordinary
  /\ UNCHANGED <<mode, tx, work, detector, changes>>

------------------------------------------------------------------------------
DeliverSome == \E batch \in SUBSET Alerts : Deliver(batch)
AcceptSome  == \E a \in Alerts : Accept(a)
SkipSome    == \E g \in Groups : SkipGroup(g)
SendSome    == \E g \in Groups : SendGroup(g)
FailSome    == \E g \in Groups : FailGroup(g)
ChangeSome  == \E r \in Routes, m \in Modes : ChangeMode(r, m)

\* The steps every dispatch takes by itself.
Proceed == AcceptSome \/ Plan \/ SkipSome \/ SendSome \/ OutOfTime \/ Clean
             \/ NoSummary \/ SendSummary \/ Commit

Next == \/ DeliverSome \/ Flush \/ Proceed
        \/ FailSome \/ FailSummary \/ Rollback
        \/ Save \/ MonitorDies \/ ChangeSome \/ Tick

Spec == Init /\ [][Next]_vars

\* A dispatch goes on until it ends, the flush task gets its turn at the lock,
\* and time passes between dispatches.  Nothing makes the monitor find
\* anything, and faults and changes of the settings are not fair.
Fairness == WF_vars(Proceed) /\ WF_vars(Save) /\ SF_vars(Flush) /\ SF_vars(Tick)

FairSpec == Spec /\ Fairness

------------------------------------------------------------------------------
\* Properties.

Messages == (UNION tx.groups) \cup tx.summary
SameSubject(a, b) == SubjectOf[a] = SubjectOf[b] /\ SubjectOf[a] # NoSubject

\* What was reported to the detector as accepted is kept, through failed
\* commits and dying workers: "Accepted means ownership moved durably to this
\* dispatcher" (notification_delivery.py:762).
AcceptedIsKept == told \cup known \subseteq AcceptedBy(state)

\* No alert whose message was confirmed and recorded is sent again, in
\* whatever way the detector delivers it again and settings change.
NoSecondMessage == \A a \in Messages : state.box[a].place # "sent"

\* Transitions of a subject never arrive backwards: once a newer one is
\* queued or sent, no message brings an older one.
NeverBackwards ==
  \A a \in Messages, b \in Alerts :
    (b > a /\ SameSubject(a, b)) => state.box[b].place \notin {"pending", "sent"}

\* Replacing never loses the last word on a subject: the newest accepted
\* transition is never the one that was replaced.
LatestSurvives ==
  \A a \in PlacedIn(state, "replaced") :
    \E b \in AcceptedBy(state) : b > a /\ SameSubject(a, b)

\* No more ordinary messages per ticker and monitor day than allowed, counting
\* the ones that are recorded, whatever the order of dispatches and days.
LimitHolds ==
  \A t \in Tickers : TickerLimit > 0 =>
    ordinary[t] + Cardinality(Ordinary(t)) <= TickerLimit

\* Whatever was accepted ends: as a message, in a summary or in the log,
\* although messages fail, the queue fills and the worker is away for a while.
PendingEnds ==
  \A a \in Alerts :
    (state.box[a].place = "pending") ~> (state.box[a].place # "pending")

\* "Keep the latest unsent transition for one MA/assessment subject.  Otherwise
\* an old break could arrive after a newer recovery" (notification_delivery.py
\* :406): no message brings a transition when a newer one has been accepted.
NoOldTransition ==
  \A a \in Messages, b \in Alerts :
    (b > a /\ SameSubject(a, b)) => b \notin AcceptedBy(state)

\* "Alerts detected outside their window go to the summary, so that an old break
\* does not appear as a new message on the next morning" (docs/notifications.md
\* :65-67): an alert once seen waiting outside its session is never sent as news.
NoStaleNews ==
  \A a \in SessionBound :
    [](state.box[a].place = "pending" /\ OutOfSession(a)
         => [](a \notin UNION tx.groups))
=============================================================================
