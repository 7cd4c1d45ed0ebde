----------------------------- MODULE StopAlerts -----------------------------
(***************************************************************************)
(* The stop alert of one position (backend/app/services/stop_alerts.py): a  *)
(* latch that is saved between the cycles of the monitor.  A crossing of    *)
(* the stop is announced once; the latch is opened again by a sustained     *)
(* recovery, by the day or an interval, by a moved stop or by hand.         *)
(*                                                                          *)
(* A cycle holds an advisory lock on the position and one transaction for   *)
(* the latch, but the dispatcher commits what it accepts in a transaction   *)
(* of its own before the latch is saved.  Other positions of the cycle have *)
(* latches of their own and are left out.                                   *)
(*                                                                          *)
(* Times are kept as ages in ticks, up to the largest one that matters.     *)
(***************************************************************************)
EXTENDS Integers

CONSTANTS
  Stops, NoStop,  \* levels of the stop
  Gap,            \* ticks two observations of a recovery may be apart (2 minutes)
  Fresh,          \* ticks a quote is usable (20 minutes)
  Recovery,       \* ticks a recovery must last (recovery_minutes)
  Retry,          \* ticks between attempts to announce (RETRY_DELAY)
  MaxFailures,      \* bound: cycles that fail
  MaxChanges      \* bound: moved stops and manual rearms

ASSUME StopAssumption ==
  /\ NoStop \notin Stops
  /\ {Gap, Fresh, Recovery, Retry, MaxFailures, MaxChanges} \subseteq Nat
  /\ Gap <= Fresh

Absent == -1      \* no recovery_since
Void   == -2      \* recovery_since is there and null, as a manual rearm leaves it
SinceCap == Recovery + Gap

VARIABLES
  policy,   \* "recovery", or "period" (daily or interval): when the latch opens
  stop,     \* the stop of the position
  saved,    \* the saved latch
  cycle,    \* the cycle of the monitor that holds the lock
  lastId,   \* the alert of this position the dispatcher accepted last
  faults, changes,
  below,    \* history: the last observation was a fresh price at or below the stop
  told,     \* history: alerts accepted since the latch was open
  lost,     \* history: cycles since then that failed after their alert was accepted
  asked     \* history: rearmed by hand, and no alert recorded since

stopVars == <<policy, stop, saved, cycle, lastId, faults, changes, below, told, lost, asked>>

Prices  == {"none", "below", "between", "above"}  \* "above": beyond the recovery threshold
Latches == [stop : Stops \cup {NoStop}, latched : BOOLEAN, gen : Nat,
            since : {Absent, Void} \cup 0 .. SinceCap,  \* age of recovery_since
            seen : 0 .. Gap + 1,                        \* age of last_seen_at
            retry : 0 .. Retry,                         \* ticks until retry_at
            elapsed : BOOLEAN,                          \* the period after last_sent_at is over
            calm : 0 .. Recovery]  \* history: ticks since what was recorded last against a recovery
Unlatched(s, gen) == [stop |-> s, latched |-> FALSE, gen |-> gen, since |-> Absent, seen |-> Gap + 1,
                      retry |-> 0, elapsed |-> FALSE, calm |-> 0]

NoCycle == [pc |-> "idle", latch |-> Unlatched(NoStop, 0), quote |-> 0, rearmed |-> FALSE,
            answer |-> "none", repeated |-> FALSE]

StopInit ==
  /\ policy \in {"recovery", "period"}
  /\ stop \in Stops
  /\ saved = Unlatched(NoStop, 0)
  /\ cycle = NoCycle
  /\ lastId = [gen |-> 0, quote |-> Fresh + 1]
  /\ faults = 0 /\ changes = 0
  /\ below = FALSE /\ told = 0 /\ lost = 0 /\ asked = FALSE

-----------------------------------------------------------------------------
(* stop_transition: what an observation of a price with a quote of age q does *)
(* to a latch.                                                                *)

\* A moved stop starts over with a generation of its own.
AtStop(latch) == IF latch.stop = stop THEN latch ELSE Unlatched(stop, latch.gen + 1)

Recovering(price, q) == price = "above" /\ q <= Gap

\* Mutant: a gap between the observations does not break the recovery.
SinceAcrossGaps(latch, price, q) ==
  IF ~ Recovering(price, q) THEN Absent
  ELSE IF latch.since = Absent THEN q ELSE latch.since

\* recovery_since after the observation.
Since(latch, price, q) ==
  IF ~ Recovering(price, q) THEN Absent
  ELSE IF latch.seen > Gap \/ latch.since = Absent THEN q ELSE latch.since

Recovered(latch, price, q) ==
  /\ policy = "recovery" /\ Recovering(price, q)
  /\ Since(latch, price, q) # Void
  /\ Since(latch, price, q) - q >= Recovery

Observed(latch, price, q) ==
  LET back == Recovered(latch, price, q)
      over == policy = "period" /\ latch.elapsed
  IN [latch EXCEPT
       !.latched = @ /\ ~ back /\ ~ over,
       !.since = Since(latch, price, q),
       !.seen = 0,
       !.retry = IF back THEN 0 ELSE @,
       !.calm = IF Recovering(price, q) /\ latch.seen <= Gap THEN @ ELSE 0]

\* An alert is due: not above the stop, not latched, no attempt a moment ago.
Due(latch, price) == price = "below" /\ ~ latch.latched /\ latch.retry = 0

-----------------------------------------------------------------------------
(* The cycle of the monitor (deliver_stop_alerts).                           *)

\* The lock is free; the latch is read, the observation applied to a copy of it.
Check(price, q) ==
  LET usable == price # "none" /\ q <= Fresh
      latch == IF price = "none" THEN saved
               ELSE IF q > Fresh THEN [saved EXCEPT !.since = Absent, !.calm = 0]
               ELSE Observed(AtStop(saved), price, q)
      alert == usable /\ Due(latch, price)
  IN /\ cycle.pc = "idle"
     /\ cycle' = [pc |-> IF alert THEN "dispatch" ELSE "save",
                  latch |-> IF alert THEN [latch EXCEPT !.retry = Retry] ELSE latch,
                  quote |-> IF alert THEN q ELSE 0,
                  rearmed |-> usable /\ (saved.stop # stop \/ (saved.latched /\ ~ latch.latched)),
                  answer |-> "none",
                  repeated |-> alert /\ lastId = [gen |-> latch.gen, quote |-> q]]
     /\ below' = (usable /\ price = "below")
     /\ UNCHANGED <<policy, stop, saved, lastId, faults, changes, told, lost, asked>>

\* The dispatcher commits its answer: the alert is sent, or queued, or refused.  It
\* knows an alert by the generation and the quote and accepts it only once.
Dispatch(answer) ==
  LET accepted == answer # "refused"
  IN /\ cycle.pc = "dispatch"
     /\ cycle' = [cycle EXCEPT !.pc = "save", !.answer = answer, !.quote = 0, !.repeated = FALSE]
     /\ lastId' = IF accepted THEN [gen |-> cycle.latch.gen, quote |-> cycle.quote] ELSE lastId
     /\ told' = IF ~ accepted THEN told
                ELSE IF cycle.rearmed THEN 1
                ELSE IF cycle.repeated /\ told > 0 THEN told ELSE told + 1
     /\ lost' = IF accepted /\ cycle.rearmed THEN 0 ELSE lost
     /\ UNCHANGED <<policy, stop, saved, faults, changes, below, asked>>

\* Mutant: only what was sent at once closes the latch, not what was queued.
ClosedBySending(latch, answer) ==
  IF answer = "sent" THEN [latch EXCEPT !.latched = TRUE, !.retry = 0, !.elapsed = FALSE] ELSE latch

\* Mutant: the attempt closes the latch.
ClosedAnyway(latch, answer) ==
  IF answer # "none" THEN [latch EXCEPT !.latched = TRUE, !.retry = 0, !.elapsed = FALSE] ELSE latch

\* An accepted alert closes the latch.
Closed(latch, answer) ==
  IF answer \in {"sent", "queued"}
  THEN [latch EXCEPT !.latched = TRUE, !.retry = 0, !.elapsed = FALSE] ELSE latch

\* The latch is saved.
Save ==
  LET accepted == cycle.answer \in {"sent", "queued"} IN
  /\ cycle.pc = "save"
  /\ saved' = Closed(cycle.latch, cycle.answer)
  /\ told' = IF cycle.rearmed /\ ~ accepted THEN 0 ELSE told
  /\ lost' = IF cycle.rearmed /\ ~ accepted THEN 0 ELSE lost
  /\ asked' = (asked /\ ~ accepted)
  /\ cycle' = NoCycle
  /\ UNCHANGED <<policy, stop, lastId, faults, changes, below>>

\* The transaction of the latch fails, or the monitor dies: nothing is saved.
FailCycle ==
  /\ cycle.pc # "idle"
  /\ faults < MaxFailures /\ faults' = faults + 1
  /\ lost' = IF cycle.answer \in {"sent", "queued"} THEN lost + 1 ELSE lost
  /\ cycle' = NoCycle
  /\ UNCHANGED <<policy, stop, saved, lastId, changes, below, told, asked>>

-----------------------------------------------------------------------------
(* The user and the clock.                                                   *)

Change == changes < MaxChanges /\ changes' = changes + 1

MoveStop ==
  /\ Change
  /\ \E s \in Stops \ {stop} : stop' = s
  /\ UNCHANGED <<policy, saved, cycle, lastId, faults, below, told, lost, asked>>

Rearmed == [saved EXCEPT !.latched = FALSE, !.retry = 0, !.since = Void, !.gen = @ + 1]

\* Mutant: the rearm does not wait for a cycle that has read the latch.
RearmUnlocked ==
  /\ saved.stop # NoStop
  /\ Change
  /\ saved' = Rearmed
  /\ told' = 0 /\ lost' = 0 /\ asked' = TRUE
  /\ UNCHANGED <<policy, stop, cycle, lastId, faults, below>>

\* rearm_stop_alerts: under the lock of the position.
Rearm ==
  /\ cycle.pc = "idle" /\ saved.stop # NoStop
  /\ Change
  /\ saved' = Rearmed
  /\ told' = 0 /\ lost' = 0 /\ asked' = TRUE
  /\ UNCHANGED <<policy, stop, cycle, lastId, faults, below>>

Up(n, cap) == IF n < cap THEN n + 1 ELSE n
Aged(latch, over) ==
  [latch EXCEPT !.since = IF @ < 0 THEN @ ELSE Up(@, SinceCap), !.seen = Up(@, Gap + 1),
                !.retry = IF @ > 0 THEN @ - 1 ELSE 0, !.elapsed = @ \/ (over /\ policy = "period" /\ latch.latched),
                !.calm = Up(@, Recovery)]

\* Time passes, and the monitor day or the interval after the last alert may be over.
Pass(over) ==
  /\ saved' = Aged(saved, over)
  /\ cycle' = IF cycle.pc = "idle" THEN cycle
              ELSE [cycle EXCEPT !.latch = Aged(@, over), !.quote = IF cycle.pc = "dispatch" THEN Up(@, Fresh + 1) ELSE 0]
  /\ lastId' = [lastId EXCEPT !.quote = Up(@, Fresh + 1)]
  /\ UNCHANGED <<policy, stop, faults, changes, below, told, lost, asked>>

-----------------------------------------------------------------------------
Observe == \E price \in Prices, q \in 0 .. Fresh + 1 : Check(price, q)
StopNext ==
  \/ Observe
  \/ \E answer \in {"sent", "queued", "refused"} : Dispatch(answer)
  \/ Save \/ FailCycle
  \/ MoveStop \/ Rearm
  \/ \E over \in BOOLEAN : Pass(over)

StopSpec == StopInit /\ [][StopNext]_stopVars

\* The monitor goes on for ever, cycle after cycle, time passes, and the dispatcher does
\* not refuse for ever: it refuses while its queue is full, and while Pushover is
\* switched off or has no credentials, which is the user's to end.
Accept == Dispatch("sent") \/ Dispatch("queued")
MonitorStep == Observe \/ Accept \/ Dispatch("refused") \/ Save
StopFairness ==
  WF_stopVars(MonitorStep) /\ SF_stopVars(Accept) /\ WF_stopVars(\E over \in BOOLEAN : Pass(over))

-----------------------------------------------------------------------------
StopTypeOK ==
  /\ policy \in {"recovery", "period"}
  /\ stop \in Stops
  /\ saved \in Latches
  /\ cycle \in [pc : {"idle", "dispatch", "save"}, latch : Latches, quote : 0 .. Fresh + 1,
                rearmed : BOOLEAN, answer : {"none", "sent", "queued", "refused"}, repeated : BOOLEAN]
  /\ lastId \in [gen : Nat, quote : 0 .. Fresh + 1]
  /\ faults \in 0 .. MaxFailures /\ changes \in 0 .. MaxChanges
  /\ below \in BOOLEAN /\ told \in Nat /\ lost \in Nat /\ asked \in BOOLEAN

\* A latch opened by recovery has seen one: for the whole recovery time, up to the age
\* a quote may have, every recorded observation was a fresh quote beyond the threshold
\* and no two were further apart than allowed.  Missing, stale or repeated quotes and
\* failed cycles never add up to a recovery.
RecoveryIsReal ==
  cycle.pc # "idle" /\ policy = "recovery" /\ saved.latched /\ ~ cycle.latch.latched
    /\ saved.stop = cycle.latch.stop
  => cycle.latch.calm + Gap >= Recovery

\* A crossing is announced by one message until the latch opens again; every further
\* one comes from a cycle that failed between the dispatcher's commit and its own.
OneMessagePerCrossing == told <= 1 + lost

\* A manual rearm stands until the next alert is recorded: no cycle that was under way
\* writes the closed latch back, and a recovery never waits on what it left (Void).
RearmStands ==
  /\ asked => ~ saved.latched
  /\ saved.latched => saved.since # Void

\* While every observation is a fresh price at or below the stop, an alert has been
\* accepted since the latch was last open, again and again.
CrossingIsAnnounced == <>[]below => []<>(told > 0)
=============================================================================
