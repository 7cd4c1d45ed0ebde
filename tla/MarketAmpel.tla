---------------------------- MODULE MarketAmpel ----------------------------
(***************************************************************************)
(* The market light (backend/app/domain/market/ampel.py): a state machine   *)
(* over the daily bars of an index, in the logic "current" or in the one    *)
(* close to IBD.  A bar is its low and its close, on a small scale of       *)
(* prices, and what the code concludes from the other columns (averages,    *)
(* volume, distribution days, market structure) is a free choice: the       *)
(* properties are about the floor of a rally attempt and the low of its     *)
(* start day, which decide with lows and closes alone.                      *)
(*                                                                          *)
(* Days are counted since the anchor and the start day, up to the largest   *)
(* number the code asks for.                                                *)
(***************************************************************************)
EXTENDS Integers

CONSTANTS Top,           \* bound: prices are 1 .. Top
          Offset,        \* logic -> sessions from the anchor to the first possible start
          ConfirmDays    \* GREEN_CONFIRMATION_DAYS

Logics == {"current", "ibd"}

ASSUME AmpelAssumption ==
  /\ Top \in Nat \ {0}
  /\ Offset \in [Logics -> Nat \ {0}]
  /\ ConfirmDays \in Nat \ {0}

VARIABLES
  logic,        \* which of the two
  light,        \* the state of the machine
  before,       \* yesterday's low
  lowest,       \* history: the lowest low since the anchor day, Top + 1 without an anchor
  closedBelow   \* history: a close since the start day was below its low

ampelVars == <<logic, light, before, lowest, closedBelow>>

NoDay == -1
Bars == 1 .. Top
AnchorCap == IF Offset["ibd"] > Offset["current"] THEN Offset["ibd"] ELSE Offset["current"]

Rally  == {"gelb_startschuss", "gruen", "gelb_rally_unter_druck"}
Trend  == {"aufwaertstrend", "gelb_trend_unter_druck"}
Phases == {"neutral", "rot"} \cup Rally \cup Trend

\* clear_state, in the phase given.
Clear(phase) == [phase |-> phase, anchor |-> NoDay, floor |-> 0, start |-> NoDay, startLow |-> 0,
                 negated |-> FALSE, demand |-> FALSE, above |-> 0, pressed |-> 0]

AmpelInit ==
  /\ logic \in Logics
  /\ light = Clear("neutral")
  /\ before \in Bars
  /\ lowest = Top + 1 /\ closedBelow = FALSE

-----------------------------------------------------------------------------
(* Parts of a day.                                                           *)

Count(n, cap) == IF n < cap THEN n + 1 ELSE n
Days(n, cap)  == IF n = NoDay THEN n ELSE Count(n, cap)
Lower(m, n)   == IF m < n THEN m ELSE n

\* The state at the beginning of a day.
Today == [light EXCEPT !.anchor = Days(@, AnchorCap), !.start = Days(@, ConfirmDays)]

\* The day ends in state l.  A row that is not complete has a synthetic low and close,
\* which the logic close to IBD does not use.
Becomes(l, low, close, complete) ==
  LET first == IF logic = "ibd" THEN low ELSE Lower(low, before) IN
  /\ light' = l
  /\ before' = low
  /\ lowest' = IF l.anchor = NoDay THEN Top + 1
               ELSE IF l.anchor = 0 THEN first
               ELSE IF complete THEN Lower(lowest, low) ELSE lowest
  /\ closedBelow' = (l.start > 0 /\ (closedBelow \/ (complete /\ close < l.startLow)))
  /\ UNCHANGED logic

\* A start day (FTD) on a light with an anchor.
Started(l, low) ==
  [l EXCEPT !.phase = "gelb_startschuss", !.start = 0, !.startLow = low,
            !.demand = FALSE, !.above = 0, !.negated = FALSE]

CanStart(l, low, strong) ==
  l.anchor >= Offset[logic] /\ strong /\ low >= l.floor

\* startschuss_low_broken, rally_day_one_low_broken
StartBroken(close) == close < light.startLow /\ ~ (logic = "ibd" /\ light.negated)
FloorBroken(low)   == low < light.floor

Negated(l, phase) == [l EXCEPT !.phase = phase, !.negated = TRUE]

-----------------------------------------------------------------------------
(* A day in each phase.                                                      *)

\* An incomplete row keeps the phase and breaks the counts.
IncompleteDay(low, close) ==
  /\ logic = "ibd"
  /\ Becomes([Today EXCEPT !.above = 0, !.pressed = 0], low, close, FALSE)

NeutralDay(low, close, correction) ==
  /\ light.phase = "neutral"
  /\ Becomes(IF correction THEN Clear("rot") ELSE Today, low, close, TRUE)

\* Mutant: a lower low does not end the rally attempt.
RestartedNever(l, low) == l

\* A low under the floor ends the rally attempt.
Restarted(l, low) ==
  IF l.anchor # NoDay /\ low < l.floor THEN Clear("rot") ELSE l

\* rot: an up day, or one that closes in the upper half of its range, is the anchor
\* (day one); a strong day (up a percent on more volume) late enough starts.
RedDay(low, close, up, strong) ==
  LET l == Restarted(Today, low)
      anchored == IF l.anchor = NoDay /\ up
                  THEN [l EXCEPT !.anchor = 0,
                                 !.floor = IF logic = "ibd" THEN low ELSE Lower(low, before)]
                  ELSE l
  IN /\ light.phase = "rot"
     /\ strong => up
     /\ Becomes(IF CanStart(anchored, low, strong) THEN Started(anchored, low) ELSE anchored,
                low, close, TRUE)

\* early_rally_hard_red; "other" are its reasons besides the floor.
HardRedInRally(low, other) == logic = "ibd" /\ (FloorBroken(low) \/ other)

\* gelb_rally_unter_druck: only a new start day leads out of it.
PressedRallyDay(low, close, other, strong) ==
  /\ light.phase = "gelb_rally_unter_druck"
  /\ Becomes(IF HardRedInRally(low, other) THEN Clear("rot")
             ELSE IF CanStart(Today, low, strong) THEN Started(Today, low) ELSE Today,
             low, close, TRUE)

\* The end of a start by its low: red, or negated while the floor holds.
EndOfStart == IF logic = "ibd"
              THEN [Negated(Today, "gelb_rally_unter_druck") EXCEPT !.demand = FALSE, !.above = 0]
              ELSE Clear("rot")

\* gelb_startschuss: green after the confirmation days, by a further strong day or by
\* three closes above the 21-EMA.
StartDay(low, close, other, strong, above) ==
  LET counted == [Today EXCEPT !.above = IF above THEN Count(@, 3) ELSE 0,
                               !.demand = @ \/ strong]
      green == counted.start >= ConfirmDays /\ (counted.demand \/ counted.above >= 3)
  IN /\ light.phase = "gelb_startschuss"
     /\ Becomes(IF HardRedInRally(low, other) THEN Clear("rot")
                ELSE IF StartBroken(close) THEN EndOfStart
                ELSE IF green THEN [counted EXCEPT !.phase = "gruen"] ELSE counted,
                low, close, TRUE)

GreenDay(low, close, other, confirmed) ==
  /\ light.phase = "gruen"
  /\ Becomes(IF HardRedInRally(low, other) THEN Clear("rot")
             ELSE IF StartBroken(close) THEN EndOfStart
             ELSE IF confirmed THEN [Today EXCEPT !.phase = "aufwaertstrend"] ELSE Today,
             low, close, TRUE)

\* Mutant: a trend does not look at the floor any more.
HardRedInTrendLate(low, close, other) == other \/ (logic = "current" /\ StartBroken(close))

\* uptrend_hard_red; "other" are its reasons besides floor and start low.
HardRedInTrend(low, close, other) ==
  other \/ IF logic = "ibd" THEN FloorBroken(low) ELSE StartBroken(close)

\* Mutant: a trend that comes under pressure for another reason forgets to negate.
PressuredBefore(close, pressure) ==
  IF pressure THEN [Today EXCEPT !.phase = "gelb_trend_unter_druck", !.pressed = 0]
  ELSE IF logic = "ibd" /\ StartBroken(close)
  THEN [Negated(Today, "gelb_trend_unter_druck") EXCEPT !.pressed = 0] ELSE Today

\* Without a hard reason a trend may come under pressure, by a negated start or by
\* one of uptrend_pressure_reason.
Pressured(close, pressure) ==
  IF logic = "ibd" /\ StartBroken(close)
  THEN [Negated(Today, "gelb_trend_unter_druck") EXCEPT !.pressed = 0]
  ELSE IF pressure THEN [Today EXCEPT !.phase = "gelb_trend_unter_druck", !.pressed = 0]
  ELSE Today

TrendDay(low, close, other, pressure) ==
  /\ light.phase = "aufwaertstrend"
  /\ Becomes(IF HardRedInTrend(low, close, other) THEN Clear("rot") ELSE Pressured(close, pressure),
             low, close, TRUE)

\* gelb_trend_unter_druck: two closes above the 21-EMA and a qualified recovery lead
\* back, to the trend or (structure not up) to green.
PressedTrendDay(low, close, other, above, recovered, structureUp) ==
  LET counted == [Today EXCEPT !.pressed = IF above THEN Count(@, 2) ELSE 0]
      l == IF logic = "ibd" /\ StartBroken(close) THEN Negated(counted, light.phase) ELSE counted
  IN /\ light.phase = "gelb_trend_unter_druck"
     /\ Becomes(IF HardRedInTrend(low, close, other) THEN Clear("rot")
                ELSE IF l.pressed >= 2 /\ recovered
                     THEN [l EXCEPT !.phase = IF structureUp THEN "aufwaertstrend" ELSE "gruen"]
                ELSE l,
                low, close, TRUE)

-----------------------------------------------------------------------------
AmpelNext ==
  \E low, close \in Bars :
    /\ low <= close
    /\ \/ IncompleteDay(low, close)
       \/ \E correction \in BOOLEAN : NeutralDay(low, close, correction)
       \/ \E up, strong \in BOOLEAN : RedDay(low, close, up, strong)
       \/ \E other, strong \in BOOLEAN : PressedRallyDay(low, close, other, strong)
       \/ \E other, strong, above \in BOOLEAN : StartDay(low, close, other, strong, above)
       \/ \E other, confirmed \in BOOLEAN : GreenDay(low, close, other, confirmed)
       \/ \E other, pressure \in BOOLEAN : TrendDay(low, close, other, pressure)
       \/ \E other, above, recovered, structureUp \in BOOLEAN :
            PressedTrendDay(low, close, other, above, recovered, structureUp)

AmpelSpec == AmpelInit /\ [][AmpelNext]_ampelVars

-----------------------------------------------------------------------------
AmpelTypeOK ==
  /\ logic \in Logics
  /\ light \in [phase : Phases, anchor : {NoDay} \cup 0 .. AnchorCap, floor : 0 .. Top,
                start : {NoDay} \cup 0 .. ConfirmDays, startLow : 0 .. Top, negated : BOOLEAN,
                demand : BOOLEAN, above : 0 .. 3, pressed : 0 .. 2]
  /\ before \in Bars
  /\ lowest \in 1 .. Top + 1
  /\ closedBelow \in BOOLEAN

\* A start day is earned: enough sessions lie between it and the anchor of this rally
\* attempt, and no low since the anchor was under the floor, however often earlier
\* attempts of the correction began and failed.
StartIsEarned ==
  [][ light.phase # "gelb_startschuss" /\ light'.phase = "gelb_startschuss"
      => light'.anchor >= Offset[logic] /\ lowest' >= light'.floor ]_ampelVars

\* Close to IBD a rally and the trend it becomes live only above their floor: after any
\* series of pressure, negation, recovery and incomplete days no complete low since the
\* anchor was under it.
FloorHolds ==
  logic = "ibd" /\ light.phase \in Rally \cup Trend
  => light.anchor # NoDay /\ lowest >= light.floor

\* The published flag FTD_Negated tells the history of the start: in every phase after
\* a start it is set exactly if some close since then was below the start day's low,
\* and in the logic "current" no such phase outlives that close.
NegationIsHistory ==
  light.phase \in Rally \cup Trend
  => /\ light.negated <=> (logic = "ibd" /\ closedBelow)
     /\ logic = "current" => ~ closedBelow
=============================================================================
