------------------------- MODULE MarketAmpel_proofs -------------------------
(***************************************************************************)
(* Proofs about the market light.  Every day ends in Becomes, so one lemma  *)
(* says which next states keep the invariant (BecomesSound), and others that *)
(* the parts the days are made of are such states: a cleared light, a new    *)
(* start day, and a rally or trend that goes on (Going).                     *)
(***************************************************************************)
EXTENDS MarketAmpel, TLAPS

Lights == [phase : Phases, anchor : {NoDay} \cup 0 .. AnchorCap, floor : 0 .. Top,
           start : {NoDay} \cup 0 .. ConfirmDays, startLow : 0 .. Top, negated : BOOLEAN,
           demand : BOOLEAN, above : 0 .. 3, pressed : 0 .. 2]
Living == Rally \cup Trend

\* What holds of the light by itself: a floor under every anchor, an anchor and a start
\* day exactly where a start has been, a rally under pressure only after a negation.
Shaped(l) ==
  /\ l.anchor # NoDay => l.floor \in Bars
  /\ l.phase \in Living => l.anchor # NoDay /\ l.start # NoDay
  /\ l.phase \notin Living => l.start = NoDay
  /\ l.phase = "neutral" => l.anchor = NoDay
  /\ l.phase = "gelb_rally_unter_druck" => logic = "ibd" /\ l.negated = TRUE

\* The floor holds where a low under it would have ended the attempt.
Floored(l, lows) == l.anchor # NoDay /\ (logic = "ibd" \/ l.phase = "rot") => lows >= l.floor

Told(l, closed) ==
  l.phase \in Living =>
    /\ (l.negated = TRUE) <=> (logic = "ibd" /\ closed = TRUE)
    /\ logic = "current" => closed = FALSE

AmpelInv == AmpelTypeOK /\ Shaped(light) /\ Floored(light, lowest) /\ Told(light, closedBelow)

\* The step of StartIsEarned.
Earned == light.phase # "gelb_startschuss" /\ light'.phase = "gelb_startschuss"
          => light'.anchor >= Offset[logic] /\ lowest' >= light'.floor

\* The history after a day that ends in l.
LowestAfter(l, low, complete) ==
  IF l.anchor = NoDay THEN Top + 1
  ELSE IF l.anchor = 0 THEN IF logic = "ibd" THEN low ELSE Lower(low, before)
  ELSE IF complete THEN Lower(lowest, low) ELSE lowest
ClosedAfter(l, close, complete) == l.start > 0 /\ (closedBelow \/ (complete /\ close < l.startLow))

Sound(l, low, close, complete) ==
  /\ l \in Lights
  /\ Shaped(l)
  /\ Floored(l, LowestAfter(l, low, complete))
  /\ Told(l, ClosedAfter(l, close, complete))

\* The type of the light is Lights, and the caps are numbers.
LEMMA TypeParts ==
  /\ AmpelTypeOK <=> /\ logic \in Logics /\ light \in Lights /\ before \in Bars
                     /\ lowest \in 1 .. Top + 1 /\ closedBelow \in BOOLEAN
  /\ AnchorCap \in Nat \ {0} /\ ConfirmDays \in Nat \ {0} /\ Top \in Nat \ {0}
  /\ Offset["ibd"] \in Nat \ {0} /\ Offset["current"] \in Nat \ {0}
  /\ Offset["ibd"] <= AnchorCap /\ Offset["current"] <= AnchorCap
<1>1. Offset["ibd"] \in Nat \ {0} /\ Offset["current"] \in Nat \ {0}
  BY AmpelAssumption DEF AmpelAssumption, Logics
<1> QED BY <1>1, AmpelAssumption DEF AmpelTypeOK, Lights, AmpelAssumption, AnchorCap, Logics

\* A day that ends in a sound state keeps the invariant.
LEMMA BecomesSound ==
  ASSUME AmpelInv, NEW l, NEW low \in Bars, NEW close \in Bars, NEW complete \in BOOLEAN,
         Sound(l, low, close, complete), Becomes(l, low, close, complete)
  PROVE  /\ AmpelInv'
         /\ light' = l /\ lowest' = LowestAfter(l, low, complete) /\ logic' = logic
<1>1. /\ light' = l /\ before' = low /\ logic' = logic
      /\ lowest' = LowestAfter(l, low, complete)
      /\ closedBelow' = ClosedAfter(l, close, complete)
  BY DEF Becomes, LowestAfter, ClosedAfter
<1>2. AmpelTypeOK'
  <2>1. lowest' \in 1 .. Top + 1
    <3>1. lowest \in 1 .. Top + 1 /\ before \in 1 .. Top /\ low \in 1 .. Top /\ Top \in Nat
      BY TypeParts DEF AmpelInv, Bars
    <3>2. Lower(lowest, low) \in 1 .. Top + 1 /\ Lower(low, before) \in 1 .. Top + 1
      BY <3>1 DEF Lower
    <3> QED BY <1>1, <3>1, <3>2 DEF LowestAfter
  <2>2. closedBelow' \in BOOLEAN
    BY <1>1 DEF ClosedAfter
  <2> QED BY <1>1, <2>1, <2>2, TypeParts DEF Sound, AmpelInv, AmpelTypeOK, Lights
<1>3. Shaped(light)'
  BY <1>1 DEF Sound, Shaped
<1>4. Floored(light, lowest)'
  BY <1>1 DEF Sound, Floored
<1>5. Told(light, closedBelow)'
  BY <1>1 DEF Sound, Told
<1> QED BY <1>1, <1>2, <1>3, <1>4, <1>5 DEF AmpelInv

\* A cleared light is sound.
LEMMA ClearSound ==
  ASSUME NEW low \in Bars, NEW close \in Bars, NEW complete \in BOOLEAN
  PROVE  Sound(Clear("rot"), low, close, complete)
<1>1. Clear("rot") \in Lights
  BY TypeParts DEF Clear, Lights, Phases, NoDay
<1> QED BY <1>1 DEF Sound, Shaped, Floored, Told, Clear, Living, Rally, Trend, NoDay

\* A day that clears the light keeps the invariant and is no start day.
LEMMA ClearedEarned ==
  ASSUME AmpelInv, NEW low \in Bars, NEW close \in Bars, Becomes(Clear("rot"), low, close, TRUE)
  PROVE  AmpelInv' /\ Earned
<1>1. Clear("rot").phase = "rot"
  BY DEF Clear
<1>2. Sound(Clear("rot"), low, close, TRUE)
  BY ClearSound
<1> QED BY <1>1, <1>2, BecomesSound DEF Earned

\* The light at the beginning of a day: one day more since anchor and start.
LEMMA TodayParts ==
  ASSUME AmpelInv
  PROVE  /\ Today \in Lights
         /\ Today.phase = light.phase /\ Today.floor = light.floor
         /\ Today.startLow = light.startLow /\ Today.negated = light.negated
         /\ light.anchor = NoDay => Today.anchor = NoDay
         /\ light.anchor # NoDay => Today.anchor >= 1
         /\ light.start = NoDay => Today.start = NoDay
         /\ light.start # NoDay => Today.start >= 1
<1>1. light \in Lights
  BY TypeParts DEF AmpelInv
<1>2. \A cap \in Nat \ {0} : \A n \in {NoDay} \cup 0 .. cap :
        /\ Days(n, cap) \in {NoDay} \cup 0 .. cap
        /\ n = NoDay => Days(n, cap) = NoDay
        /\ n # NoDay => Days(n, cap) >= 1
  BY DEF Days, Count, NoDay
<1>3. /\ Days(light.anchor, AnchorCap) \in {NoDay} \cup 0 .. AnchorCap
      /\ Days(light.start, ConfirmDays) \in {NoDay} \cup 0 .. ConfirmDays
  BY <1>1, <1>2, TypeParts DEF Lights
<1>4. Today = [light EXCEPT !.anchor = Days(light.anchor, AnchorCap),
                            !.start = Days(light.start, ConfirmDays)]
  BY DEF Today
<1>5. Today \in Lights
  BY <1>1, <1>3, <1>4 DEF Lights
<1>6. /\ Today.anchor = Days(light.anchor, AnchorCap) /\ Today.start = Days(light.start, ConfirmDays)
      /\ Today.phase = light.phase /\ Today.floor = light.floor
      /\ Today.startLow = light.startLow /\ Today.negated = light.negated
  BY <1>1, <1>4 DEF Lights
<1>7. /\ light.anchor \in {NoDay} \cup 0 .. AnchorCap /\ light.start \in {NoDay} \cup 0 .. ConfirmDays
      /\ AnchorCap \in Nat \ {0} /\ ConfirmDays \in Nat \ {0}
  BY <1>1, TypeParts DEF Lights
<1>8. /\ light.anchor = NoDay => Today.anchor = NoDay
      /\ light.anchor # NoDay => Today.anchor >= 1
  BY <1>2, <1>6, <1>7
<1>9. /\ light.start = NoDay => Today.start = NoDay
      /\ light.start # NoDay => Today.start >= 1
  BY <1>2, <1>6, <1>7
<1> QED BY <1>5, <1>6, <1>8, <1>9

\* A start day is sound: enough sessions after an anchor whose floor held.
LEMMA StartedSound ==
  ASSUME AmpelInv, NEW l \in Lights, NEW low \in Bars, NEW close \in Bars, NEW strong,
         CanStart(l, low, strong), l.floor \in Bars, lowest >= l.floor
  PROVE  /\ Sound(Started(l, low), low, close, TRUE)
         /\ LowestAfter(Started(l, low), low, TRUE) >= Started(l, low).floor
         /\ Started(l, low).anchor >= Offset[logic]
<1> DEFINE s == Started(l, low)
<1>1. /\ logic \in Logics /\ lowest \in Nat /\ low \in 1 .. Top /\ Top \in Nat /\ l.floor \in Nat
      /\ Offset[logic] >= 1 /\ Offset[logic] \in Nat
  BY TypeParts DEF AmpelInv, Logics, Bars
<1>2. s \in Lights
  <2>1. /\ "gelb_startschuss" \in Phases /\ 0 \in {NoDay} \cup 0 .. ConfirmDays
        /\ low \in 0 .. Top /\ FALSE \in BOOLEAN /\ 0 \in 0 .. 3
    BY <1>1, TypeParts DEF Phases, Rally
  <2> QED BY <2>1 DEF Started, Lights
<1>3. /\ s.phase = "gelb_startschuss" /\ s.start = 0 /\ s.anchor = l.anchor /\ s.floor = l.floor
      /\ s.negated = FALSE
  BY DEF Started, Lights
<1>4. l.anchor >= Offset[logic] /\ low >= l.floor /\ l.anchor \in Int
  BY TypeParts DEF CanStart, Lights, NoDay
<1>5. s.anchor # NoDay /\ s.anchor # 0 /\ s.start # NoDay
  BY <1>1, <1>3, <1>4 DEF NoDay
<1>6. Shaped(s)
  BY <1>3, <1>5 DEF Shaped, Living, Rally, Trend
<1>7. LowestAfter(s, low, TRUE) >= s.floor
  BY <1>1, <1>3, <1>4, <1>5 DEF LowestAfter, Lower
<1>8. ClosedAfter(s, close, TRUE) = FALSE
  BY <1>3 DEF ClosedAfter
<1>9. Told(s, ClosedAfter(s, close, TRUE))
  BY <1>3, <1>8 DEF Told
<1> QED BY <1>2, <1>3, <1>4, <1>6, <1>7, <1>9 DEF Sound, Floored

\* A start day keeps the invariant and is earned.
LEMMA StartedEarned ==
  ASSUME AmpelInv, NEW l \in Lights, NEW low \in Bars, NEW close \in Bars, NEW strong,
         CanStart(l, low, strong), l.floor \in Bars, lowest >= l.floor,
         Becomes(Started(l, low), low, close, TRUE)
  PROVE  AmpelInv' /\ Earned
<1>1. /\ Sound(Started(l, low), low, close, TRUE)
      /\ LowestAfter(Started(l, low), low, TRUE) >= Started(l, low).floor
      /\ Started(l, low).anchor >= Offset[logic]
  BY StartedSound
<1> QED BY <1>1, BecomesSound DEF Earned

\* The negation of a start, without the Boolean field.
LEMMA BrokenParts ==
  ASSUME AmpelInv, NEW close \in Bars
  PROVE  /\ light.negated \in BOOLEAN /\ closedBelow \in BOOLEAN
         /\ StartBroken(close) => close < light.startLow
         /\ StartBroken(close) => ~ (logic = "ibd" /\ light.negated = TRUE)
         /\ close < light.startLow /\ ~ StartBroken(close) => logic = "ibd" /\ light.negated = TRUE
<1>1. light.negated \in BOOLEAN /\ closedBelow \in BOOLEAN
  BY TypeParts DEF AmpelInv, Lights
<1> QED BY <1>1 DEF StartBroken

\* A rally or a trend that goes on is sound: its floor holds in the logic close to IBD,
\* and a close below the low of the start negates it there.
LEMMA GoingSound ==
  ASSUME AmpelInv, light.phase \in Living, NEW l \in Lights, l.phase \in Living,
         NEW low \in Bars, NEW close \in Bars, NEW complete \in BOOLEAN,
         l.anchor = Today.anchor, l.floor = light.floor, l.start = Today.start,
         l.startLow = light.startLow,
         complete /\ logic = "ibd" => low >= light.floor,
         complete /\ StartBroken(close) => logic = "ibd" /\ l.negated = TRUE,
         ~ complete \/ ~ StartBroken(close) => l.negated = light.negated,
         l.phase = "gelb_rally_unter_druck" => logic = "ibd" /\ l.negated = TRUE,
         l.phase # "rot"
  PROVE  Sound(l, low, close, complete)
<1>1. /\ logic \in Logics /\ lowest \in Nat /\ low \in 1 .. Top /\ Top \in Nat
      /\ light.floor \in Bars /\ light.floor \in Nat
      /\ light.anchor # NoDay /\ light.start # NoDay
      /\ logic = "ibd" => lowest >= light.floor
  BY TypeParts DEF AmpelInv, Shaped, Floored, Bars
<1>2. l.anchor >= 1 /\ l.start >= 1 /\ l.anchor # NoDay /\ l.start # NoDay
  BY <1>1, TodayParts DEF NoDay
<1>3. Shaped(l)
  BY <1>1, <1>2 DEF Shaped, Living, Rally, Trend
<1>4. Floored(l, LowestAfter(l, low, complete))
  BY <1>1, <1>2 DEF Floored, LowestAfter, Lower, NoDay
<1>5. ClosedAfter(l, close, complete) = (closedBelow \/ (complete /\ close < light.startLow))
  BY <1>2, l.start \in Int, TypeParts DEF ClosedAfter, Lights, NoDay
<1>6. (light.negated = TRUE <=> (logic = "ibd" /\ closedBelow = TRUE)) /\ (logic = "current" => closedBelow = FALSE)
  BY DEF AmpelInv, Told
<1>7. Told(l, ClosedAfter(l, close, complete))
  BY <1>5, <1>6, BrokenParts DEF Told
<1> QED BY <1>3, <1>4, <1>7 DEF Sound

\* A living light is sound after any day that clears it or goes on; the logic close to
\* IBD is asked for its floor first.
LEMMA HardRedParts ==
  ASSUME AmpelInv, light.phase \in Living, NEW low \in Bars, NEW close \in Bars, NEW other
  PROVE  /\ ~ HardRedInRally(low, other) => (logic = "ibd" => low >= light.floor)
         /\ ~ HardRedInTrend(low, close, other) => /\ logic = "ibd" => low >= light.floor
                                                   /\ logic = "current" => ~ StartBroken(close)
<1>1. light.floor \in Nat /\ low \in Nat /\ logic \in Logics
  BY TypeParts DEF AmpelInv, Lights, Bars
<1> QED BY <1>1 DEF HardRedInRally, HardRedInTrend, FloorBroken, Logics

\* The initial light.
LEMMA AmpelInitial == AmpelInit => AmpelInv
<1> SUFFICES ASSUME AmpelInit PROVE AmpelInv
  OBVIOUS
<1>1. light = Clear("neutral") /\ lowest = Top + 1 /\ closedBelow = FALSE
  BY DEF AmpelInit
<1>2. light \in Lights
  BY <1>1, TypeParts DEF Clear, Lights, Phases, NoDay
<1>3. AmpelTypeOK
  <2>1. Top + 1 \in 1 .. Top + 1 /\ FALSE \in BOOLEAN
    BY TypeParts
  <2> QED BY <1>1, <1>2, <2>1, TypeParts DEF AmpelInit
<1>4. Shaped(light) /\ Floored(light, lowest) /\ Told(light, closedBelow)
  BY <1>1 DEF Shaped, Floored, Told, Clear, Living, Rally, Trend, NoDay
<1> QED BY <1>3, <1>4 DEF AmpelInv

\* An incomplete row.
LEMMA IncompleteKeeps ==
  ASSUME AmpelInv, NEW low \in Bars, NEW close \in Bars, IncompleteDay(low, close)
  PROVE  AmpelInv' /\ Earned
<1> DEFINE l == [Today EXCEPT !.above = 0, !.pressed = 0]
<1>1. l \in Lights
  <2>1. 0 \in 0 .. 3 /\ 0 \in 0 .. 2 /\ Today \in Lights
    BY TodayParts
  <2> QED BY <2>1 DEF Lights
<1>2. /\ l.phase = light.phase /\ l.anchor = Today.anchor /\ l.start = Today.start
      /\ l.floor = light.floor /\ l.startLow = light.startLow /\ l.negated = light.negated
  BY TodayParts DEF Lights
<1>3. Becomes(l, low, close, FALSE) /\ logic = "ibd"
  BY DEF IncompleteDay
<1> HIDE DEF l
<1>4. CASE light.phase \in Living
  <2>1. light.phase = "gelb_rally_unter_druck" => logic = "ibd" /\ light.negated = TRUE
    BY DEF AmpelInv, Shaped
  <2>2. l.phase # "rot"
    BY <1>2, <1>4 DEF Living, Rally, Trend
  <2>3. Sound(l, low, close, FALSE)
    BY <1>1, <1>2, <1>4, <2>1, <2>2, GoingSound
  <2> QED BY <1>2, <1>3, <2>3, BecomesSound DEF Earned
<1>5. CASE light.phase \notin Living
  <2>1. /\ light.anchor # NoDay => light.floor \in Bars /\ (light.phase = "rot" => lowest >= light.floor)
        /\ light.start = NoDay /\ light.phase # "gelb_rally_unter_druck"
        /\ lowest >= light.floor \/ light.anchor = NoDay
        /\ light.phase = "neutral" => light.anchor = NoDay
    BY <1>3, <1>5 DEF AmpelInv, Shaped, Floored, Living, Rally
  <2>2. Shaped(l)
    BY <1>2, <1>5, <2>1, TodayParts DEF Shaped
  <2>3. Floored(l, LowestAfter(l, low, FALSE))
    BY <1>2, <2>1, TodayParts, TypeParts DEF Floored, LowestAfter, NoDay, AmpelInv
  <2>4. Told(l, ClosedAfter(l, close, FALSE))
    BY <1>2, <1>5 DEF Told
  <2>5. Sound(l, low, close, FALSE)
    BY <1>1, <2>2, <2>3, <2>4 DEF Sound
  <2> QED BY <1>2, <1>3, <2>5, BecomesSound DEF Earned
<1> QED BY <1>4, <1>5

\* A day in neutral.
LEMMA NeutralKeeps ==
  ASSUME AmpelInv, NEW low \in Bars, NEW close \in Bars, NEW correction,
         NeutralDay(low, close, correction)
  PROVE  AmpelInv' /\ Earned
<1>1. CASE correction
  <2>1. Becomes(Clear("rot"), low, close, TRUE)
    BY <1>1 DEF NeutralDay
  <2> QED BY <2>1, ClearedEarned
<1>2. CASE ~ correction
  <2>1. Becomes(Today, low, close, TRUE) /\ light.phase = "neutral"
    BY <1>2 DEF NeutralDay
  <2>2. light.anchor = NoDay /\ light.start = NoDay
    BY <2>1 DEF AmpelInv, Shaped, Living, Rally, Trend
  <2>3. Today.anchor = NoDay /\ Today.start = NoDay /\ Today.phase = "neutral" /\ Today \in Lights
    BY <2>1, <2>2, TodayParts
  <2>4. Sound(Today, low, close, TRUE)
    BY <2>3 DEF Sound, Shaped, Floored, Told, Living, Rally, Trend
  <2> QED BY <2>1, <2>3, <2>4, BecomesSound DEF Earned
<1> QED BY <1>1, <1>2

\* A day in a correction: the attempt ends, begins, goes on, or starts.
LEMMA RedKeeps ==
  ASSUME AmpelInv, NEW low \in Bars, NEW close \in Bars, NEW up, NEW strong,
         RedDay(low, close, up, strong)
  PROVE  AmpelInv' /\ Earned
<1> DEFINE r == Restarted(Today, low)
           a == IF r.anchor = NoDay /\ up
                THEN [r EXCEPT !.anchor = 0,
                               !.floor = IF logic = "ibd" THEN low ELSE Lower(low, before)]
                ELSE r
<1>1. /\ light.phase = "rot" /\ logic \in Logics /\ lowest \in Nat /\ low \in 1 .. Top /\ Top \in Nat
      /\ before \in 1 .. Top
      /\ light.anchor # NoDay => light.floor \in Bars /\ lowest >= light.floor
      /\ light.start = NoDay
  BY TypeParts DEF RedDay, AmpelInv, Shaped, Floored, Living, Rally, Trend, Bars
<1>2. Becomes(IF CanStart(a, low, strong) THEN Started(a, low) ELSE a, low, close, TRUE)
  BY DEF RedDay
<1>3. /\ r \in Lights /\ r.phase = "rot" /\ r.start = NoDay
      /\ r.anchor # NoDay => r.anchor >= 1 /\ r.floor \in Bars /\ lowest >= r.floor /\ low >= r.floor
  <2>1. CASE Today.anchor # NoDay /\ low < Today.floor
    <3>1. r = Clear("rot")
      BY <2>1 DEF Restarted
    <3>2. r.phase = "rot" /\ r.start = NoDay /\ r.anchor = NoDay
      BY <3>1 DEF Clear
    <3>3. r \in Lights
      BY <3>1, ClearSound DEF Sound
    <3> QED BY <3>2, <3>3
  <2>2. CASE ~ (Today.anchor # NoDay /\ low < Today.floor)
    <3>1. r = Today
      BY <2>2 DEF Restarted
    <3>2. Today.anchor # NoDay => Today.anchor >= 1 /\ light.anchor # NoDay
      BY TodayParts
    <3> QED BY <1>1, <2>2, <3>1, <3>2, TodayParts DEF Bars
  <2> QED BY <2>1, <2>2
<1> HIDE DEF r
<1>4. CASE r.anchor = NoDay /\ up
  <2>1. /\ a.phase = "rot" /\ a.start = NoDay /\ a.anchor = 0
        /\ a.floor = (IF logic = "ibd" THEN low ELSE Lower(low, before))
    BY <1>3, <1>4 DEF Lights
  <2>2. a.floor \in Bars
    BY <1>1, <2>1 DEF Lower, Bars
  <2>3. a \in Lights
    <3>1. a.floor \in 0 .. Top /\ 0 \in {NoDay} \cup 0 .. AnchorCap
      BY <1>1, <2>2, TypeParts DEF Bars
    <3>2. a = [r EXCEPT !.anchor = 0, !.floor = a.floor]
      BY <1>4, <2>1
    <3> QED BY <1>3, <3>1, <3>2 DEF Lights
  <2>4. ~ CanStart(a, low, strong)
    BY <1>1, <2>1, TypeParts DEF CanStart, Logics
  <2> HIDE DEF a
  <2>5. Sound(a, low, close, TRUE)
    <3>1. LowestAfter(a, low, TRUE) = a.floor
      BY <2>1 DEF LowestAfter, NoDay
    <3>2. Floored(a, LowestAfter(a, low, TRUE))
      <4>1. a.floor >= a.floor
        BY <1>1, <2>2 DEF Bars
      <4> QED BY <3>1, <4>1 DEF Floored
    <3>3. Shaped(a) /\ Told(a, ClosedAfter(a, close, TRUE))
      BY <2>1, <2>2 DEF Shaped, Told, Living, Rally, Trend, NoDay
    <3> QED BY <2>3, <3>2, <3>3 DEF Sound
  <2> QED BY <1>2, <2>1, <2>4, <2>5, BecomesSound DEF Earned
<1>5. CASE ~ (r.anchor = NoDay /\ up)
  <2>1. a = r
    BY <1>5
  <2>2. Becomes(IF CanStart(r, low, strong) THEN Started(r, low) ELSE r, low, close, TRUE)
    BY <1>2, <2>1
  <2>3. CASE CanStart(r, low, strong)
    <3>1. r.anchor # NoDay
      BY <1>1, <2>3, TypeParts DEF CanStart, Logics, NoDay
    <3> QED BY <1>3, <2>2, <2>3, <3>1, StartedEarned
  <2>4. CASE ~ CanStart(r, low, strong)
    <3>1. Floored(r, LowestAfter(r, low, TRUE))
      BY <1>1, <1>3, TypeParts DEF Floored, LowestAfter, Lower, NoDay, Bars
    <3>2. Sound(r, low, close, TRUE)
      BY <1>3, <3>1 DEF Sound, Shaped, Told, Living, Rally, Trend
    <3> QED BY <1>3, <2>2, <2>4, <3>2, BecomesSound DEF Earned
  <2> QED BY <2>3, <2>4
<1> QED BY <1>4, <1>5

\* A day of a rally under pressure: only a new start day leads out of it.
LEMMA PressedRallyKeeps ==
  ASSUME AmpelInv, NEW low \in Bars, NEW close \in Bars, NEW other, NEW strong,
         PressedRallyDay(low, close, other, strong)
  PROVE  AmpelInv' /\ Earned
<1>1. /\ light.phase = "gelb_rally_unter_druck" /\ light.phase \in Living /\ light.phase # "rot"
      /\ logic = "ibd" /\ light.negated = TRUE
      /\ light.floor \in Bars /\ lowest >= light.floor
  BY DEF PressedRallyDay, AmpelInv, Shaped, Floored, Living, Rally
<1>2. CASE HardRedInRally(low, other)
  <2>1. Becomes(Clear("rot"), low, close, TRUE)
    BY <1>2 DEF PressedRallyDay
  <2> QED BY <2>1, ClearedEarned
<1>3. CASE ~ HardRedInRally(low, other) /\ CanStart(Today, low, strong)
  <2>1. Becomes(Started(Today, low), low, close, TRUE)
    BY <1>3 DEF PressedRallyDay
  <2>2. Today \in Lights /\ Today.floor = light.floor
    BY TodayParts
  <2> QED BY <1>1, <1>3, <2>1, <2>2, StartedEarned
<1>4. CASE ~ HardRedInRally(low, other) /\ ~ CanStart(Today, low, strong)
  <2>1. Becomes(Today, low, close, TRUE)
    BY <1>4 DEF PressedRallyDay
  <2>2. ~ StartBroken(close) /\ low >= light.floor
    BY <1>1, <1>4, BrokenParts, HardRedParts
  <2>3. /\ Today \in Lights /\ Today.phase = light.phase /\ Today.floor = light.floor
        /\ Today.startLow = light.startLow /\ Today.negated = light.negated
    BY TodayParts
  <2>4. Sound(Today, low, close, TRUE)
    BY <1>1, <2>2, <2>3, GoingSound
  <2> QED BY <1>1, <2>1, <2>3, <2>4, BecomesSound DEF Earned
<1> QED BY <1>2, <1>3, <1>4

\* A living light that goes on in a phase that is no start day.
LEMMA GoingEarned ==
  ASSUME AmpelInv, light.phase \in Living, NEW l \in Lights, l.phase \in Living,
         NEW low \in Bars, NEW close \in Bars,
         l.anchor = Today.anchor, l.floor = light.floor, l.start = Today.start,
         l.startLow = light.startLow,
         logic = "ibd" => low >= light.floor,
         StartBroken(close) => logic = "ibd" /\ l.negated = TRUE,
         ~ StartBroken(close) => l.negated = light.negated,
         l.phase = "gelb_rally_unter_druck" => logic = "ibd" /\ l.negated = TRUE,
         l.phase # light.phase => l.phase # "gelb_startschuss",
         Becomes(l, low, close, TRUE)
  PROVE  AmpelInv' /\ Earned
<1>1. l.phase # "rot"
  BY DEF Living, Rally, Trend
<1>2. Sound(l, low, close, TRUE)
  BY <1>1, GoingSound
<1> QED BY <1>2, BecomesSound DEF Earned

\* The end of a start by its low.
LEMMA EndKeeps ==
  ASSUME AmpelInv, light.phase \in {"gelb_startschuss", "gruen"}, NEW low \in Bars, NEW close \in Bars,
         NEW other, ~ HardRedInRally(low, other), StartBroken(close),
         Becomes(EndOfStart, low, close, TRUE)
  PROVE  AmpelInv' /\ Earned
<1>1. light.phase \in Living /\ logic \in Logics
  BY TypeParts DEF Living, Rally, AmpelInv
<1>2. CASE logic = "ibd"
  <2> DEFINE l == [Negated(Today, "gelb_rally_unter_druck") EXCEPT !.demand = FALSE, !.above = 0]
  <2>1. l \in Lights
    <3>1. /\ "gelb_rally_unter_druck" \in Phases /\ FALSE \in BOOLEAN /\ TRUE \in BOOLEAN /\ 0 \in 0 .. 3
          /\ Today \in Lights
      BY TodayParts DEF Phases, Rally
    <3> QED BY <3>1 DEF Lights, Negated
  <2>2. /\ l.phase = "gelb_rally_unter_druck" /\ l.negated = TRUE /\ l.anchor = Today.anchor
        /\ l.start = Today.start /\ l.floor = light.floor /\ l.startLow = light.startLow
    BY TodayParts DEF Negated, Lights
  <2>3. Becomes(l, low, close, TRUE)
    BY <1>2 DEF EndOfStart
  <2> HIDE DEF l
  <2>4. l.phase \in Living
    BY <2>2 DEF Living, Rally
  <2>5. low >= light.floor
    BY <1>1, <1>2, HardRedParts
  <2> QED BY <1>1, <1>2, <2>1, <2>2, <2>3, <2>4, <2>5, GoingEarned
<1>3. CASE logic # "ibd"
  <2>1. Becomes(Clear("rot"), low, close, TRUE)
    BY <1>3 DEF EndOfStart
  <2> QED BY <2>1, ClearedEarned
<1> QED BY <1>2, <1>3

\* A day after a start, until it is confirmed.
LEMMA StartKeeps ==
  ASSUME AmpelInv, NEW low \in Bars, NEW close \in Bars,
         NEW other, NEW strong \in BOOLEAN, NEW above,
         StartDay(low, close, other, strong, above)
  PROVE  AmpelInv' /\ Earned
<1> DEFINE counted == [Today EXCEPT !.above = IF above THEN Count(@, 3) ELSE 0, !.demand = @ \/ strong]
           green == counted.start >= ConfirmDays /\ (counted.demand \/ counted.above >= 3)
           l == IF green THEN [counted EXCEPT !.phase = "gruen"] ELSE counted
<1>1. light.phase = "gelb_startschuss" /\ light.phase \in Living /\ logic \in Logics
  BY TypeParts DEF StartDay, Living, Rally, AmpelInv
<1>2. Becomes(IF HardRedInRally(low, other) THEN Clear("rot")
              ELSE IF StartBroken(close) THEN EndOfStart ELSE l, low, close, TRUE)
  BY DEF StartDay
<1>3. CASE HardRedInRally(low, other)
  BY <1>2, <1>3, ClearedEarned
<1>4. CASE ~ HardRedInRally(low, other) /\ StartBroken(close)
  BY <1>1, <1>2, <1>4, EndKeeps
<1>5. CASE ~ HardRedInRally(low, other) /\ ~ StartBroken(close)
  <2>1. Today \in Lights
    BY TodayParts
  <2>2. counted \in Lights
    <3>1. (IF above THEN Count(Today.above, 3) ELSE 0) \in 0 .. 3
      BY <2>1 DEF Count, Lights
    <3>2. (Today.demand \/ strong) \in BOOLEAN
      OBVIOUS
    <3>3. counted = [Today EXCEPT !.above = IF above THEN Count(Today.above, 3) ELSE 0,
                                  !.demand = Today.demand \/ strong]
      BY <2>1 DEF Lights
    <3> QED BY <2>1, <3>1, <3>2, <3>3 DEF Lights
  <2>3. /\ counted.phase = light.phase /\ counted.anchor = Today.anchor /\ counted.start = Today.start
        /\ counted.floor = light.floor /\ counted.startLow = light.startLow
        /\ counted.negated = light.negated
    BY TodayParts DEF Lights
  <2> HIDE DEF counted, green
  <2>4. l \in Lights
    <3>1. "gruen" \in Phases
      BY DEF Phases, Rally
    <3> QED BY <2>2, <3>1 DEF Lights
  <2>5. /\ l.phase \in {light.phase, "gruen"} /\ l.anchor = Today.anchor /\ l.start = Today.start
        /\ l.floor = light.floor /\ l.startLow = light.startLow /\ l.negated = light.negated
    BY <2>2, <2>3 DEF Lights
  <2>6. Becomes(l, low, close, TRUE)
    BY <1>2, <1>5
  <2> HIDE DEF l
  <2>7. /\ l.phase \in Living /\ l.phase # "gelb_rally_unter_druck"
        /\ l.phase # light.phase => l.phase # "gelb_startschuss"
    BY <1>1, <2>5 DEF Living, Rally
  <2>8. logic = "ibd" => low >= light.floor
    BY <1>1, <1>5, HardRedParts
  <2> QED BY <1>1, <1>5, <2>4, <2>5, <2>6, <2>7, <2>8, GoingEarned
<1> QED BY <1>2, <1>3, <1>4, <1>5

\* A green day.
LEMMA GreenKeeps ==
  ASSUME AmpelInv, NEW low \in Bars, NEW close \in Bars, NEW other, NEW confirmed,
         GreenDay(low, close, other, confirmed)
  PROVE  AmpelInv' /\ Earned
<1> DEFINE l == IF confirmed THEN [Today EXCEPT !.phase = "aufwaertstrend"] ELSE Today
<1>1. light.phase = "gruen" /\ light.phase \in Living /\ logic \in Logics
  BY TypeParts DEF GreenDay, Living, Rally, AmpelInv
<1>2. Becomes(IF HardRedInRally(low, other) THEN Clear("rot")
              ELSE IF StartBroken(close) THEN EndOfStart ELSE l, low, close, TRUE)
  BY DEF GreenDay
<1>3. CASE HardRedInRally(low, other)
  BY <1>2, <1>3, ClearedEarned
<1>4. CASE ~ HardRedInRally(low, other) /\ StartBroken(close)
  BY <1>1, <1>2, <1>4, EndKeeps
<1>5. CASE ~ HardRedInRally(low, other) /\ ~ StartBroken(close)
  <2>1. l \in Lights
    <3>1. "aufwaertstrend" \in Phases /\ Today \in Lights
      BY TodayParts DEF Phases, Trend
    <3> QED BY <3>1 DEF Lights
  <2>2. /\ l.phase \in {light.phase, "aufwaertstrend"} /\ l.anchor = Today.anchor /\ l.start = Today.start
        /\ l.floor = light.floor /\ l.startLow = light.startLow /\ l.negated = light.negated
    BY TodayParts DEF Lights
  <2>3. Becomes(l, low, close, TRUE)
    BY <1>2, <1>5
  <2> HIDE DEF l
  <2>4. /\ l.phase \in Living /\ l.phase # "gelb_rally_unter_druck"
        /\ l.phase # light.phase => l.phase # "gelb_startschuss"
    BY <1>1, <2>2 DEF Living, Rally, Trend
  <2>5. logic = "ibd" => low >= light.floor
    BY <1>1, <1>5, HardRedParts
  <2> QED BY <1>1, <1>5, <2>1, <2>2, <2>3, <2>4, <2>5, GoingEarned
<1> QED BY <1>2, <1>3, <1>4, <1>5

\* A negated start, as a phase of the trend.
LEMMA NegatedParts ==
  ASSUME NEW l \in Lights, NEW phase \in Phases
  PROVE  /\ Negated(l, phase) \in Lights
         /\ Negated(l, phase).phase = phase /\ Negated(l, phase).negated = TRUE
         /\ Negated(l, phase).anchor = l.anchor /\ Negated(l, phase).start = l.start
         /\ Negated(l, phase).floor = l.floor /\ Negated(l, phase).startLow = l.startLow
BY DEF Negated, Lights

\* A day of a trend.
LEMMA TrendKeeps ==
  ASSUME AmpelInv, NEW low \in Bars, NEW close \in Bars, NEW other, NEW pressure,
         TrendDay(low, close, other, pressure)
  PROVE  AmpelInv' /\ Earned
<1> DEFINE l == Pressured(close, pressure)
           n == Negated(Today, "gelb_trend_unter_druck")
<1>1. /\ light.phase = "aufwaertstrend" /\ light.phase \in Living /\ logic \in Logics
      /\ Today \in Lights /\ "gelb_trend_unter_druck" \in Phases
  BY TodayParts, TypeParts DEF TrendDay, Living, Trend, Phases, AmpelInv
<1>2. Becomes(IF HardRedInTrend(low, close, other) THEN Clear("rot") ELSE l, low, close, TRUE)
  BY DEF TrendDay
<1>3. CASE HardRedInTrend(low, close, other)
  BY <1>2, <1>3, ClearedEarned
<1>4. CASE ~ HardRedInTrend(low, close, other)
  <2>1. /\ n \in Lights /\ n.phase = "gelb_trend_unter_druck" /\ n.negated = TRUE
        /\ n.anchor = Today.anchor /\ n.start = Today.start /\ n.floor = Today.floor
        /\ n.startLow = Today.startLow
    BY <1>1, NegatedParts
  <2>2. /\ logic = "ibd" => low >= light.floor
        /\ StartBroken(close) => logic = "ibd"
    BY <1>1, <1>4, HardRedParts DEF Logics
  <2>3. /\ l \in Lights /\ l.phase \in {light.phase, "gelb_trend_unter_druck"}
        /\ l.anchor = Today.anchor /\ l.start = Today.start
        /\ l.floor = Today.floor /\ l.startLow = Today.startLow
        /\ IF StartBroken(close) THEN l.negated = TRUE ELSE l.negated = Today.negated
    <3>1. CASE StartBroken(close)
      <4>1. l = [n EXCEPT !.pressed = 0]
        BY <2>2, <3>1 DEF Pressured
      <4> HIDE DEF n, l
      <4>2. 0 \in 0 .. 2
        OBVIOUS
      <4> QED BY <2>1, <3>1, <4>1, <4>2 DEF Lights
    <3>2. CASE ~ StartBroken(close) /\ pressure
      <4>1. l = [Today EXCEPT !.phase = "gelb_trend_unter_druck", !.pressed = 0]
        BY <3>2 DEF Pressured
      <4> HIDE DEF l
      <4>2. 0 \in 0 .. 2
        OBVIOUS
      <4> QED BY <1>1, <3>2, <4>1, <4>2 DEF Lights
    <3>3. CASE ~ StartBroken(close) /\ ~ pressure
      <4>1. l = Today
        BY <3>3 DEF Pressured
      <4> QED BY <1>1, <3>3, <4>1, TodayParts
    <3> QED BY <3>1, <3>2, <3>3
  <2>4. Becomes(l, low, close, TRUE)
    BY <1>2, <1>4
  <2> HIDE DEF l
  <2>5. /\ l.phase \in Living /\ l.phase # "gelb_rally_unter_druck" /\ l.phase # "gelb_startschuss"
    BY <1>1, <2>3 DEF Living, Trend
  <2>6. Today.floor = light.floor /\ Today.startLow = light.startLow /\ Today.negated = light.negated
    BY TodayParts
  <2> QED BY <1>1, <2>2, <2>3, <2>4, <2>5, <2>6, GoingEarned
<1> QED BY <1>3, <1>4

\* A day of a trend under pressure.
LEMMA PressedTrendKeeps ==
  ASSUME AmpelInv, NEW low \in Bars, NEW close \in Bars, NEW other, NEW above, NEW recovered,
         NEW structureUp, PressedTrendDay(low, close, other, above, recovered, structureUp)
  PROVE  AmpelInv' /\ Earned
<1> DEFINE counted == [Today EXCEPT !.pressed = IF above THEN Count(@, 2) ELSE 0]
           l == IF logic = "ibd" /\ StartBroken(close) THEN Negated(counted, light.phase) ELSE counted
           k == IF l.pressed >= 2 /\ recovered
                THEN [l EXCEPT !.phase = IF structureUp THEN "aufwaertstrend" ELSE "gruen"] ELSE l
<1>1. /\ light.phase = "gelb_trend_unter_druck" /\ light.phase \in Living /\ logic \in Logics
      /\ light.phase \in Phases /\ Today \in Lights
  BY TodayParts, TypeParts DEF PressedTrendDay, Living, Trend, Phases, AmpelInv
<1>2. Becomes(IF HardRedInTrend(low, close, other) THEN Clear("rot") ELSE k, low, close, TRUE)
  BY DEF PressedTrendDay
<1>3. CASE HardRedInTrend(low, close, other)
  BY <1>2, <1>3, ClearedEarned
<1>4. CASE ~ HardRedInTrend(low, close, other)
  <2>1. /\ logic = "ibd" => low >= light.floor
        /\ StartBroken(close) => logic = "ibd"
    BY <1>1, <1>4, HardRedParts DEF Logics
  <2>2. counted \in Lights
    <3>1. (IF above THEN Count(Today.pressed, 2) ELSE 0) \in 0 .. 2
      BY <1>1 DEF Count, Lights
    <3> QED BY <1>1, <3>1 DEF Lights
  <2>3. /\ counted.phase = light.phase /\ counted.anchor = Today.anchor /\ counted.start = Today.start
        /\ counted.floor = light.floor /\ counted.startLow = light.startLow
        /\ counted.negated = light.negated
    BY TodayParts DEF Lights
  <2> HIDE DEF counted
  <2>4. /\ l \in Lights /\ l.phase = light.phase /\ l.anchor = Today.anchor /\ l.start = Today.start
        /\ l.floor = light.floor /\ l.startLow = light.startLow
        /\ IF StartBroken(close) THEN l.negated = TRUE ELSE l.negated = light.negated
    <3>1. CASE StartBroken(close)
      <4>1. l = Negated(counted, light.phase)
        BY <2>1, <3>1
      <4> HIDE DEF l
      <4> QED BY <1>1, <2>2, <2>3, <3>1, <4>1, NegatedParts
    <3>2. CASE ~ StartBroken(close)
      <4>1. l = counted
        BY <3>2
      <4> HIDE DEF l
      <4> QED BY <2>2, <2>3, <3>2, <4>1
    <3> QED BY <3>1, <3>2
  <2> HIDE DEF l
  <2>5. /\ k \in Lights /\ k.phase \in {light.phase, "aufwaertstrend", "gruen"}
        /\ k.anchor = Today.anchor /\ k.start = Today.start
        /\ k.floor = light.floor /\ k.startLow = light.startLow /\ k.negated = l.negated
    <3>1. "aufwaertstrend" \in Phases /\ "gruen" \in Phases
      BY DEF Phases, Rally, Trend
    <3> QED BY <2>4, <3>1 DEF Lights
  <2>6. Becomes(k, low, close, TRUE)
    BY <1>2, <1>4
  <2> HIDE DEF k
  <2>7. /\ k.phase \in Living /\ k.phase # "gelb_rally_unter_druck" /\ k.phase # "gelb_startschuss"
    BY <1>1, <2>5 DEF Living, Rally, Trend
  <2> QED BY <1>1, <2>1, <2>4, <2>5, <2>6, <2>7, GoingEarned
<1> QED BY <1>3, <1>4

-----------------------------------------------------------------------------
\* Every step keeps the invariant and earns its start day.
LEMMA AmpelStep == AmpelInv /\ [AmpelNext]_ampelVars => AmpelInv' /\ [Earned]_ampelVars
<1> SUFFICES ASSUME AmpelInv, [AmpelNext]_ampelVars PROVE AmpelInv' /\ [Earned]_ampelVars
  OBVIOUS
<1>1. CASE AmpelNext
  <2> PICK low \in Bars, close \in Bars :
         \/ IncompleteDay(low, close)
         \/ \E correction \in BOOLEAN : NeutralDay(low, close, correction)
         \/ \E up, strong \in BOOLEAN : RedDay(low, close, up, strong)
         \/ \E other, strong \in BOOLEAN : PressedRallyDay(low, close, other, strong)
         \/ \E other, strong, above \in BOOLEAN : StartDay(low, close, other, strong, above)
         \/ \E other, confirmed \in BOOLEAN : GreenDay(low, close, other, confirmed)
         \/ \E other, pressure \in BOOLEAN : TrendDay(low, close, other, pressure)
         \/ \E other, above, recovered, structureUp \in BOOLEAN :
              PressedTrendDay(low, close, other, above, recovered, structureUp)
    BY <1>1 DEF AmpelNext
  <2> QED
    BY IncompleteKeeps, NeutralKeeps, RedKeeps, PressedRallyKeeps, StartKeeps, GreenKeeps,
       TrendKeeps, PressedTrendKeeps
<1>2. CASE UNCHANGED ampelVars
  BY <1>2 DEF ampelVars, AmpelInv, AmpelTypeOK, Shaped, Floored, Told
<1> QED BY <1>1, <1>2

\* The invariant says what the properties say.
LEMMA InvSuffices == AmpelInv => AmpelTypeOK /\ FloorHolds /\ NegationIsHistory
<1> SUFFICES ASSUME AmpelInv PROVE FloorHolds /\ NegationIsHistory
  BY DEF AmpelInv
<1>1. light.negated \in BOOLEAN /\ closedBelow \in BOOLEAN
  BY TypeParts DEF AmpelInv, Lights
<1>2. FloorHolds
  BY DEF AmpelInv, Shaped, Floored, FloorHolds, Living
<1>3. NegationIsHistory
  BY <1>1 DEF AmpelInv, Told, NegationIsHistory, Living
<1> QED BY <1>2, <1>3

\* The invariant holds always.
THEOREM Invariance == AmpelSpec => []AmpelInv
<1>1. AmpelInit => AmpelInv
  BY AmpelInitial
<1>2. AmpelInv /\ [AmpelNext]_ampelVars => AmpelInv'
  BY AmpelStep
<1> QED BY <1>1, <1>2, PTL DEF AmpelSpec

\* Type correctness, for every scale of prices, offset and confirmation time.
THEOREM TypeCorrect == AmpelSpec => []AmpelTypeOK
<1>1. AmpelInv => AmpelTypeOK
  BY InvSuffices
<1> QED BY <1>1, Invariance, PTL

\* In the logic close to IBD every rally and trend lives above its floor.
THEOREM FloorCorrect == AmpelSpec => []FloorHolds
<1>1. AmpelInv => FloorHolds
  BY InvSuffices
<1> QED BY <1>1, Invariance, PTL

\* The published negation flag is the history of the closes since the start.
THEOREM NegationCorrect == AmpelSpec => []NegationIsHistory
<1>1. AmpelInv => NegationIsHistory
  BY InvSuffices
<1> QED BY <1>1, Invariance, PTL

\* Every start day lies far enough from an anchor whose floor held.
THEOREM StartCorrect == AmpelSpec => StartIsEarned
<1>1. AmpelInv /\ [AmpelNext]_ampelVars => [Earned]_ampelVars
  BY AmpelStep
<1>2. [][Earned]_ampelVars => StartIsEarned
  BY DEF Earned, StartIsEarned
<1> QED BY <1>1, <1>2, Invariance, PTL DEF AmpelSpec
=============================================================================
