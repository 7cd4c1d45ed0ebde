---------------------- MODULE AssessmentPipeline_fresh ----------------------
(***************************************************************************)
(* What the queue calls current is current, for every number of tickers,    *)
(* refreshers, batchers and runs and every pattern of faults, lost leases   *)
(* included.  A ticker is Covered while a change of its report has still to *)
(* be requested, or was made aside or published over (stray); otherwise its *)
(* row is Sure: open and going to be assessed from the present report, or   *)
(* settled with the present report published.  The argument looks at the    *)
(* process whose token the row carries only: what any other one publishes   *)
(* is of the present report, or makes the ticker stray.                     *)
(***************************************************************************)
EXTENDS AssessmentPipeline_proofs

RowsTyped ==
  /\ clock \in Nat
  /\ refresh \in [Refreshers -> Requests]
  /\ want \in [Tickers -> Nat \cup {None}] /\ began \in [Tickers -> Nat \cup {None}]
  /\ owner \in [Tickers -> Batchers \cup {NoWorker}]
  /\ open \in [Tickers -> BOOLEAN] /\ stray \in [Tickers -> BOOLEAN]

\* Revisions are readings of the clock, and an attempt began from one.
Dated ==
  /\ \A w \in Refreshers : refresh[w].step # "idle" => refresh[w].ticker \in Tickers
  /\ \A w \in Refreshers : refresh[w].step = "stamped" => refresh[w].stamp <= clock
  /\ \A t \in Tickers : want[t] <= clock
  /\ \A t \in Tickers : began[t] = None \/ began[t] <= want[t]

\* A batcher has at most one row in its hands, the one whose token it holds unless
\* its lease was lost; it keeps what it read of that row's ticker only.
Held(s) ==
  /\ \A t \in Tickers : owner[t] = s => t \in screen[s].scope
  /\ \A t, u \in screen[s].scope : t = u
  /\ screen[s].todo \subseteq screen[s].scope
  /\ screen[s].step \in {"claimed", "cached"} => screen[s].todo = screen[s].scope
  /\ screen[s].step = "idle" => screen[s].scope = {}
  /\ screen[s].full = FALSE
  /\ \A t \in Tickers : screen[s].out[t] # NoSnap => t \in screen[s].scope

Tokens ==
  /\ \A s \in Batchers : Held(s)
  /\ \A t \in Tickers : owner[t] # NoWorker => open[t] = TRUE

\* A refresher that will request t with a later revision than any so far.
Requesting(w, t) ==
  /\ refresh[w].ticker = t
  /\ \/ refresh[w].step = "stored"
     \/ refresh[w].step = "stamped" /\ refresh[w].stamp > want[t]
Covered(t) == stray[t] = TRUE \/ want[t] = None \/ \E w \in Refreshers : Requesting(w, t)

\* The result of p for t will be of the present report, or missing.
OnTheWay(p, t) ==
  \/ p.step \in {"claimed", "cached"}
  \/ p.step = "revised" /\ t \in p.todo /\ p.dep[t] = data[t]
  \/ p.step = "revised" /\ t \notin p.todo /\ (p.out[t] = NoSnap \/ p.out[t].content = data[t])
  \/ p.step = "published" /\ (p.out[t] = NoSnap \/ snap[t].content = data[t])

Sure(t) ==
  \/ open[t] = TRUE /\ (owner[t] = NoWorker \/ began[t] # want[t] \/ OnTheWay(screen[owner[t]], t))
  \/ open[t] = FALSE /\ snap[t].content = data[t]

FreshInv ==
  /\ PipelineInv
  /\ RowsTyped
  /\ Dated
  /\ Tokens
  /\ \A t \in Tickers : Covered(t) \/ Sure(t)

\* The constants.
LEMMA Constants ==
  /\ NoTicker \notin Tickers /\ NoWorker \notin Screens /\ None = -1 /\ Queue!None = -1
  /\ NoWorker \notin Batchers /\ Batchers \cap Runners = {}
BY PipelineAssumption DEF PipelineAssumption, None, Queue!None, Screens

\* The fields of a refresher.
LEMMA RequestParts ==
  ASSUME NEW x \in Requests
  PROVE  /\ x.step \in {"idle", "stored", "stamped"} /\ x.ticker \in Tickers \cup {NoTicker} /\ x.stamp \in Nat
BY DEF Requests

\* The fields of a screening.
LEMMA ProgressParts ==
  ASSUME NEW p \in Progress
  PROVE  /\ p.step \in {"idle", "claimed", "cached", "revised", "published"}
         /\ p.scope \in SUBSET Tickers /\ p.full \in BOOLEAN /\ p.todo \in SUBSET Tickers
         /\ p.cached \in [Tickers -> AnySnap] /\ p.dep \in [Tickers -> Nat] /\ p.out \in [Tickers -> AnySnap]
BY DEF Progress

\* A screening that is idle.
LEMMA IdleParts ==
  /\ IdleScreen \in Progress /\ IdleScreen.step = "idle" /\ IdleScreen.scope = {} /\ IdleScreen.full = FALSE
  /\ IdleScreen.todo = {} /\ \A t \in Tickers : IdleScreen.out[t] = NoSnap
BY DEF IdleScreen, Progress, AnySnap

\* A refresher that is idle.
LEMMA IdleRequest ==
  IdleRefresh \in Requests /\ IdleRefresh.step = "idle" /\ IdleRefresh.ticker = NoTicker
BY DEF IdleRefresh, Requests

\* PipelineInv is kept (HonestStep); the steps below show the rest.
LEMMA Kept == ASSUME FreshInv, Next PROVE PipelineInv'
BY HonestStep DEF FreshInv

\* A report is stored: the ticker is covered.
LEMMA StoreFresh ==
  ASSUME FreshInv, NEW w \in Refreshers, NEW t \in Tickers, Store(w, t), PipelineInv'
  PROVE  FreshInv'
<1> DEFINE k == [step |-> "stored", ticker |-> t, stamp |-> 0]
<1>1. /\ refresh[w].step = "idle" /\ refresh' = [refresh EXCEPT ![w] = k]
      /\ data' = [data EXCEPT ![t] = @ + 1]
      /\ UNCHANGED <<clock, want, began, owner, open, screen, snap, stray>>
  BY DEF Store, ledger
<1>2. k \in Requests /\ k.step = "stored" /\ k.ticker = t
  BY DEF Requests
<1> HIDE DEF k
<1>3. /\ refresh' \in [Refreshers -> Requests] /\ refresh'[w] = k
      /\ \A v \in Refreshers : v # w => refresh'[v] = refresh[v]
      /\ \A u \in Tickers : u # t => data'[u] = data[u]
  BY <1>1, <1>2 DEF FreshInv, RowsTyped, PipelineInv, Typed
<1>4. RowsTyped'
  BY <1>1, <1>3 DEF FreshInv, RowsTyped
<1>5. Dated'
  BY <1>1, <1>2, <1>3 DEF FreshInv, Dated
<1>6. Tokens'
  BY <1>1 DEF FreshInv, Tokens, Held
<1>7. Covered(t)'
  BY <1>2, <1>3 DEF Covered, Requesting
<1>8. ASSUME NEW u \in Tickers, u # t PROVE Covered(u)' \/ Sure(u)'
  <2>1. Covered(u) \/ Sure(u)
    BY DEF FreshInv
  <2>2. CASE Covered(u)
    <3>1. \A v \in Refreshers : Requesting(v, u) => v # w /\ Requesting(v, u)'
      BY <1>1, <1>3 DEF Requesting
    <3> QED BY <1>1, <2>2, <3>1 DEF Covered
  <2>3. CASE Sure(u)
    BY <1>1, <1>3, <1>8, <2>3 DEF Sure, OnTheWay
  <2> QED BY <2>1, <2>2, <2>3
<1> QED BY <1>4, <1>5, <1>6, <1>7, <1>8 DEF FreshInv

\* A report is changed aside: the ticker is covered.
LEMMA StoreAsideFresh ==
  ASSUME FreshInv, NEW t \in Tickers, StoreAside(t), PipelineInv'
  PROVE  FreshInv'
<1>1. /\ data' = [data EXCEPT ![t] = @ + 1] /\ stray' = [stray EXCEPT ![t] = TRUE]
      /\ UNCHANGED <<clock, refresh, want, began, owner, open, screen, snap>>
  BY DEF StoreAside, ledger
<1>2. /\ stray' \in [Tickers -> BOOLEAN] /\ stray'[t] = TRUE
      /\ \A u \in Tickers : u # t => data'[u] = data[u] /\ stray'[u] = stray[u]
  BY <1>1 DEF FreshInv, RowsTyped, PipelineInv, Typed
<1>3. RowsTyped' /\ Dated'
  BY <1>1, <1>2 DEF FreshInv, RowsTyped, Dated
<1>4. Tokens'
  BY <1>1 DEF FreshInv, Tokens, Held
<1>5. Covered(t)'
  BY <1>2 DEF Covered
<1>6. ASSUME NEW u \in Tickers, u # t PROVE Covered(u)' \/ Sure(u)'
  <2>1. Covered(u) => Covered(u)'
    BY <1>1, <1>2, <1>6 DEF Covered, Requesting
  <2>2. Sure(u) => Sure(u)'
    BY <1>1, <1>2, <1>6 DEF Sure, OnTheWay
  <2> QED BY <2>1, <2>2 DEF FreshInv
<1> QED BY <1>3, <1>4, <1>5, <1>6 DEF FreshInv

\* The clock is read: later than every revision.
LEMMA StampFresh ==
  ASSUME FreshInv, NEW w \in Refreshers, Stamp(w), PipelineInv'
  PROVE  FreshInv'
<1> DEFINE k == [refresh[w] EXCEPT !.step = "stamped", !.stamp = clock + 1]
<1>1. /\ refresh[w].step = "stored" /\ clock' = clock + 1
      /\ refresh' = [refresh EXCEPT ![w].step = "stamped", ![w].stamp = clock + 1]
      /\ UNCHANGED <<data, want, began, owner, open, screen, snap, stray>>
  BY DEF Stamp, ledger
<1>2. /\ refresh \in [Refreshers -> Requests] /\ refresh[w] \in Requests /\ clock \in Nat
      /\ \A t \in Tickers : want[t] \in Nat \cup {None}
  BY DEF FreshInv, RowsTyped
<1>3. k \in Requests /\ k.step = "stamped" /\ k.ticker = refresh[w].ticker /\ k.stamp = clock + 1
  <2>1. clock + 1 \in Nat
    BY <1>2
  <2> QED BY <1>2, <2>1, StampParts
<1>4. refresh' = [refresh EXCEPT ![w] = k]
  BY <1>1, <1>2 DEF Requests
<1> HIDE DEF k
<1>5. /\ refresh' \in [Refreshers -> Requests] /\ refresh'[w] = k
      /\ \A v \in Refreshers : v # w => refresh'[v] = refresh[v]
  BY <1>2, <1>3, <1>4
<1>6. RowsTyped'
  BY <1>1, <1>2, <1>5 DEF FreshInv, RowsTyped
<1>7. Dated'
  <2>1. \A v \in Refreshers : refresh[v].stamp \in Nat
    BY <1>2, RequestParts
  <2>2. \A v \in Refreshers : refresh'[v].step = "stamped" => refresh'[v].stamp <= clock'
    BY <1>1, <1>2, <1>3, <1>5, <2>1 DEF FreshInv, Dated
  <2>3. \A t \in Tickers : want'[t] <= clock'
    BY <1>1, <1>2, Constants DEF FreshInv, Dated
  <2>4. \A v \in Refreshers : refresh'[v].step # "idle" => refresh'[v].ticker \in Tickers
    BY <1>1, <1>3, <1>5 DEF FreshInv, Dated
  <2> QED BY <1>1, <2>2, <2>3, <2>4 DEF FreshInv, Dated
<1>8. Tokens'
  BY <1>1 DEF FreshInv, Tokens, Held
<1>9. ASSUME NEW t \in Tickers PROVE Covered(t)' \/ Sure(t)'
  <2>1. Covered(t) \/ Sure(t)
    BY DEF FreshInv
  <2>2. CASE Covered(t)
    <3>1. clock + 1 > want[t]
      BY <1>2, Constants DEF FreshInv, Dated
    <3>2. \A v \in Refreshers : Requesting(v, t) => Requesting(v, t)'
      BY <1>1, <1>3, <1>5, <3>1 DEF Requesting
    <3> QED BY <1>1, <2>2, <3>2 DEF Covered
  <2>3. CASE Sure(t)
    BY <1>1, <2>3 DEF Sure, OnTheWay
  <2> QED BY <2>1, <2>2, <2>3
<1> QED BY <1>6, <1>7, <1>8, <1>9 DEF FreshInv

\* A refresher is done: it asked, its request was dropped, or it died.
LEMMA RequestFresh ==
  ASSUME FreshInv, NEW w \in Refreshers, Request(w) \/ RefresherDies(w), PipelineInv'
  PROVE  FreshInv'
<1>0. PICK t \in Tickers : t = refresh[w].ticker
  BY DEF FreshInv, Dated, Request, RefresherDies
<1>1. /\ refresh[w].step # "idle" /\ refresh' = [refresh EXCEPT ![w] = IdleRefresh]
      /\ UNCHANGED <<data, clock, began, owner, screen, snap>>
      /\ \/ /\ refresh[w].step = "stamped" /\ refresh[w].stamp > want[t] /\ want'[t] = refresh[w].stamp
            /\ \E r \in 1 .. MaxClock : want' = [want EXCEPT ![t] = r]
            /\ open' = [open EXCEPT ![t] = TRUE] /\ stray' = stray
         \/ /\ refresh[w].step = "stamped" /\ ~ refresh[w].stamp > want[t] /\ UNCHANGED <<want, open, stray>>
         \/ stray' = [stray EXCEPT ![t] = TRUE] /\ UNCHANGED <<want, open>>
  BY <1>0 DEF Request, RefresherDies, ledger, Queue!Ask
<1>2. /\ refresh \in [Refreshers -> Requests] /\ refresh[w] \in Requests /\ clock \in Nat
      /\ want \in [Tickers -> Nat \cup {None}] /\ began \in [Tickers -> Nat \cup {None}]
      /\ open \in [Tickers -> BOOLEAN] /\ stray \in [Tickers -> BOOLEAN]
  BY DEF FreshInv, RowsTyped
<1>3. t \in Tickers /\ refresh[w].stamp \in Nat
  BY <1>2, RequestParts
<1>4. refresh[w].step = "stamped" => refresh[w].stamp <= clock
  BY DEF FreshInv, Dated
<1>5. /\ refresh' \in [Refreshers -> Requests] /\ refresh'[w] = IdleRefresh
      /\ \A v \in Refreshers : v # w => refresh'[v] = refresh[v]
  BY <1>1, <1>2, IdleRequest
<1>6. Tokens'
  <2>1. \A u \in Tickers : open[u] = TRUE => open'[u] = TRUE
    BY <1>1, <1>2
  <2> QED BY <1>1, <2>1 DEF FreshInv, Tokens, Held
<1>7. CASE /\ refresh[w].step = "stamped" /\ refresh[w].stamp > want[t] /\ want'[t] = refresh[w].stamp
           /\ \E r \in 1 .. MaxClock : want' = [want EXCEPT ![t] = r]
           /\ open' = [open EXCEPT ![t] = TRUE] /\ stray' = stray
  <2>1. /\ want' \in [Tickers -> Nat \cup {None}]
        /\ \A u \in Tickers : u # t => want'[u] = want[u] /\ open'[u] = open[u]
        /\ open'[t] = TRUE
    <3>1. PICK r \in 1 .. MaxClock : want' = [want EXCEPT ![t] = r]
      BY <1>7
    <3>2. r = refresh[w].stamp
      BY <1>2, <1>3, <1>7, <3>1
    <3> QED BY <1>2, <1>3, <1>7, <3>1, <3>2
  <2>2. RowsTyped'
    BY <1>1, <1>2, <1>5, <1>7, <2>1 DEF FreshInv, RowsTyped
  <2>3. began[t] # want'[t] /\ (began[t] = None \/ began[t] <= want'[t])
    <3>1. /\ began[t] \in Nat \cup {None} /\ want[t] \in Nat \cup {None}
          /\ (began[t] = None \/ began[t] <= want[t])
      BY <1>2, <1>3 DEF FreshInv, Dated
    <3> QED BY <1>3, <1>7, <3>1, Constants
  <2>4. Dated'
    BY <1>1, <1>3, <1>4, <1>5, <1>7, <2>1, <2>3, IdleRequest DEF FreshInv, Dated
  <2>5. Sure(t)'
    <3>1. open'[t] = TRUE /\ began' = began /\ began[t] # want'[t]
      BY <1>1, <2>1, <2>3
    <3> QED BY <1>3, <3>1 DEF Sure
  <2>6. ASSUME NEW u \in Tickers, u # t PROVE Covered(u)' \/ Sure(u)'
    <3>1. \A v \in Refreshers : Requesting(v, u) => Requesting(v, u)'
      BY <1>0, <1>5, <2>1, <2>6 DEF Requesting
    <3>2. Covered(u) => Covered(u)'
      BY <1>7, <2>1, <2>6, <3>1 DEF Covered
    <3>3. Sure(u) => Sure(u)'
      BY <1>1, <2>1, <2>6 DEF Sure, OnTheWay
    <3> QED BY <3>2, <3>3 DEF FreshInv
  <2>7. \A u \in Tickers : Covered(u)' \/ Sure(u)'
    BY <2>5, <2>6
  <2> QED BY <1>6, <2>2, <2>4, <2>7 DEF FreshInv
<1>8. CASE /\ refresh[w].step = "stamped" /\ ~ refresh[w].stamp > want[t] /\ UNCHANGED <<want, open, stray>>
  <2>1. RowsTyped' /\ Dated'
    BY <1>1, <1>2, <1>5, <1>8, IdleRequest DEF FreshInv, RowsTyped, Dated
  <2>2. \A v \in Refreshers, u \in Tickers : Requesting(v, u) => Requesting(v, u)'
    BY <1>0, <1>5, <1>8 DEF Requesting
  <2>3. \A u \in Tickers : Covered(u) => Covered(u)'
    BY <1>8, <2>2 DEF Covered
  <2>4. \A u \in Tickers : Sure(u) => Sure(u)'
    BY <1>1, <1>8 DEF Sure, OnTheWay
  <2> QED BY <1>6, <2>1, <2>3, <2>4 DEF FreshInv
<1>9. CASE stray' = [stray EXCEPT ![t] = TRUE] /\ UNCHANGED <<want, open>>
  <2>1. /\ stray' \in [Tickers -> BOOLEAN] /\ stray'[t] = TRUE
        /\ \A u \in Tickers : u # t => stray'[u] = stray[u]
    BY <1>2, <1>3, <1>9
  <2>2. RowsTyped' /\ Dated'
    BY <1>1, <1>2, <1>5, <1>9, <2>1, IdleRequest DEF FreshInv, RowsTyped, Dated
  <2>3. ASSUME NEW u \in Tickers, u # t PROVE Covered(u)' \/ Sure(u)'
    <3>1. \A v \in Refreshers : Requesting(v, u) => Requesting(v, u)'
      BY <1>0, <1>5, <1>9, <2>3 DEF Requesting
    <3>2. Covered(u) => Covered(u)'
      BY <1>9, <2>1, <2>3, <3>1 DEF Covered
    <3>3. Sure(u) => Sure(u)'
      BY <1>1, <1>9, <2>3 DEF Sure, OnTheWay
    <3> QED BY <3>2, <3>3 DEF FreshInv
  <2>4. Covered(t)'
    BY <1>3, <2>1 DEF Covered
  <2>5. \A u \in Tickers : Covered(u)' \/ Sure(u)'
    BY <2>3, <2>4
  <2> QED BY <1>6, <2>2, <2>5 DEF FreshInv
<1> QED BY <1>1, <1>7, <1>8, <1>9

\* A batch claims a row nobody holds, or one whose lease has run out: what it will
\* read is the present, whatever strayed before.
LEMMA ClaimFresh ==
  ASSUME FreshInv, NEW s \in Batchers, NEW t \in Tickers, ClaimBatch(s, t), PipelineInv'
  PROVE  FreshInv'
<1> DEFINE p == Began({t}, FALSE, "claimed")
<1>1. /\ screen[s].step = "idle" /\ open[t] = TRUE
      /\ began' = [u \in Tickers |-> IF u = t THEN want[u] ELSE began[u]]
      /\ owner' = [owner EXCEPT ![t] = s] /\ screen' = [screen EXCEPT ![s] = p]
      /\ stray' = [stray EXCEPT ![t] = FALSE]
      /\ UNCHANGED <<data, clock, refresh, want, open, snap>>
  <2>1. open[t] = TRUE
    BY DEF ClaimBatch, FreshInv, RowsTyped
  <2> QED BY <2>1 DEF ClaimBatch, Queue!Begin
<1>2. /\ screen \in [Screens -> Progress] /\ s \in Screens
      /\ owner \in [Tickers -> Batchers \cup {NoWorker}]
      /\ want \in [Tickers -> Nat \cup {None}] /\ began \in [Tickers -> Nat \cup {None}]
  BY DEF FreshInv, PipelineInv, Typed, RowsTyped, Screens
<1>3. /\ p.step = "claimed" /\ p.scope = {t} /\ p.full = FALSE /\ p.todo = {t}
      /\ \A u \in Tickers : p.out[u] = NoSnap
  BY DEF Began, IdleScreen
<1> HIDE DEF p
<1>4. /\ screen'[s] = p /\ \A v \in Batchers : v # s => screen'[v] = screen[v]
      /\ owner'[t] = s /\ \A u \in Tickers : u # t => owner'[u] = owner[u]
      /\ owner' \in [Tickers -> Batchers \cup {NoWorker}]
  BY <1>1, <1>2 DEF Screens
<1>5. /\ began'[t] = want[t] /\ \A u \in Tickers : u # t => began'[u] = began[u]
      /\ began' \in [Tickers -> Nat \cup {None}]
  BY <1>1, <1>2
<1>6. RowsTyped' /\ \A u \in Tickers : u # t => stray'[u] = stray[u]
  BY <1>1, <1>4, <1>5 DEF FreshInv, RowsTyped
<1>7. Dated'
  <2>1. \A u \in Tickers : began'[u] = None \/ began'[u] <= want[u]
    BY <1>2, <1>5, Constants DEF FreshInv, Dated
  <2> QED BY <1>1, <2>1 DEF FreshInv, Dated
<1>8. \A u \in Tickers : owner[u] # s
  BY <1>1 DEF FreshInv, Tokens, Held
<1>9. ASSUME NEW v \in Batchers PROVE Held(v)'
  <2>1. CASE v = s
    <3>1. \A u \in Tickers : owner'[u] = v => u \in screen'[v].scope
      BY <1>3, <1>4, <1>8, <2>1
    <3> QED BY <1>3, <1>4, <2>1, <3>1 DEF Held
  <2>2. CASE v # s
    <3>1. Held(v) /\ screen'[v] = screen[v]
      BY <1>4, <2>2 DEF FreshInv, Tokens
    <3>2. \A u \in Tickers : owner'[u] = v => owner[u] = v
      BY <1>4, <2>2
    <3> QED BY <3>1, <3>2 DEF Held
  <2> QED BY <2>1, <2>2
<1>10. Tokens'
  BY <1>1, <1>4, <1>9 DEF FreshInv, Tokens
<1>11. ASSUME NEW u \in Tickers PROVE Covered(u)' \/ Sure(u)'
  <2>1. CASE u = t
    BY <1>1, <1>3, <1>4, <2>1 DEF Sure, OnTheWay
  <2>2. CASE u # t
    <3>1. Covered(u) => Covered(u)'
      BY <1>1, <1>6, <2>2 DEF Covered, Requesting
    <3>2. owner[u] # NoWorker => screen'[owner[u]] = screen[owner[u]]
      BY <1>2, <1>4, <1>8
    <3>3. Sure(u) => Sure(u)'
      BY <1>1, <1>4, <1>5, <2>2, <3>2 DEF Sure, OnTheWay
    <3> QED BY <3>1, <3>3 DEF FreshInv
  <2> QED BY <2>1, <2>2
<1> QED BY <1>6, <1>7, <1>10, <1>11 DEF FreshInv

\* A screening leaves alone the rows it does not hold, unless it makes them stray.
LEMMA AsideFresh ==
  ASSUME FreshInv, NEW s \in Screens,
         \A v \in Batchers : v # s => screen'[v] = screen[v],
         UNCHANGED <<data, clock, refresh, want, began, owner, open>>,
         NEW t \in Tickers, owner[t] # s, stray[t] = TRUE => stray'[t] = TRUE,
         snap'[t] = snap[t] \/ snap'[t].content = data[t] \/ stray'[t] = TRUE
  PROVE  Covered(t)' \/ Sure(t)'
<1>1. Covered(t) => Covered(t)'
  BY DEF Covered, Requesting
<1>2. owner[t] # NoWorker => screen'[owner[t]] = screen[owner[t]]
  BY DEF FreshInv, RowsTyped
<1>3. CASE snap'[t] = snap[t]
  <2>1. Sure(t) => Sure(t)'
    BY <1>2, <1>3 DEF Sure, OnTheWay
  <2> QED BY <1>1, <2>1 DEF FreshInv
<1>4. CASE snap'[t].content = data[t]
  <2>1. Sure(t) => Sure(t)'
    BY <1>2, <1>4 DEF Sure, OnTheWay
  <2> QED BY <1>1, <2>1 DEF FreshInv
<1>5. CASE stray'[t] = TRUE
  BY <1>5 DEF Covered
<1> QED BY <1>3, <1>4, <1>5

\* A batch moves on with its row.
LEMMA WorkFresh ==
  ASSUME FreshInv, NEW s \in Batchers, PipelineInv',
         screen[s].step # "idle",
         \A v \in Batchers : v # s => screen'[v] = screen[v],
         screen'[s].scope = screen[s].scope, screen'[s].full = FALSE,
         screen'[s].step # "idle", screen'[s].todo \subseteq screen[s].scope,
         screen'[s].step \in {"claimed", "cached"} => screen'[s].todo = screen[s].scope,
         \A t \in Tickers : screen'[s].out[t] # NoSnap => t \in screen[s].scope,
         \A t \in screen[s].scope : OnTheWay(screen[s], t) => OnTheWay(screen[s], t)',
         stray' \in [Tickers -> BOOLEAN],
         \A t \in Tickers : stray[t] = TRUE => stray'[t] = TRUE,
         \A t \in Tickers : owner[t] # s =>
           snap'[t] = snap[t] \/ snap'[t].content = data[t] \/ stray'[t] = TRUE,
         UNCHANGED <<data, clock, refresh, want, began, owner, open>>
  PROVE  FreshInv'
<1>1. RowsTyped' /\ Dated'
  BY DEF FreshInv, RowsTyped, Dated
<1>2. Held(s) /\ \A t \in Tickers : owner[t] = s => t \in screen[s].scope
  BY DEF FreshInv, Tokens, Held
<1>3. Held(s)'
  BY <1>2 DEF Held
<1>4. ASSUME NEW v \in Batchers, v # s PROVE Held(v)'
  <2>1. Held(v)
    BY DEF FreshInv, Tokens
  <2> QED BY <1>4, <2>1 DEF Held
<1>5. Tokens'
  BY <1>3, <1>4 DEF FreshInv, Tokens
<1>6. ASSUME NEW t \in Tickers PROVE Covered(t)' \/ Sure(t)'
  <2>1. Covered(t) => Covered(t)'
    BY DEF Covered, Requesting
  <2>2. CASE owner[t] = s
    <3>1. open[t] = TRUE
      BY <2>2, Constants DEF FreshInv, Tokens
    <3>2. t \in screen[s].scope
      BY <1>2, <2>2
    <3>3. Sure(t) => began[t] # want[t] \/ OnTheWay(screen[s], t)
      BY <2>2, <3>1, Constants DEF Sure
    <3>4. Sure(t) => Sure(t)'
      BY <2>2, <3>1, <3>2, <3>3 DEF Sure
    <3> QED BY <2>1, <3>4 DEF FreshInv
  <2>3. CASE owner[t] # s
    BY <2>3, AsideFresh DEF Screens
  <2> QED BY <2>2, <2>3
<1> QED BY <1>1, <1>5, <1>6 DEF FreshInv

\* A run without rows moves on.
LEMMA RunFresh ==
  ASSUME FreshInv, NEW s \in Runners, PipelineInv',
         \A v \in Screens : v # s => screen'[v] = screen[v],
         stray' \in [Tickers -> BOOLEAN],
         \A t \in Tickers : stray[t] = TRUE => stray'[t] = TRUE,
         \A t \in Tickers :
           snap'[t] = snap[t] \/ snap'[t].content = data[t] \/ stray'[t] = TRUE,
         UNCHANGED <<data, clock, refresh, want, began, owner, open>>
  PROVE  FreshInv'
<1>1. RowsTyped' /\ Dated'
  BY DEF FreshInv, RowsTyped, Dated
<1>2. /\ s \in Screens /\ s # NoWorker /\ s \notin Batchers
      /\ \A v \in Batchers : screen'[v] = screen[v]
  BY Constants DEF Screens
<1>3. Tokens'
  BY <1>2 DEF FreshInv, Tokens, Held
<1>4. \A t \in Tickers : owner[t] # s
  BY <1>2 DEF FreshInv, RowsTyped
<1>5. \A t \in Tickers : Covered(t)' \/ Sure(t)'
  BY <1>2, <1>4, AsideFresh
<1> QED BY <1>1, <1>3, <1>5 DEF FreshInv

\* A batch lets go of its row: open again, covered, or settled with the present
\* report published.
LEMMA ReleaseFresh ==
  ASSUME FreshInv, NEW s \in Batchers, PipelineInv',
         screen' = [screen EXCEPT ![s] = IdleScreen],
         owner' = [t \in Tickers |-> IF owner[t] = s THEN NoWorker ELSE owner[t]],
         open' \in [Tickers -> BOOLEAN],
         began' \in [Tickers -> Nat \cup {None}],
         \A t \in Tickers : began'[t] \in {None, began[t]},
         \A t \in Tickers : owner[t] # s => began'[t] = began[t] /\ open'[t] = open[t],
         \A t \in Tickers : owner[t] = s =>
           Covered(t) \/ open'[t] = TRUE \/ snap[t].content = data[t],
         UNCHANGED <<data, clock, refresh, want, snap, stray>>
  PROVE  FreshInv'
<1>1. /\ owner \in [Tickers -> Batchers \cup {NoWorker}] /\ screen \in [Screens -> Progress]
      /\ s \in Screens
  BY DEF FreshInv, RowsTyped, PipelineInv, Typed, Screens
<1>2. /\ screen'[s] = IdleScreen /\ \A v \in Batchers : v # s => screen'[v] = screen[v]
      /\ owner' \in [Tickers -> Batchers \cup {NoWorker}]
      /\ \A t \in Tickers : /\ owner[t] = s => owner'[t] = NoWorker
                            /\ owner[t] # s => owner'[t] = owner[t]
  BY <1>1 DEF Screens
<1>3. RowsTyped'
  BY <1>2 DEF FreshInv, RowsTyped
<1>4. Dated'
  BY DEF FreshInv, Dated
<1>5. Held(s)'
  BY <1>2, IdleParts, Constants DEF Held
<1>6. ASSUME NEW v \in Batchers, v # s PROVE Held(v)'
  <2>1. Held(v) /\ screen'[v] = screen[v]
    BY <1>2, <1>6 DEF FreshInv, Tokens
  <2>2. \A t \in Tickers : owner'[t] = v => owner[t] = v
    BY <1>2, <1>6, Constants
  <2> QED BY <2>1, <2>2 DEF Held
<1>7. \A t \in Tickers : owner'[t] # NoWorker => open'[t] = TRUE
  BY <1>2 DEF FreshInv, Tokens
<1>8. Tokens'
  BY <1>5, <1>6, <1>7 DEF Tokens
<1>9. ASSUME NEW t \in Tickers PROVE Covered(t)' \/ Sure(t)'
  <2>1. Covered(t) => Covered(t)'
    BY DEF Covered, Requesting
  <2>2. CASE owner[t] = s
    <3>1. open'[t] \in BOOLEAN /\ owner'[t] = NoWorker
      BY <1>2, <2>2
    <3>2. open'[t] = TRUE => Sure(t)'
      BY <3>1 DEF Sure
    <3>3. open'[t] = FALSE /\ snap[t].content = data[t] => Sure(t)'
      BY DEF Sure
    <3> QED BY <2>1, <2>2, <3>1, <3>2, <3>3
  <2>3. CASE owner[t] # s
    <3>1. owner[t] # NoWorker => screen'[owner[t]] = screen[owner[t]]
      BY <1>1, <1>2, <2>3
    <3>2. Sure(t) => Sure(t)'
      BY <1>2, <2>3, <3>1 DEF Sure, OnTheWay
    <3> QED BY <2>1, <3>2 DEF FreshInv
  <2> QED BY <2>2, <2>3
<1> QED BY <1>3, <1>4, <1>8, <1>9 DEF FreshInv

\* The fields of the batch that moves on.
LEMMA AtWork ==
  ASSUME FreshInv, NEW s \in Batchers
  PROVE  /\ s \in Screens /\ screen[s] \in Progress /\ HonestWork(screen[s]) /\ Held(s)
         /\ screen \in [Screens -> Progress] /\ data \in [Tickers -> Nat]
         /\ snap \in [Tickers -> AnySnap]
         /\ stray \in [Tickers -> BOOLEAN]
BY DEF FreshInv, RowsTyped, PipelineInv, Typed, HonestScreens, Tokens, Screens

\* The published snapshots are read: nothing is decided yet.
LEMMA ReadCachedFresh ==
  ASSUME FreshInv, NEW s \in Batchers, ReadCached(s), PipelineInv'
  PROVE  FreshInv'
<1>1. /\ s \in Screens /\ screen[s] \in Progress /\ Held(s) /\ screen \in [Screens -> Progress]
      /\ stray \in [Tickers -> BOOLEAN]
  BY AtWork
<1>2. /\ screen[s].step = "claimed"
      /\ \A v \in Batchers : v # s => screen'[v] = screen[v]
      /\ screen'[s].scope = screen[s].scope /\ screen'[s].full = screen[s].full
      /\ screen'[s].step = "cached" /\ screen'[s].todo = screen[s].todo
      /\ screen'[s].out = screen[s].out
      /\ UNCHANGED <<data, clock, refresh, want, began, owner, open, snap, stray>>
  BY <1>1 DEF ReadCached, Progress, Screens, ledger
<1>3. \A t \in screen[s].scope : OnTheWay(screen[s], t)'
  BY <1>2 DEF OnTheWay
<1> QED BY <1>1, <1>2, <1>3, WorkFresh DEF Held

\* The revisions are read: those of the present reports.
LEMMA ReadRevisionsFresh ==
  ASSUME FreshInv, NEW s \in Batchers, ReadRevisions(s), PipelineInv'
  PROVE  FreshInv'
<1>1. /\ s \in Screens /\ screen[s] \in Progress /\ Held(s) /\ screen \in [Screens -> Progress]
      /\ stray \in [Tickers -> BOOLEAN]
  BY AtWork
<1>2. /\ screen[s].step = "cached"
      /\ \A v \in Batchers : v # s => screen'[v] = screen[v]
      /\ screen'[s].scope = screen[s].scope /\ screen'[s].full = screen[s].full
      /\ screen'[s].step = "revised" /\ screen'[s].todo = screen[s].todo
      /\ screen'[s].out = screen[s].out
      /\ screen'[s].dep = [t \in Tickers |-> IF t \in screen[s].scope THEN data[t] ELSE 0]
      /\ UNCHANGED <<data, clock, refresh, want, began, owner, open, snap, stray>>
  BY <1>1 DEF ReadRevisions, Progress, Screens, ledger
<1>3. screen[s].todo = screen[s].scope /\ screen[s].scope \subseteq Tickers
  BY <1>1, <1>2, ProgressParts DEF Held
<1>4. \A t \in screen[s].scope : OnTheWay(screen[s], t)'
  BY <1>2, <1>3 DEF OnTheWay
<1> QED BY <1>1, <1>2, <1>3, <1>4, WorkFresh DEF Held

\* A ticker is assessed: taken over under the present revision, which vouches for
\* it, computed from the present report, or without result.
LEMMA AssessFresh ==
  ASSUME FreshInv, NEW s \in Batchers, NEW t \in Tickers, Assess(s, t), PipelineInv'
  PROVE  FreshInv'
<1>1. /\ s \in Screens /\ screen[s] \in Progress /\ Held(s) /\ screen \in [Screens -> Progress]
      /\ stray \in [Tickers -> BOOLEAN]
      /\ HonestWork(screen[s]) /\ data \in [Tickers -> Nat]
  BY AtWork
<1>2. PICK result \in Snaps :
        /\ IF Reusable(s, t) THEN result = screen[s].cached[t]
           ELSE result = [content |-> data[t], dep |-> screen[s].dep[t]] \/ result = NoSnap
        /\ screen' = [screen EXCEPT ![s].todo = @ \ {t}, ![s].out[t] = result]
  BY DEF Assess
<1>3. /\ screen[s].step = "revised" /\ t \in screen[s].todo
      /\ \A v \in Batchers : v # s => screen'[v] = screen[v]
      /\ screen'[s].scope = screen[s].scope /\ screen'[s].full = screen[s].full
      /\ screen'[s].step = "revised" /\ screen'[s].todo = screen[s].todo \ {t}
      /\ screen'[s].out = [screen[s].out EXCEPT ![t] = result]
      /\ screen'[s].dep = screen[s].dep
      /\ UNCHANGED <<data, clock, refresh, want, began, owner, open, snap, stray>>
  BY <1>1, <1>2 DEF Assess, Progress, Screens, ledger
<1>4. /\ screen'[s].out[t] = result /\ \A u \in Tickers : u # t => screen'[s].out[u] = screen[s].out[u]
      /\ screen[s].scope \subseteq Tickers /\ screen[s].todo \subseteq screen[s].scope
  BY <1>1, <1>3, ProgressParts DEF Held
<1>5. screen[s].dep[t] = data[t] => result = NoSnap \/ result.content = data[t]
  <2>1. CASE Reusable(s, t)
    <3>1. /\ screen[s].cached[t] \in AnySnap /\ screen[s].cached[t] # NoSnap
          /\ screen[s].cached[t].dep = screen[s].dep[t] /\ Honest(screen[s].cached[t], t)
          /\ result = screen[s].cached[t] /\ data[t] \in Nat
      BY <1>1, <1>2, <2>1, ProgressParts DEF Reusable, HonestWork
    <3>2. result.dep \in Nat /\ result.content \in Nat /\ result.dep <= result.content /\ result.content <= data[t]
      BY <3>1 DEF AnySnap, Honest
    <3> QED BY <3>1, <3>2
  <2>2. CASE ~ Reusable(s, t)
    BY <1>2, <2>2
  <2> QED BY <2>1, <2>2
<1>6. ASSUME NEW u \in screen[s].scope, OnTheWay(screen[s], u) PROVE OnTheWay(screen[s], u)'
  <2>1. CASE u = t
    BY <1>3, <1>4, <1>5, <1>6, <2>1 DEF OnTheWay
  <2>2. CASE u # t
    BY <1>3, <1>4, <1>6, <2>2 DEF OnTheWay
  <2> QED BY <2>1, <2>2
<1>7. \A u \in Tickers : screen'[s].out[u] # NoSnap => u \in screen[s].scope
  BY <1>1, <1>3, <1>4 DEF Held
<1> QED BY <1>1, <1>3, <1>4, <1>6, <1>7, WorkFresh DEF Held

\* What a publication changes: for a row of another process it is of the present
\* report, or the ticker strays.
LEMMA PublishedAside ==
  ASSUME FreshInv, NEW s \in Screens, Publish(s)
  PROVE  /\ stray' \in [Tickers -> BOOLEAN]
         /\ \A t \in Tickers : stray[t] = TRUE => stray'[t] = TRUE
         /\ \A t \in Tickers : owner[t] # s =>
              snap'[t] = snap[t] \/ snap'[t].content = data[t] \/ stray'[t] = TRUE
<1>1. stray' = [t \in Tickers |-> stray[t] \/ Strays(s, t)]
  BY DEF Publish
<1>2. \A t \in Tickers : stray[t] \in BOOLEAN /\ stray'[t] = (stray[t] \/ Strays(s, t))
  BY <1>1 DEF FreshInv, RowsTyped
<1>3. stray' \in [Tickers -> BOOLEAN]
  <2>1. \A t \in Tickers : (stray[t] \/ Strays(s, t)) \in BOOLEAN
    OBVIOUS
  <2> QED BY <1>1, <2>1
<1>4. \A t \in Tickers : stray[t] = TRUE \/ Strays(s, t) => stray'[t] = TRUE
  BY <1>2
<1>5. ASSUME NEW t \in Tickers, owner[t] # s, snap'[t] # snap[t], snap'[t].content # data[t]
      PROVE  stray'[t] = TRUE
  BY <1>4, <1>5 DEF Strays
<1> QED BY <1>3, <1>4, <1>5

\* The result is published by a batch.
LEMMA PublishFresh ==
  ASSUME FreshInv, NEW s \in Batchers, Publish(s), PipelineInv'
  PROVE  FreshInv'
<1>1. /\ s \in Screens /\ screen[s] \in Progress /\ Held(s) /\ screen \in [Screens -> Progress]
      /\ stray \in [Tickers -> BOOLEAN]
      /\ snap \in [Tickers -> AnySnap]
  BY AtWork
<1> DEFINE p == [IdleScreen EXCEPT !.step = "published", !.scope = screen[s].scope, !.out = screen[s].out]
<1>2. /\ p.step = "published" /\ p.scope = screen[s].scope /\ p.out = screen[s].out
      /\ p.full = FALSE /\ p.todo = {}
  BY DEF IdleScreen
<1>3. /\ screen[s].step = "revised" /\ screen[s].todo = {} /\ screen' = [screen EXCEPT ![s] = p]
      /\ snap' = IF \E t \in Tickers : screen[s].out[t] # NoSnap THEN Published(s) ELSE snap
      /\ UNCHANGED <<data, clock, refresh, want, began, owner, open>>
  BY <1>1 DEF Publish, ledger
<1> HIDE DEF p
<1>4. screen'[s] = p /\ \A v \in Batchers : v # s => screen'[v] = screen[v]
  BY <1>1, <1>3 DEF Screens
<1>5. \A t \in Tickers : snap'[t] = IF screen[s].out[t] # NoSnap THEN screen[s].out[t] ELSE snap[t]
  BY <1>1, <1>3 DEF Published, Held
<1>6. /\ stray' \in [Tickers -> BOOLEAN]
      /\ \A t \in Tickers : stray[t] = TRUE => stray'[t] = TRUE
      /\ \A t \in Tickers : owner[t] # s =>
           snap'[t] = snap[t] \/ snap'[t].content = data[t] \/ stray'[t] = TRUE
  BY <1>1, PublishedAside
<1>7. ASSUME NEW t \in screen[s].scope, OnTheWay(screen[s], t) PROVE OnTheWay(screen[s], t)'
  <2>1. t \in Tickers
    BY <1>1, ProgressParts
  <2>2. screen[s].out[t] = NoSnap \/ screen[s].out[t].content = data[t]
    BY <1>3, <1>7 DEF OnTheWay
  <2>3. screen'[s].out[t] = screen[s].out[t] /\ screen'[s].step = "published" /\ data'[t] = data[t]
    BY <1>2, <1>3, <1>4
  <2>4. screen'[s].out[t] = NoSnap \/ snap'[t].content = data'[t]
    <3>1. CASE screen[s].out[t] = NoSnap
      BY <2>3, <3>1
    <3>2. CASE screen[s].out[t] # NoSnap
      <4>1. snap'[t] = screen[s].out[t]
        BY <1>5, <2>1, <3>2
      <4> QED BY <2>2, <2>3, <3>2, <4>1
    <3> QED BY <3>1, <3>2
  <2> QED BY <2>3, <2>4 DEF OnTheWay
<1>8. /\ screen[s].step # "idle" /\ screen'[s].step = "published" /\ screen'[s].scope = screen[s].scope
      /\ screen'[s].full = FALSE /\ screen'[s].todo \subseteq screen[s].scope
  BY <1>2, <1>3, <1>4
<1>9. \A t \in Tickers : screen'[s].out[t] # NoSnap => t \in screen[s].scope
  BY <1>1, <1>2, <1>4 DEF Held
<1> QED BY <1>1, <1>3, <1>4, <1>6, <1>7, <1>8, <1>9, WorkFresh

\* A screening ends in an error: without result.
LEMMA AbortFresh ==
  ASSUME FreshInv, NEW s \in Batchers, BatchAborts(s), PipelineInv'
  PROVE  FreshInv'
<1>1. screen[s] \in Progress /\ Held(s) /\ screen \in [Screens -> Progress] /\ stray \in [Tickers -> BOOLEAN]
  BY AtWork
<1> DEFINE p == [IdleScreen EXCEPT !.step = "published", !.scope = screen[s].scope]
<1>2. /\ p.step = "published" /\ p.scope = screen[s].scope /\ \A t \in Tickers : p.out[t] = NoSnap
      /\ p.full = FALSE /\ p.todo = {}
  BY DEF IdleScreen
<1>3. /\ screen[s].step # "idle" /\ screen' = [screen EXCEPT ![s] = p]
      /\ UNCHANGED <<data, clock, refresh, want, began, owner, open, snap, stray>>
  BY DEF BatchAborts, ledger
<1> HIDE DEF p
<1>4. screen'[s] = p /\ \A v \in Batchers : v # s => screen'[v] = screen[v]
  BY <1>1, <1>3 DEF Screens
<1>5. \A t \in screen[s].scope : OnTheWay(screen[s], t)'
  BY <1>1, <1>2, <1>4, ProgressParts DEF OnTheWay
<1> QED BY <1>1, <1>2, <1>3, <1>4, <1>5, WorkFresh DEF Held

\* A batch that still holds its row is finished: settled for what it began from, or
\* handed back.
LEMMA FinishFresh ==
  ASSUME FreshInv, NEW s \in Batchers, FinishBatch(s), PipelineInv',
         \E t \in screen[s].scope : owner[t] = s
  PROVE  FreshInv'
<1>1. screen[s] \in Progress /\ Held(s)
  BY AtWork
<1>2. /\ owner \in [Tickers -> Batchers \cup {NoWorker}] /\ open \in [Tickers -> BOOLEAN]
      /\ began \in [Tickers -> Nat \cup {None}]
  BY DEF FreshInv, RowsTyped
<1>3. PICK t \in screen[s].scope :
        /\ t \in Tickers /\ owner[t] = s /\ \A u \in Tickers : owner[u] = s <=> u = t
        /\ owner' = [owner EXCEPT ![t] = NoWorker]
        /\ \/ /\ want[t] = began[t] /\ began' = [began EXCEPT ![t] = None] /\ want' = want
              /\ open' = [open EXCEPT ![t] = screen[s].out[t] = NoSnap]
           \/ /\ began' = [u \in Tickers |-> IF u \in {t} THEN None ELSE began[u]]
              /\ open' = open /\ want' = want
  <2>1. \A t \in screen[s].scope : t \in Tickers /\ owner[t] = s /\ \A u \in Tickers : owner[u] = s <=> u = t
    <3>1. PICK u \in screen[s].scope : owner[u] = s
      OBVIOUS
    <3>2. \A t \in screen[s].scope : t \in Tickers /\ t = u
      BY <1>1, <3>1, ProgressParts DEF Held
    <3>3. \A v \in Tickers : owner[v] = s => v = u
      BY <1>1, <3>2 DEF Held
    <3> QED BY <3>1, <3>2, <3>3
  <2> QED BY <2>1, Constants DEF FinishBatch, Queue!Settle, Queue!Drop
<1>4. /\ screen[s].step = "published" /\ screen' = [screen EXCEPT ![s] = IdleScreen]
      /\ UNCHANGED <<data, clock, refresh, want, snap, stray>>
  BY <1>3 DEF FinishBatch
<1>5. owner' = [u \in Tickers |-> IF owner[u] = s THEN NoWorker ELSE owner[u]]
  BY <1>2, <1>3
<1>6. open[t] = TRUE
  BY <1>3, Constants DEF FreshInv, Tokens
<1>7. /\ open' \in [Tickers -> BOOLEAN] /\ began' \in [Tickers -> Nat \cup {None}]
      /\ \A u \in Tickers : u # t => began'[u] = began[u] /\ open'[u] = open[u]
      /\ \A u \in Tickers : began'[u] \in {None, began[u]}
      /\ \/ open'[t] = TRUE
         \/ want[t] = began[t] /\ screen[s].out[t] # NoSnap
  <2>1. (screen[s].out[t] = NoSnap) \in BOOLEAN
    OBVIOUS
  <2>2. CASE /\ want[t] = began[t] /\ began' = [began EXCEPT ![t] = None]
             /\ open' = [open EXCEPT ![t] = screen[s].out[t] = NoSnap]
    BY <1>2, <1>3, <2>1, <2>2
  <2>3. CASE /\ began' = [u \in Tickers |-> IF u \in {t} THEN None ELSE began[u]] /\ open' = open
    BY <1>2, <1>3, <1>6, <2>3
  <2> QED BY <1>3, <2>2, <2>3
<1>8. Covered(t) \/ open'[t] = TRUE \/ snap[t].content = data[t]
  <2>1. Covered(t) \/ Sure(t)
    BY <1>3 DEF FreshInv
  <2> QED BY <1>3, <1>4, <1>6, <1>7, <2>1, Constants DEF Sure, OnTheWay
<1>9. \A u \in Tickers : owner[u] = s => Covered(u) \/ open'[u] = TRUE \/ snap[u].content = data[u]
  BY <1>3, <1>8
<1>10. \A u \in Tickers : owner[u] # s => began'[u] = began[u] /\ open'[u] = open[u]
  BY <1>3, <1>7
<1> QED BY <1>4, <1>5, <1>7, <1>9, <1>10, ReleaseFresh

\* A batch that has lost its row changes nothing but itself.
LEMMA RefusedFresh ==
  ASSUME FreshInv, NEW s \in Batchers, FinishBatch(s), PipelineInv',
         \A t \in screen[s].scope : owner[t] # s
  PROVE  FreshInv'
<1>1. Held(s)
  BY AtWork
<1>2. /\ owner \in [Tickers -> Batchers \cup {NoWorker}] /\ open \in [Tickers -> BOOLEAN]
      /\ began \in [Tickers -> Nat \cup {None}]
  BY DEF FreshInv, RowsTyped
<1>3. /\ screen' = [screen EXCEPT ![s] = IdleScreen]
      /\ UNCHANGED <<data, clock, refresh, want, began, open, owner, snap, stray>>
  BY DEF FinishBatch, ledger
<1>4. \A t \in Tickers : owner[t] # s
  BY <1>1 DEF Held
<1>5. owner' = [u \in Tickers |-> IF owner[u] = s THEN NoWorker ELSE owner[u]]
  BY <1>2, <1>3, <1>4
<1> QED BY <1>2, <1>3, <1>4, <1>5, ReleaseFresh

\* A batch dies: its row is free again.
LEMMA DiesFresh ==
  ASSUME FreshInv, NEW s \in Batchers, ScreenDies(s), PipelineInv'
  PROVE  FreshInv'
<1>1. s \in Batchers
  OBVIOUS
<1>2. /\ owner \in [Tickers -> Batchers \cup {NoWorker}] /\ open \in [Tickers -> BOOLEAN]
      /\ began \in [Tickers -> Nat \cup {None}]
  BY DEF FreshInv, RowsTyped
<1>3. /\ screen' = [screen EXCEPT ![s] = IdleScreen]
      /\ owner' = [t \in Tickers |-> IF owner[t] = s THEN NoWorker ELSE owner[t]]
      /\ began' = [t \in Tickers |-> IF owner[t] = s THEN None ELSE began[t]]
      /\ UNCHANGED <<data, clock, refresh, want, open, snap, stray>>
  BY Constants DEF ScreenDies, Queue!Drop
<1>4. /\ began' \in [Tickers -> Nat \cup {None}]
      /\ \A t \in Tickers : began'[t] \in {None, began[t]}
      /\ \A t \in Tickers : owner[t] # s => began'[t] = began[t]
  BY <1>2, <1>3
<1>5. \A t \in Tickers : owner[t] = s => open[t] = TRUE
  BY <1>1, Constants DEF FreshInv, Tokens
<1> QED BY <1>1, <1>2, <1>3, <1>4, <1>5, ReleaseFresh

\* A run without rows starts, reads, assesses, publishes or ends.
LEMMA RunnerFresh ==
  ASSUME FreshInv, NEW s \in Runners, PipelineInv',
         FullRun(s) \/ DetailRun(s) \/ Proceed(s) \/ ScreenDies(s)
  PROVE  FreshInv'
<1>1. /\ s \in Screens /\ screen \in [Screens -> Progress] /\ stray \in [Tickers -> BOOLEAN]
      /\ owner \in [Tickers -> Batchers \cup {NoWorker}]
      /\ began \in [Tickers -> Nat \cup {None}]
      /\ s \notin Batchers /\ s # NoWorker
  BY Constants DEF FreshInv, RowsTyped, PipelineInv, Typed, Screens
<1>2. \A t \in Tickers : owner[t] # s
  BY <1>1
<1>3. CASE FullRun(s) \/ DetailRun(s)
  <2>1. PICK scope, full : StartRun(s, scope, full)
    BY <1>3 DEF FullRun, DetailRun
  <2>2. /\ \A v \in Screens : v # s => screen'[v] = screen[v]
        /\ UNCHANGED <<data, clock, refresh, want, began, owner, open, snap, stray>>
    BY <1>1, <2>1 DEF StartRun, ledger
  <2> QED BY <1>1, <2>2, RunFresh
<1>4. CASE ReadCached(s) \/ ReadRevisions(s) \/ AssessSome(s)
  <2>1. /\ \A v \in Screens : v # s => screen'[v] = screen[v]
        /\ UNCHANGED <<data, clock, refresh, want, began, owner, open, snap, stray>>
    BY <1>1, <1>4 DEF ReadCached, ReadRevisions, AssessSome, Assess, ledger
  <2> QED BY <1>1, <2>1, RunFresh
<1>5. CASE Publish(s)
  <2>1. /\ \A v \in Screens : v # s => screen'[v] = screen[v]
        /\ UNCHANGED <<data, clock, refresh, want, began, owner, open>>
    BY <1>1, <1>5 DEF Publish, ledger
  <2>2. /\ stray' \in [Tickers -> BOOLEAN]
        /\ \A t \in Tickers : stray[t] = TRUE => stray'[t] = TRUE
        /\ \A t \in Tickers :
             snap'[t] = snap[t] \/ snap'[t].content = data[t] \/ stray'[t] = TRUE
    BY <1>1, <1>2, <1>5, PublishedAside
  <2> QED BY <2>1, <2>2, RunFresh
<1>6. CASE ScreenDies(s)
  <2>1. /\ screen' = [screen EXCEPT ![s] = IdleScreen]
        /\ owner' = [t \in Tickers |-> IF owner[t] = s THEN NoWorker ELSE owner[t]]
        /\ began' = [t \in Tickers |-> IF owner[t] = s THEN None ELSE began[t]]
        /\ UNCHANGED <<data, clock, refresh, want, open, snap, stray>>
    BY <1>6, Constants DEF ScreenDies, Queue!Drop
  <2>2. /\ \A v \in Screens : v # s => screen'[v] = screen[v]
        /\ owner' = owner /\ began' = began
    BY <1>1, <1>2, <2>1
  <2> QED BY <1>1, <2>1, <2>2, RunFresh
<1> QED BY <1>3, <1>4, <1>5, <1>6 DEF Proceed

\* Nothing is wanted: everything is covered.
LEMMA InitFresh == ASSUME Init PROVE FreshInv
<1>1. PipelineInv
  BY HonestInit
<1>2. RowsTyped
  <2>1. /\ want = [t \in Tickers |-> None] /\ began = [t \in Tickers |-> None]
    BY Constants DEF Init, Queue!Init
  <2>2. /\ want \in [Tickers -> Nat \cup {None}] /\ began \in [Tickers -> Nat \cup {None}]
    BY <2>1
  <2>3. refresh \in [Refreshers -> Requests] /\ clock \in Nat
    BY IdleRequest DEF Init
  <2>4. /\ owner \in [Tickers -> Batchers \cup {NoWorker}]
        /\ open \in [Tickers -> BOOLEAN] /\ stray \in [Tickers -> BOOLEAN]
    BY DEF Init
  <2> QED BY <2>2, <2>3, <2>4 DEF RowsTyped
<1>3. Dated
  BY IdleRequest, Constants DEF Init, Dated, Queue!Init
<1>4. Tokens
  BY IdleParts, Constants DEF Init, Tokens, Held, Screens
<1>5. \A t \in Tickers : Covered(t)
  BY Constants DEF Init, Covered, Queue!Init
<1> QED BY <1>1, <1>2, <1>3, <1>4, <1>5 DEF FreshInv

\* Every step keeps the invariant.
LEMMA StepFresh == ASSUME FreshInv, [Next]_vars PROVE FreshInv'
<1>1. PipelineInv'
  BY HonestStep DEF FreshInv
<1>2. CASE UNCHANGED vars
  BY <1>1, <1>2 DEF vars, ledger, FreshInv, RowsTyped, Dated, Tokens, Held, Covered, Requesting, Sure, OnTheWay
<1>3. ASSUME NEW w \in Refreshers, StoreSome(w) \/ Stamp(w) \/ Request(w) \/ RefresherDies(w) PROVE FreshInv'
  BY <1>1, <1>3, StoreFresh, StampFresh, RequestFresh DEF StoreSome
<1>4. ASSUME NEW t \in Tickers, StoreAside(t) PROVE FreshInv'
  BY <1>1, <1>4, StoreAsideFresh
<1>5. ASSUME NEW s \in Batchers, ClaimSome(s) \/ BatchAborts(s) PROVE FreshInv'
  BY <1>1, <1>5, ClaimFresh, AbortFresh DEF ClaimSome
<1>6. ASSUME NEW s \in Batchers, FinishBatch(s) PROVE FreshInv'
  BY <1>1, <1>6, FinishFresh, RefusedFresh
<1>7. ASSUME NEW s \in Batchers, Proceed(s) \/ ScreenDies(s) PROVE FreshInv'
  BY <1>1, <1>7, ReadCachedFresh, ReadRevisionsFresh, AssessFresh, PublishFresh, DiesFresh DEF Proceed, AssessSome
<1>8. ASSUME NEW s \in Runners, FullRun(s) \/ DetailRun(s) \/ Proceed(s) \/ ScreenDies(s) PROVE FreshInv'
  BY <1>1, <1>8, RunnerFresh
<1> QED BY <1>2, <1>3, <1>4, <1>5, <1>6, <1>7, <1>8 DEF Next, Screens

\* At rest a ticker is not covered, so it is sure and settled.
LEMMA FreshSuffices == FreshInv => SettledIsFresh
<1> SUFFICES ASSUME FreshInv, NEW t \in Tickers, AtRest(t), ~ stray[t] PROVE snap[t].content = data[t]
  BY DEF SettledIsFresh
<1>1. open[t] = FALSE /\ stray[t] = FALSE
  BY DEF AtRest, FreshInv, RowsTyped
<1>2. ~ Covered(t)
  BY <1>1 DEF AtRest, Covered, Requesting
<1>3. Sure(t)
  BY <1>2 DEF FreshInv
<1> QED BY <1>1, <1>3 DEF Sure

\* A settled assessment was computed from the newest fundamentals, unless since its
\* row was last claimed a refresher has died before its request, fundamentals were
\* changed aside, or a screening without the row has published over it (the order of
\* write, reading of the clock and request in refresh_report_data.py, the order of
\* reads in screen_universe() and the revision check of finish()).
THEOREM SettledIsFreshCorrect == Spec => []SettledIsFresh
<1>1. Init => FreshInv
  BY InitFresh
<1>2. FreshInv /\ [Next]_vars => FreshInv'
  BY StepFresh
<1>3. FreshInv => SettledIsFresh
  BY FreshSuffices
<1> QED BY <1>1, <1>2, <1>3, PTL DEF Spec
=============================================================================
