--------------------- MODULE AssessmentPipeline_proofs ---------------------
(***************************************************************************)
(* A dependency hash never vouches for old content, for every number of     *)
(* tickers, refreshers, batchers and runs and every pattern of faults: the  *)
(* hash is read before the inputs, and versions only grow.  The types hold  *)
(* with their bounds: the clock is read at most once for every change.      *)
(***************************************************************************)
EXTENDS AssessmentPipeline, FiniteSetTheorems, TLAPS

AnySnap == [content : Nat, dep : Nat] \cup {NoSnap}

Progress == [step   : {"idle", "claimed", "cached", "revised", "published"},
             scope  : SUBSET Tickers,
             full   : BOOLEAN,
             todo   : SUBSET Tickers,
             cached : [Tickers -> AnySnap],
             dep    : [Tickers -> Nat],
             out    : [Tickers -> AnySnap]]

Typed ==
  /\ data \in [Tickers -> Nat]
  /\ snap \in [Tickers -> AnySnap]
  /\ screen \in [Screens -> Progress]

\* A snapshot of t whose hash is no newer than its content, and whose content
\* is no newer than the inputs.
Honest(x, t) == x # NoSnap => x.dep <= x.content /\ x.content <= data[t]

\* What a screening process has in its hands.
HonestWork(p) ==
  \A t \in Tickers : /\ Honest(p.cached[t], t)
                     /\ Honest(p.out[t], t)
                     /\ p.dep[t] <= data[t]

HonestSnaps   == \A t \in Tickers : Honest(snap[t], t)
HonestScreens == \A s \in Screens : HonestWork(screen[s])

PipelineInv == Typed /\ HonestSnaps /\ HonestScreens

\* Honest snapshots are current when their hash is.
LEMMA HonestSuffices == Typed /\ HonestSnaps => MatchingHashMeansCurrent
<1> SUFFICES ASSUME Typed, HonestSnaps, NEW t \in Tickers, snap[t].dep = data[t]
             PROVE  snap[t].content = data[t]
  BY DEF MatchingHashMeansCurrent
<1>1. data[t] \in Nat /\ snap[t] \in AnySnap
  BY DEF Typed
<1>2. snap[t] # NoSnap
  BY <1>1 DEF NoSnap, None
<1> QED
  BY <1>1, <1>2 DEF HonestSnaps, Honest, AnySnap

\* An idle process has nothing in its hands.
LEMMA IdleIsHonest ==
  ASSUME Typed
  PROVE  IdleScreen \in Progress /\ HonestWork(IdleScreen)
<1>1. IdleScreen \in Progress
  BY DEF IdleScreen, Progress, AnySnap
<1>2. HonestWork(IdleScreen)
  BY DEF IdleScreen, HonestWork, Honest, Typed
<1> QED
  BY <1>1, <1>2

\* A process that takes a scope has still read nothing.
LEMMA BeganIsHonest ==
  ASSUME Typed, NEW scope \in SUBSET Tickers, NEW full \in BOOLEAN
  PROVE  Began(scope, full, "claimed") \in Progress
         /\ HonestWork(Began(scope, full, "claimed"))
BY IdleIsHonest DEF Began, Progress, IdleScreen, HonestWork

\* One process moves on; data and snapshots stay.
LEMMA ScreenStep ==
  ASSUME PipelineInv, NEW s \in Screens, NEW p \in Progress, HonestWork(p),
         screen' = [screen EXCEPT ![s] = p], UNCHANGED <<data, snap>>
  PROVE  PipelineInv'
BY DEF PipelineInv, Typed, HonestSnaps, HonestScreens, HonestWork, Honest

\* New fundamentals only raise the version everything is compared with.
LEMMA StoreStep ==
  ASSUME PipelineInv, NEW t \in Tickers, data' = [data EXCEPT ![t] = @ + 1],
         UNCHANGED <<snap, screen>>
  PROVE  PipelineInv'
<1>1. \A u \in Tickers : data[u] \in Nat /\ data'[u] \in Nat /\ data[u] <= data'[u]
  BY DEF PipelineInv, Typed
<1>2. Typed'
  BY <1>1 DEF PipelineInv, Typed
<1>3. ASSUME NEW x \in AnySnap, NEW u \in Tickers, Honest(x, u)
      PROVE  Honest(x, u)'
  BY <1>1, <1>3 DEF Honest, AnySnap
<1>4. HonestSnaps'
  BY <1>3 DEF PipelineInv, Typed, HonestSnaps
<1>5. ASSUME NEW s \in Screens PROVE HonestWork(screen[s])'
  <2>1. screen[s] \in Progress /\ screen'[s] = screen[s] /\ HonestWork(screen[s])
    BY DEF PipelineInv, Typed, HonestScreens
  <2>2. ASSUME NEW u \in Tickers
        PROVE  /\ Honest(screen[s].cached[u], u)'
               /\ Honest(screen[s].out[u], u)'
               /\ screen[s].dep[u] <= data'[u]
    <3>1. /\ screen[s].cached[u] \in AnySnap
          /\ screen[s].out[u] \in AnySnap
          /\ screen[s].dep[u] \in Nat
      BY <2>1 DEF Progress
    <3>2. /\ Honest(screen[s].cached[u], u)
          /\ Honest(screen[s].out[u], u)
          /\ screen[s].dep[u] <= data[u]
      BY <2>1 DEF HonestWork
    <3>3. screen[s].dep[u] <= data'[u]
      BY <1>1, <3>1, <3>2
    <3>4. Honest(screen[s].cached[u], u)'
      BY <1>1, <2>1, <3>1, <3>2 DEF Honest, AnySnap
    <3>5. Honest(screen[s].out[u], u)'
      BY <1>1, <2>1, <3>1, <3>2 DEF Honest, AnySnap
    <3> QED
      BY <3>3, <3>4, <3>5
  <2> QED
    BY <2>1, <2>2 DEF HonestWork
<1> QED
  BY <1>2, <1>4, <1>5 DEF PipelineInv, HonestScreens

\* The cached snapshots are copies of published ones.
LEMMA ReadCachedStep ==
  ASSUME PipelineInv, NEW s \in Screens, ReadCached(s)
  PROVE  PipelineInv'
<1> DEFINE cached == [t \in Tickers |->
                        IF t \in screen[s].scope THEN snap[t] ELSE NoSnap]
           p == [screen[s] EXCEPT !.step = "cached", !.cached = cached]
<1>1. screen[s] \in Progress /\ HonestWork(screen[s])
  BY DEF PipelineInv, Typed, HonestScreens
<1>2. cached \in [Tickers -> AnySnap]
  BY DEF PipelineInv, Typed, AnySnap
<1>3. p \in Progress
  BY <1>1, <1>2 DEF Progress
<1>4. HonestWork(p)
  BY <1>1 DEF HonestWork, Progress, PipelineInv, HonestSnaps, Honest
<1>5. screen' = [screen EXCEPT ![s] = p] /\ UNCHANGED <<data, snap>>
  BY DEF ReadCached, PipelineInv, Typed
<1> QED
  BY <1>3, <1>4, <1>5, ScreenStep

\* The hashes read are those of the present inputs.
LEMMA ReadRevisionsStep ==
  ASSUME PipelineInv, NEW s \in Screens, ReadRevisions(s)
  PROVE  PipelineInv'
<1> DEFINE dep == [t \in Tickers |-> IF t \in screen[s].scope THEN data[t] ELSE 0]
           p == [screen[s] EXCEPT !.step = "revised", !.dep = dep]
<1>1. screen[s] \in Progress /\ HonestWork(screen[s])
  BY DEF PipelineInv, Typed, HonestScreens
<1>2. dep \in [Tickers -> Nat] /\ \A t \in Tickers : dep[t] <= data[t]
  BY DEF PipelineInv, Typed
<1>3. p \in Progress
  BY <1>1, <1>2 DEF Progress
<1>4. HonestWork(p)
  BY <1>1, <1>2 DEF HonestWork, Progress
<1>5. screen' = [screen EXCEPT ![s] = p] /\ UNCHANGED <<data, snap>>
  BY DEF ReadRevisions, PipelineInv, Typed
<1> QED
  BY <1>3, <1>4, <1>5, ScreenStep

\* A result is an honest cached snapshot, or computed from the inputs of now
\* under a hash read before.
LEMMA AssessStep ==
  ASSUME PipelineInv, NEW s \in Screens, NEW t \in Tickers, Assess(s, t)
  PROVE  PipelineInv'
<1>1. screen[s] \in Progress /\ HonestWork(screen[s]) /\ data[t] \in Nat
  BY DEF PipelineInv, Typed, HonestScreens
<1>2. PICK result \in Snaps :
        /\ \/ result = screen[s].cached[t]
           \/ result = [content |-> data[t], dep |-> screen[s].dep[t]]
           \/ result = NoSnap
        /\ screen' = [screen EXCEPT ![s].todo = @ \ {t}, ![s].out[t] = result]
  BY DEF Assess
<1> DEFINE p == [screen[s] EXCEPT !.todo = @ \ {t}, !.out = [@ EXCEPT ![t] = result]]
<1>3. /\ screen[s].dep[t] \in Nat
      /\ screen[s].dep[t] <= data[t]
      /\ screen[s].cached[t] \in AnySnap
      /\ Honest(screen[s].cached[t], t)
  BY <1>1 DEF Progress, HonestWork
<1>4. result \in AnySnap /\ Honest(result, t)
  <2>1. CASE result = screen[s].cached[t]
    BY <1>3, <2>1
  <2>2. CASE result = [content |-> data[t], dep |-> screen[s].dep[t]]
    BY <1>1, <1>3, <2>2 DEF AnySnap, Honest
  <2>3. CASE result = NoSnap
    BY <2>3 DEF AnySnap, Honest
  <2> QED
    BY <1>2, <2>1, <2>2, <2>3
<1>5. p \in Progress
  BY <1>1, <1>4 DEF Progress
<1>6. /\ p.cached = screen[s].cached
      /\ p.dep = screen[s].dep
      /\ p.out = [screen[s].out EXCEPT ![t] = result]
  BY <1>1 DEF Progress
<1>7. HonestWork(p)
  BY <1>1, <1>4, <1>6 DEF HonestWork, Progress
<1>8. screen' = [screen EXCEPT ![s] = p] /\ UNCHANGED <<data, snap>>
  BY <1>1, <1>2 DEF Assess, PipelineInv, Typed, Progress
<1> QED
  BY <1>5, <1>7, <1>8, ScreenStep

\* A publication replaces snapshots by honest results only.
LEMMA PublishStep ==
  ASSUME PipelineInv, NEW s \in Screens, Publish(s)
  PROVE  PipelineInv'
<1>1. screen[s] \in Progress /\ HonestWork(screen[s])
  BY DEF PipelineInv, Typed, HonestScreens
<1>2. Published(s) \in [Tickers -> AnySnap]
  BY <1>1 DEF Published, Progress, PipelineInv, Typed, AnySnap
<1>3. \A t \in Tickers : Honest(Published(s)[t], t)
  BY <1>1 DEF Published, HonestWork, PipelineInv, HonestSnaps, Honest
<1>4. /\ snap' \in {snap, Published(s)}
      /\ data' = data
  BY DEF Publish
<1> DEFINE handed == [IdleScreen EXCEPT !.step = "published",
                       !.scope = screen[s].scope, !.out = screen[s].out]
           p == IF s \in Batchers THEN handed ELSE IdleScreen
<1>5. IdleScreen \in Progress /\ HonestWork(IdleScreen)
  BY IdleIsHonest DEF PipelineInv
<1>6. handed \in Progress /\ HonestWork(handed)
  BY <1>1, <1>5 DEF Progress, IdleScreen, HonestWork
<1>7. p \in Progress /\ HonestWork(p)
  BY <1>5, <1>6
<1>8. screen' = [screen EXCEPT ![s] = p]
  BY DEF Publish
<1> HIDE DEF p
<1>9. Typed'
  BY <1>2, <1>4, <1>7, <1>8 DEF PipelineInv, Typed
<1>10. HonestSnaps'
  BY <1>3, <1>4 DEF PipelineInv, HonestSnaps, Honest
<1>11. HonestScreens'
  BY <1>4, <1>7, <1>8 DEF PipelineInv, Typed, HonestScreens, HonestWork, Honest
<1> QED
  BY <1>9, <1>10, <1>11 DEF PipelineInv

\* Nothing is known, nothing published: everything is honest.
LEMMA HonestInit == Init => PipelineInv
<1> SUFFICES ASSUME Init PROVE PipelineInv
  OBVIOUS
<1>1. data \in [Tickers -> Nat] /\ snap \in [Tickers -> AnySnap]
  BY DEF Init, AnySnap
<1>2. IdleScreen \in Progress
  BY DEF IdleScreen, Progress, AnySnap
<1>3. Typed
  BY <1>1, <1>2 DEF Typed, Init
<1> QED
  BY <1>3, IdleIsHonest DEF Init, PipelineInv, HonestSnaps, HonestScreens, Honest

\* Every step of the pipeline keeps everything honest.
LEMMA HonestStep == PipelineInv /\ [Next]_vars => PipelineInv'
<1> SUFFICES ASSUME PipelineInv, [Next]_vars PROVE PipelineInv'
  OBVIOUS
<1>0. ASSUME UNCHANGED <<data, snap, screen>> PROVE PipelineInv'
  BY <1>0 DEF PipelineInv, Typed, HonestSnaps, HonestScreens, HonestWork, Honest
<1>1. ASSUME NEW w \in Refreshers, StoreSome(w) PROVE PipelineInv'
  BY <1>1, StoreStep DEF StoreSome, Store
<1>10. ASSUME NEW t \in Tickers, StoreAside(t) PROVE PipelineInv'
  BY <1>10, StoreStep DEF StoreAside
<1>2. ASSUME NEW w \in Refreshers, Stamp(w) \/ Request(w) \/ RefresherDies(w)
      PROVE  PipelineInv'
  BY <1>0, <1>2 DEF Stamp, Request, RefresherDies
<1>3. ASSUME NEW s \in Batchers, ClaimSome(s) PROVE PipelineInv'
  <2>1. PICK t \in Tickers :
          /\ screen' = [screen EXCEPT ![s] = Began({t}, FALSE, "claimed")]
          /\ UNCHANGED <<data, snap>>
    BY <1>3 DEF ClaimSome, ClaimBatch
  <2>2. Began({t}, FALSE, "claimed") \in Progress
        /\ HonestWork(Began({t}, FALSE, "claimed"))
    BY BeganIsHonest DEF PipelineInv
  <2> QED
    BY <2>1, <2>2, ScreenStep DEF Screens
<1>4. ASSUME NEW s \in Runners, FullRun(s) \/ DetailRun(s) PROVE PipelineInv'
  <2>1. PICK scope \in SUBSET Tickers, full \in BOOLEAN : StartRun(s, scope, full)
    BY <1>4 DEF FullRun, DetailRun
  <2>2. Began(scope, full, "claimed") \in Progress
        /\ HonestWork(Began(scope, full, "claimed"))
    BY BeganIsHonest DEF PipelineInv
  <2> QED
    BY <2>1, <2>2, ScreenStep DEF Screens, StartRun
<1>5. ASSUME NEW s \in Screens, Proceed(s) PROVE PipelineInv'
  BY <1>5, ReadCachedStep, ReadRevisionsStep, AssessStep, PublishStep
     DEF Proceed, AssessSome
<1>6. ASSUME NEW s \in Screens, screen' = [screen EXCEPT ![s] = IdleScreen],
             UNCHANGED <<data, snap>>
      PROVE  PipelineInv'
  <2>1. IdleScreen \in Progress /\ HonestWork(IdleScreen)
    BY IdleIsHonest DEF PipelineInv
  <2> QED
    BY <1>6, <2>1, ScreenStep
<1>7. ASSUME NEW s \in Batchers, FinishBatch(s) PROVE PipelineInv'
  BY <1>6, <1>7 DEF FinishBatch, Screens
<1>8. ASSUME NEW s \in Screens, ScreenDies(s) PROVE PipelineInv'
  BY <1>6, <1>8 DEF ScreenDies
<1>9. ASSUME NEW s \in Batchers, BatchAborts(s) PROVE PipelineInv'
  <2> DEFINE aborted == [IdleScreen EXCEPT !.step = "published",
                                           !.scope = screen[s].scope]
  <2>1. screen[s].scope \in SUBSET Tickers
    BY DEF PipelineInv, Typed, Screens, Progress
  <2>2. aborted \in Progress /\ HonestWork(aborted)
    BY <2>1, IdleIsHonest DEF PipelineInv, Progress, IdleScreen, HonestWork
  <2> QED
    BY <1>9, <2>2, ScreenStep DEF Screens, BatchAborts
<1> QED
  BY <1>0, <1>1, <1>2, <1>3, <1>4, <1>5, <1>7, <1>8, <1>9, <1>10 DEF Next, vars

\* A snapshot whose dependency hash matches the inputs was computed from them
\* (screen_universe() reads the hash first and the inputs later).
THEOREM MatchingHashCorrect == Spec => []MatchingHashMeansCurrent
<1>1. Spec => []PipelineInv
  BY HonestInit, HonestStep, PTL DEF Spec
<1>2. PipelineInv => MatchingHashMeansCurrent
  BY HonestSuffices DEF PipelineInv
<1> QED
  BY <1>1, <1>2, PTL

------------------------------------------------------------------------------
\* The changes stored so far, and the refreshers that have stored one and not yet read
\* the clock.
Changes == {c \in Tickers \X (1 .. MaxData) : c[2] <= data[c[1]]}
Unread  == {w \in Refreshers : refresh[w].step = "stored"}

\* Every reading of the clock was for a change of its own: refreshers that have still to
\* read it are counted with those that did.
Counted == IsFiniteSet(Unread) /\ clock + Cardinality(Unread) <= Cardinality(Changes)

Requests == [step : {"idle", "stored", "stamped"}, ticker : Tickers \cup {NoTicker}, stamp : Nat]

\* The queue and the refreshers; revisions are readings of the clock.
Revision == 0 .. clock
Booked ==
  /\ data \in [Tickers -> Versions]
  /\ clock \in Nat
  /\ refresh \in [Refreshers -> Requests]
  /\ \A w \in Refreshers : refresh[w].step # "idle" => refresh[w].ticker \in Tickers
  /\ \A w \in Refreshers : refresh[w].stamp <= clock
  /\ want \in [Tickers -> Revision \cup {None}]
  /\ began \in [Tickers -> Revision \cup {None}]
  /\ done \in [Tickers -> Revision \cup {None}]
  /\ owner \in [Tickers -> Batchers \cup {NoWorker}]
  /\ open \in [Tickers -> BOOLEAN]
  /\ stray \in [Tickers -> BOOLEAN]
  /\ faults \in 0 .. MaxFaults

TypeInv == PipelineInv /\ Booked /\ Counted

\* There are at most MaxClock changes.
LEMMA ChangesFit == IsFiniteSet(Changes) /\ MaxClock \in Nat /\ Cardinality(Changes) \in 0 .. MaxClock
<1>1. MaxData \in Nat /\ IsFiniteSet(Tickers)
  BY PipelineAssumption DEF PipelineAssumption
<1>2. IsFiniteSet(1 .. MaxData) /\ Cardinality(1 .. MaxData) = MaxData
  BY <1>1, FS_Interval
<1>3. Cardinality(Tickers) \in Nat
  BY <1>1, FS_CardinalityType
<1>4. /\ IsFiniteSet(Tickers \X (1 .. MaxData))
      /\ Cardinality(Tickers \X (1 .. MaxData)) = Cardinality(Tickers) * MaxData
  BY <1>1, <1>2, FS_Product
<1>5. Changes \in SUBSET (Tickers \X (1 .. MaxData))
  BY DEF Changes
<1>6. IsFiniteSet(Changes) /\ Cardinality(Changes) <= Cardinality(Tickers) * MaxData
  BY <1>4, <1>5, FS_Subset
<1>7. Cardinality(Changes) \in Nat
  BY <1>6, FS_CardinalityType
<1>8. Cardinality(Tickers) * MaxData = MaxData * Cardinality(Tickers)
      /\ MaxData * Cardinality(Tickers) \in Nat
  BY <1>1, <1>3
<1> QED
  BY <1>6, <1>7, <1>8 DEF MaxClock

\* The clock keeps its bound.
LEMMA ClockFits == TypeInv => clock \in 0 .. MaxClock
<1> SUFFICES ASSUME TypeInv PROVE clock \in 0 .. MaxClock
  OBVIOUS
<1>1. clock \in Nat /\ IsFiniteSet(Unread) /\ clock + Cardinality(Unread) <= Cardinality(Changes)
  BY DEF TypeInv, Booked, Counted
<1>2. Cardinality(Unread) \in Nat
  BY <1>1, FS_CardinalityType
<1> QED
  BY <1>1, <1>2, ChangesFit

\* Honest snapshots are of versions there are.
LEMMA SnapshotsTyped ==
  PipelineInv /\ data \in [Tickers -> Versions] =>
    /\ snap \in [Tickers -> Snaps]
    /\ \A s \in Screens : /\ screen[s].cached \in [Tickers -> Snaps]
                          /\ screen[s].out \in [Tickers -> Snaps]
                          /\ screen[s].dep \in [Tickers -> Versions]
<1> SUFFICES ASSUME PipelineInv, data \in [Tickers -> Versions]
             PROVE  /\ snap \in [Tickers -> Snaps]
                    /\ \A s \in Screens : /\ screen[s].cached \in [Tickers -> Snaps]
                                          /\ screen[s].out \in [Tickers -> Snaps]
                                          /\ screen[s].dep \in [Tickers -> Versions]
  OBVIOUS
<1>1. MaxData \in Nat
  BY PipelineAssumption DEF PipelineAssumption
<1>2. ASSUME NEW t \in Tickers, NEW x \in AnySnap, Honest(x, t) PROVE x \in Snaps
  <2>1. data[t] \in Nat /\ data[t] <= MaxData
    BY <1>1 DEF Versions
  <2>2. CASE x = NoSnap
    BY <2>2 DEF Snaps
  <2>3. CASE x # NoSnap
    <3>1. x \in [content : Nat, dep : Nat]
      BY <2>3 DEF AnySnap
    <3>2. x.dep <= x.content /\ x.content <= data[t]
      BY <1>2, <2>3 DEF Honest
    <3>3. x.content \in Versions /\ x.dep \in Versions
      BY <1>1, <2>1, <3>1, <3>2 DEF Versions
    <3>4. x = [content |-> x.content, dep |-> x.dep]
      BY <3>1
    <3> QED
      BY <3>3, <3>4 DEF Snaps, Snapshot
  <2> QED
    BY <2>2, <2>3
<1>3. snap \in [Tickers -> Snaps]
  BY <1>2 DEF PipelineInv, Typed, HonestSnaps
<1>4. ASSUME NEW s \in Screens
      PROVE  /\ screen[s].cached \in [Tickers -> Snaps]
             /\ screen[s].out \in [Tickers -> Snaps]
             /\ screen[s].dep \in [Tickers -> Versions]
  <2>1. /\ screen[s].cached \in [Tickers -> AnySnap]
        /\ screen[s].out \in [Tickers -> AnySnap]
        /\ screen[s].dep \in [Tickers -> Nat]
    BY DEF PipelineInv, Typed, Progress
  <2>2. \A t \in Tickers : /\ Honest(screen[s].cached[t], t)
                           /\ Honest(screen[s].out[t], t)
                           /\ screen[s].dep[t] <= data[t]
    BY DEF PipelineInv, HonestScreens, HonestWork
  <2>3. screen[s].cached \in [Tickers -> Snaps]
    BY <1>2, <2>1, <2>2
  <2>4. screen[s].out \in [Tickers -> Snaps]
    BY <1>2, <2>1, <2>2
  <2>5. \A t \in Tickers : screen[s].dep[t] \in Versions
    BY <1>1, <2>1, <2>2 DEF Versions
  <2> QED
    BY <2>1, <2>3, <2>4, <2>5
<1> QED
  BY <1>3, <1>4

\* What TypeInv says of the types.
LEMMA TypesSuffice == TypeInv => TypeOK
<1> SUFFICES ASSUME TypeInv PROVE TypeOK
  OBVIOUS
<1>1. clock \in 0 .. MaxClock /\ MaxClock \in Nat
  BY ClockFits, ChangesFit
<1>2. Revision \cup {None} \subseteq 0 .. MaxClock \cup {None}
  BY <1>1 DEF Revision
<1>3. /\ want \in [Tickers -> 0 .. MaxClock \cup {None}]
      /\ began \in [Tickers -> 0 .. MaxClock \cup {None}]
      /\ done \in [Tickers -> 0 .. MaxClock \cup {None}]
  BY <1>2 DEF TypeInv, Booked
<1>4. refresh \in [Refreshers -> [step   : {"idle", "stored", "stamped"},
                                  ticker : Tickers \cup {NoTicker},
                                  stamp  : 0 .. MaxClock]]
  <2>1. refresh \in [Refreshers -> Requests]
    BY DEF TypeInv, Booked
  <2>2. ASSUME NEW w \in Refreshers PROVE refresh[w].stamp \in 0 .. MaxClock
    BY <1>1, <2>1 DEF TypeInv, Booked, Requests
  <2> QED
    BY <2>1, <2>2 DEF Requests
<1>5. snap \in [Tickers -> Snaps]
  BY SnapshotsTyped DEF TypeInv, Booked
<1>6. screen \in [Screens ->
       [step   : {"idle", "claimed", "cached", "revised", "published"},
        scope  : SUBSET Tickers,
        full   : BOOLEAN,
        todo   : SUBSET Tickers,
        cached : [Tickers -> Snaps],
        dep    : [Tickers -> Versions],
        out    : [Tickers -> Snaps]]]
  <2>1. screen \in [Screens -> Progress]
    BY DEF TypeInv, PipelineInv, Typed
  <2>2. \A s \in Screens : /\ screen[s].cached \in [Tickers -> Snaps]
                           /\ screen[s].out \in [Tickers -> Snaps]
                           /\ screen[s].dep \in [Tickers -> Versions]
    BY SnapshotsTyped DEF TypeInv, Booked
  <2> QED
    BY <2>1, <2>2 DEF Progress
<1> QED
  BY <1>1, <1>3, <1>4, <1>5, <1>6 DEF TypeOK, TypeInv, Booked

\* A fault is counted up to its bound, or none happened.
LEMMA FaultsFit ==
  ASSUME Booked, faults' = faults \/ \E kind : Faulty(kind)
  PROVE  faults' \in 0 .. MaxFaults
<1>1. faults \in 0 .. MaxFaults /\ MaxFaults \in Nat
  BY PipelineAssumption DEF PipelineAssumption, Booked
<1>2. CASE faults' = faults
  BY <1>1, <1>2
<1>3. ASSUME NEW kind, Faulty(kind) PROVE faults' \in 0 .. MaxFaults
  <2>1. faults < MaxFaults /\ faults' = faults + 1
    BY <1>3 DEF Faulty
  <2> QED
    BY <1>1, <2>1
<1> QED
  BY <1>2, <1>3

\* A screening goes on: the queue and the refreshers stay as they are.
LEMMA ScreeningStep ==
  ASSUME Booked, Counted, UNCHANGED <<data, clock, refresh, ledger, owner, open>>,
         stray' \in [Tickers -> BOOLEAN], faults' \in 0 .. MaxFaults
  PROVE  Booked' /\ Counted'
<1>1. Booked'
  BY DEF Booked, Revision, ledger
<1>2. Changes' = Changes /\ Unread' = Unread
  BY DEF Changes, Unread
<1> QED
  BY <1>1, <1>2 DEF Counted

\* One change more of t.
LEMMA MoreChanges ==
  ASSUME Booked, NEW t \in Tickers, data[t] < MaxData, data' = [data EXCEPT ![t] = @ + 1]
  PROVE  Changes' = Changes \cup {<<t, data[t] + 1>>} /\ <<t, data[t] + 1>> \notin Changes
<1>1. data[t] \in Nat /\ MaxData \in Nat /\ data[t] + 1 \in 1 .. MaxData
  <2>1. MaxData \in Nat
    BY PipelineAssumption DEF PipelineAssumption
  <2>2. data[t] \in 0 .. MaxData
    BY DEF Booked, Versions
  <2> QED
    BY <2>1, <2>2
<1>2. data'[t] = data[t] + 1 /\ \A u \in Tickers : u # t => data'[u] = data[u]
  BY DEF Booked
<1>3. ASSUME NEW c \in Tickers \X (1 .. MaxData)
      PROVE  c \in Changes' <=> c \in Changes \/ c = <<t, data[t] + 1>>
  <2>1. c[1] \in Tickers /\ c[2] \in Nat /\ c = <<c[1], c[2]>> /\ data[c[1]] \in Nat
    BY <1>1 DEF Booked, Versions
  <2>2. CASE c[1] = t
    BY <1>1, <1>2, <2>1, <2>2 DEF Changes
  <2>3. CASE c[1] # t
    BY <1>1, <1>2, <2>1, <2>3 DEF Changes
  <2> QED
    BY <2>2, <2>3
<1>4. <<t, data[t] + 1>> \in Tickers \X (1 .. MaxData)
  BY <1>1
<1>5. <<t, data[t] + 1>> \notin Changes
  BY <1>1 DEF Changes
<1> QED
  BY <1>3, <1>4, <1>5 DEF Changes

\* A change is stored: one more to be dated.
LEMMA StoreTyped ==
  ASSUME Booked, Counted, NEW w \in Refreshers, NEW t \in Tickers, Store(w, t)
  PROVE  Booked' /\ Counted'
<1> DEFINE k == [step |-> "stored", ticker |-> t, stamp |-> 0]
<1>1. /\ refresh[w].step = "idle" /\ data[t] < MaxData
      /\ data' = [data EXCEPT ![t] = @ + 1] /\ refresh' = [refresh EXCEPT ![w] = k]
      /\ UNCHANGED <<clock, want, began, done, owner, open, stray, faults>>
  BY DEF Store, ledger
<1>2. k \in Requests /\ k.step = "stored" /\ k.ticker = t /\ k.stamp = 0
  BY DEF Requests
<1> HIDE DEF k
<1>3. data[t] \in Nat /\ data[t] + 1 \in Versions /\ MaxData \in Nat
  <2>1. MaxData \in Nat
    BY PipelineAssumption DEF PipelineAssumption
  <2>2. data[t] \in 0 .. MaxData
    BY DEF Booked, Versions
  <2> QED
    BY <1>1, <2>1, <2>2 DEF Versions
<1>4. data' \in [Tickers -> Versions]
  BY <1>1, <1>3 DEF Booked
<1>5. /\ refresh' \in [Refreshers -> Requests] /\ refresh'[w] = k
      /\ \A v \in Refreshers : v # w => refresh'[v] = refresh[v]
  BY <1>1, <1>2 DEF Booked
<1>6. Revision' = Revision
  BY <1>1 DEF Revision
<1>7. \A v \in Refreshers : refresh'[v].step # "idle" => refresh'[v].ticker \in Tickers
  BY <1>2, <1>5 DEF Booked
<1>8. \A v \in Refreshers : refresh'[v].stamp <= clock'
  BY <1>1, <1>2, <1>5 DEF Booked
<1>9. Booked'
  BY <1>1, <1>4, <1>5, <1>6, <1>7, <1>8 DEF Booked
<1>10. Unread' = Unread \cup {w} /\ w \notin Unread
  BY <1>1, <1>2, <1>5 DEF Unread
<1>11. Changes' = Changes \cup {<<t, data[t] + 1>>} /\ <<t, data[t] + 1>> \notin Changes
  BY <1>1, MoreChanges
<1>12. IsFiniteSet(Unread) /\ IsFiniteSet(Changes)
  BY ChangesFit DEF Counted
<1>13. /\ IsFiniteSet(Unread') /\ Cardinality(Unread') = Cardinality(Unread) + 1
       /\ Cardinality(Changes') = Cardinality(Changes) + 1
  BY <1>10, <1>11, <1>12, FS_AddElement
<1>14. Cardinality(Unread) \in Nat /\ Cardinality(Changes) \in Nat /\ clock \in Nat
  BY <1>12, FS_CardinalityType DEF Booked
<1>15. Counted'
  BY <1>1, <1>13, <1>14 DEF Counted
<1> QED
  BY <1>9, <1>15

\* A change aside: there is one more, and nobody will date it.
LEMMA StoreAsideTyped ==
  ASSUME Booked, Counted, NEW t \in Tickers, StoreAside(t)
  PROVE  Booked' /\ Counted'
<1>1. /\ data[t] < MaxData /\ data' = [data EXCEPT ![t] = @ + 1]
      /\ stray' = [stray EXCEPT ![t] = TRUE]
      /\ UNCHANGED <<clock, refresh, want, began, done, owner, open, faults>>
  BY DEF StoreAside, ledger
<1>2. Booked'
  <2>0. MaxData \in Nat
    BY PipelineAssumption DEF PipelineAssumption
  <2>1. MaxData \in Nat /\ data[t] \in 0 .. MaxData
    BY <2>0 DEF Booked, Versions
  <2>2. data' \in [Tickers -> Versions] /\ stray' \in [Tickers -> BOOLEAN]
    BY <1>1, <2>1 DEF Booked, Versions
  <2> QED
    BY <1>1, <2>2 DEF Booked, Revision
<1>3. Changes' = Changes \cup {<<t, data[t] + 1>>} /\ <<t, data[t] + 1>> \notin Changes
  BY <1>1, MoreChanges
<1>4. IsFiniteSet(Changes)
  BY ChangesFit
<1>5. Cardinality(Changes') = Cardinality(Changes) + 1
  BY <1>3, <1>4, FS_AddElement
<1>6. Unread' = Unread
  BY <1>1 DEF Unread
<1>7. Cardinality(Unread) \in Nat /\ Cardinality(Changes) \in Nat /\ clock \in Nat
  BY <1>4, FS_CardinalityType DEF Booked, Counted
<1>8. Counted'
  BY <1>1, <1>5, <1>6, <1>7 DEF Counted
<1> QED
  BY <1>2, <1>8

\* A refresher that stops being one that has still to read the clock.
LEMMA ReadOrGone ==
  ASSUME Booked, Counted, NEW w \in Refreshers, NEW k \in Requests, k.step # "stored",
         refresh' = [refresh EXCEPT ![w] = k], data' = data,
         clock' = clock \/ (clock' = clock + 1 /\ refresh[w].step = "stored")
  PROVE  Counted'
<1>1. refresh'[w] = k /\ \A v \in Refreshers : v # w => refresh'[v] = refresh[v]
  BY DEF Booked
<1>2. Unread' = Unread \ {w} /\ (refresh[w].step = "stored" => w \in Unread)
  BY <1>1 DEF Unread
<1>3. Changes' = Changes
  BY DEF Changes
<1>4. /\ IsFiniteSet(Unread')
      /\ Cardinality(Unread') = IF w \in Unread THEN Cardinality(Unread) - 1 ELSE Cardinality(Unread)
  BY <1>2, FS_RemoveElement DEF Counted
<1>5. Cardinality(Unread) \in Nat /\ Cardinality(Changes) \in Nat /\ clock \in Nat
  BY ChangesFit, FS_CardinalityType DEF Booked, Counted
<1> QED
  BY <1>2, <1>3, <1>4, <1>5 DEF Counted

\* A refresher that is stamped.
LEMMA StampParts ==
  ASSUME NEW x \in Requests, NEW n \in Nat
  PROVE  LET k == [x EXCEPT !.step = "stamped", !.stamp = n]
         IN  k \in Requests /\ k.step = "stamped" /\ k.ticker = x.ticker /\ k.stamp = n
BY DEF Requests

\* The clock is read: the revision is newer than all before.
LEMMA StampTyped ==
  ASSUME Booked, Counted, NEW w \in Refreshers, Stamp(w)
  PROVE  Booked' /\ Counted'
<1> DEFINE k == [refresh[w] EXCEPT !.step = "stamped", !.stamp = clock + 1]
<1>1. /\ refresh[w].step = "stored" /\ clock' = clock + 1
      /\ refresh' = [refresh EXCEPT ![w] = k]
      /\ UNCHANGED <<data, want, began, done, owner, open, stray, faults>>
  BY DEF Stamp, ledger
<1>2. clock \in Nat /\ refresh[w] \in Requests /\ refresh[w].ticker \in Tickers
  BY <1>1 DEF Booked
<1>3. k \in Requests /\ k.step = "stamped" /\ k.ticker \in Tickers /\ k.stamp = clock + 1
  <2>1. clock + 1 \in Nat
    BY <1>2
  <2> QED
    BY <1>2, <2>1, StampParts
<1> HIDE DEF k
<1>4. /\ refresh' \in [Refreshers -> Requests] /\ refresh'[w] = k
      /\ \A v \in Refreshers : v # w => refresh'[v] = refresh[v]
  BY <1>1, <1>3 DEF Booked
<1>5. Revision \subseteq Revision'
  BY <1>1, <1>2 DEF Revision
<1>6. \A v \in Refreshers : refresh'[v].step # "idle" => refresh'[v].ticker \in Tickers
  BY <1>3, <1>4 DEF Booked
<1>7. ASSUME NEW v \in Refreshers PROVE refresh'[v].stamp <= clock'
  <2>1. refresh[v].stamp \in Nat /\ refresh[v].stamp <= clock
    BY DEF Booked, Requests
  <2> QED
    BY <1>1, <1>2, <1>3, <1>4, <2>1
<1>8. /\ want' \in [Tickers -> Revision' \cup {None}]
      /\ began' \in [Tickers -> Revision' \cup {None}]
      /\ done' \in [Tickers -> Revision' \cup {None}]
  BY <1>1, <1>5 DEF Booked
<1>9. Booked'
  BY <1>1, <1>2, <1>4, <1>6, <1>7, <1>8 DEF Booked
<1>10. Counted'
  BY <1>1, <1>3, ReadOrGone
<1> QED
  BY <1>9, <1>10

\* A refresher is idle again.
LEMMA IdleTyped ==
  ASSUME Booked, NEW w \in Refreshers, refresh' = [refresh EXCEPT ![w] = IdleRefresh], clock' = clock
  PROVE  /\ refresh' \in [Refreshers -> Requests]
         /\ \A v \in Refreshers : refresh'[v].step # "idle" => refresh'[v].ticker \in Tickers
         /\ \A v \in Refreshers : refresh'[v].stamp <= clock'
<1>1. IdleRefresh \in Requests /\ IdleRefresh.step = "idle" /\ IdleRefresh.stamp = 0
  BY DEF IdleRefresh, Requests
<1>2. /\ refresh' \in [Refreshers -> Requests] /\ refresh'[w] = IdleRefresh
      /\ \A v \in Refreshers : v # w => refresh'[v] = refresh[v]
  BY <1>1 DEF Booked
<1>3. clock \in Nat
  BY DEF Booked
<1>4. \A v \in Refreshers : refresh'[v].step # "idle" => refresh'[v].ticker \in Tickers
  BY <1>1, <1>2 DEF Booked
<1>5. \A v \in Refreshers : refresh'[v].stamp <= clock'
  BY <1>1, <1>2, <1>3 DEF Booked
<1> QED
  BY <1>2, <1>4, <1>5

\* A request asks for the revision its refresher read from the clock, or for nothing.
LEMMA RequestTyped ==
  ASSUME Booked, Counted, NEW w \in Refreshers, Request(w)
  PROVE  Booked' /\ Counted'
<1> DEFINE t == refresh[w].ticker
<1>1. /\ refresh[w].step = "stamped" /\ refresh' = [refresh EXCEPT ![w] = IdleRefresh]
      /\ UNCHANGED <<data, clock, owner, stray, faults>>
  BY DEF Request
<1>2. t \in Tickers /\ refresh[w].stamp \in Revision /\ Revision' = Revision
  BY <1>1 DEF Booked, Revision, Requests
<1>3. /\ want' \in [Tickers -> Revision \cup {None}]
      /\ UNCHANGED <<began, done>>
      /\ open' \in [Tickers -> BOOLEAN]
  <2>1. CASE refresh[w].stamp > want[t]
    <3>1. PICK r \in 1 .. MaxClock : want' = [want EXCEPT ![t] = r]
      BY <2>1 DEF Request, Queue!Ask
    <3>2. want'[t] = refresh[w].stamp /\ UNCHANGED <<began, done>>
          /\ open' = [open EXCEPT ![t] = TRUE]
      BY <2>1 DEF Request, Queue!Ask
    <3>3. want' = [want EXCEPT ![t] = refresh[w].stamp]
      BY <1>2, <3>1, <3>2 DEF Booked
    <3> QED
      BY <1>2, <3>2, <3>3 DEF Booked
  <2>2. CASE ~ (refresh[w].stamp > want[t])
    BY <2>2 DEF Request, ledger, Booked
  <2> QED
    BY <2>1, <2>2
<1>4. Booked'
  BY <1>1, <1>2, <1>3, IdleTyped DEF Booked
<1>5. IdleRefresh \in Requests /\ IdleRefresh.step # "stored"
  BY DEF IdleRefresh, Requests
<1>6. Counted'
  BY <1>1, <1>5, ReadOrGone
<1> QED
  BY <1>4, <1>6

\* A refresher dies; what it stored is never dated.
LEMMA DeathTyped ==
  ASSUME Booked, Counted, NEW w \in Refreshers, RefresherDies(w)
  PROVE  Booked' /\ Counted'
<1>1. /\ refresh' = [refresh EXCEPT ![w] = IdleRefresh]
      /\ stray' = [stray EXCEPT ![refresh[w].ticker] = TRUE]
      /\ UNCHANGED <<data, clock, want, began, done, owner, open>>
  BY DEF RefresherDies, ledger
<1>2. faults' \in 0 .. MaxFaults
  BY FaultsFit DEF RefresherDies
<1>3. stray' \in [Tickers -> BOOLEAN] /\ Revision' = Revision
  BY <1>1 DEF Booked, Revision
<1>4. Booked'
  BY <1>1, <1>2, <1>3, IdleTyped DEF Booked
<1>5. IdleRefresh \in Requests /\ IdleRefresh.step # "stored"
  BY DEF IdleRefresh, Requests
<1>6. Counted'
  BY <1>1, <1>5, ReadOrGone
<1> QED
  BY <1>4, <1>6

\* A row is claimed, settled or given back.
LEMMA RowTyped ==
  ASSUME Booked, Counted, UNCHANGED <<data, clock, refresh, want>>,
         stray' \in [Tickers -> BOOLEAN],
         \A t \in Tickers : began'[t] \in {began[t], want[t], None},
         \A t \in Tickers : done'[t] \in {done[t], began[t]},
         began' \in [Tickers -> Int], done' \in [Tickers -> Int],
         owner' \in [Tickers -> Batchers \cup {NoWorker}],
         open' \in [Tickers -> BOOLEAN], faults' \in 0 .. MaxFaults
  PROVE  Booked' /\ Counted'
<1>1. Revision' = Revision
  BY DEF Revision
<1>2. \A t \in Tickers : /\ want[t] \in Revision \cup {None}
                         /\ began[t] \in Revision \cup {None}
                         /\ done[t] \in Revision \cup {None}
  BY DEF Booked
<1>3. \A t \in Tickers : began'[t] \in Revision \cup {None} /\ done'[t] \in Revision \cup {None}
  BY <1>2
<1>4. began' \in [Tickers -> Revision \cup {None}] /\ done' \in [Tickers -> Revision \cup {None}]
  BY <1>3
<1>5. Booked'
  BY <1>1, <1>4 DEF Booked
<1>6. Changes' = Changes /\ Unread' = Unread
  BY DEF Changes, Unread
<1> QED
  BY <1>5, <1>6 DEF Counted

\* Rows hold integers.
LEMMA RowsAreInt ==
  ASSUME Booked
  PROVE  /\ want \in [Tickers -> Int] /\ began \in [Tickers -> Int] /\ done \in [Tickers -> Int]
         /\ Queue!None = None /\ None \in Int
<1>1. Revision \cup {None} \subseteq Int /\ None \in Int /\ Queue!None = None
  BY DEF Booked, Revision, None, Queue!None
<1> QED
  BY <1>1 DEF Booked

\* A batcher takes an open row.
LEMMA ClaimTyped ==
  ASSUME Booked, Counted, NEW s \in Batchers, NEW t \in Tickers, ClaimBatch(s, t)
  PROVE  Booked' /\ Counted'
<1>1. /\ began' = [u \in Tickers |-> IF u \in {t} THEN want[u] ELSE began[u]]
      /\ owner' = [owner EXCEPT ![t] = s] /\ stray' = [stray EXCEPT ![t] = FALSE]
      /\ UNCHANGED <<data, clock, refresh, want, done, open>>
  BY DEF ClaimBatch, Queue!Begin
<1>2. faults' \in 0 .. MaxFaults
  BY FaultsFit DEF ClaimBatch
<1>3. /\ owner' \in [Tickers -> Batchers \cup {NoWorker}]
      /\ open' \in [Tickers -> BOOLEAN] /\ stray' \in [Tickers -> BOOLEAN]
  BY <1>1 DEF Booked
<1>4. /\ began' \in [Tickers -> Int] /\ done' \in [Tickers -> Int]
      /\ \A u \in Tickers : began'[u] \in {began[u], want[u], None}
      /\ \A u \in Tickers : done'[u] \in {done[u], began[u]}
  BY <1>1, RowsAreInt
<1> QED
  BY <1>1, <1>2, <1>3, <1>4, RowTyped

\* A batcher settles its row, gives it back, or has lost it.
LEMMA FinishTyped ==
  ASSUME Booked, Counted, NEW s \in Batchers, FinishBatch(s), screen[s].scope \subseteq Tickers
  PROVE  Booked' /\ Counted'
<1>1. PICK t \in Tickers :
        IF owner[t] = s
          THEN /\ IF want[t] = began[t]
                    THEN /\ Queue!Settle(t)
                         /\ open' = [open EXCEPT ![t] = screen[s].out[t] = NoSnap]
                    ELSE Queue!Drop({t}) /\ UNCHANGED open
               /\ owner' = [owner EXCEPT ![t] = NoWorker]
          ELSE UNCHANGED <<ledger, open, owner>>
  BY DEF FinishBatch
<1>2. UNCHANGED <<data, clock, refresh, stray, faults>>
  BY DEF FinishBatch
<1>3. /\ UNCHANGED want
      /\ owner' \in [Tickers -> Batchers \cup {NoWorker}] /\ open' \in [Tickers -> BOOLEAN]
      /\ began' \in [Tickers -> Int] /\ done' \in [Tickers -> Int]
      /\ \A u \in Tickers : began'[u] \in {began[u], want[u], None}
      /\ \A u \in Tickers : done'[u] \in {done[u], began[u]}
  <2>1. CASE owner[t] = s /\ want[t] = began[t]
    <3>1. /\ done' = [done EXCEPT ![t] = began[t]] /\ began' = [began EXCEPT ![t] = None]
          /\ open' = [open EXCEPT ![t] = screen[s].out[t] = NoSnap]
          /\ owner' = [owner EXCEPT ![t] = NoWorker] /\ UNCHANGED want
      BY <1>1, <2>1, RowsAreInt DEF Queue!Settle
    <3>2. (screen[s].out[t] = NoSnap) \in BOOLEAN
      OBVIOUS
    <3>3. open' \in [Tickers -> BOOLEAN]
      BY <3>1, <3>2 DEF Booked
    <3>4. owner' \in [Tickers -> Batchers \cup {NoWorker}]
      BY <3>1 DEF Booked
    <3> QED
      BY <3>1, <3>3, <3>4, RowsAreInt
  <2>2. CASE owner[t] = s /\ want[t] # began[t]
    <3>1. /\ began' = [u \in Tickers |-> IF u \in {t} THEN None ELSE began[u]]
          /\ owner' = [owner EXCEPT ![t] = NoWorker] /\ UNCHANGED <<want, done, open>>
      BY <1>1, <2>2, RowsAreInt DEF Queue!Drop
    <3>2. owner' \in [Tickers -> Batchers \cup {NoWorker}] /\ open' \in [Tickers -> BOOLEAN]
      BY <3>1 DEF Booked
    <3> QED
      BY <3>1, <3>2, RowsAreInt
  <2>3. CASE owner[t] # s
    BY <1>1, <2>3, RowsAreInt DEF ledger, Booked
  <2> QED
    BY <2>1, <2>2, <2>3
<1>4. faults' \in 0 .. MaxFaults /\ stray' \in [Tickers -> BOOLEAN]
  BY <1>2 DEF Booked
<1> QED
  BY <1>2, <1>3, <1>4, RowTyped

\* The rows of a dead process are free again.
LEMMA ScreenDeathTyped ==
  ASSUME Booked, Counted, NEW s \in Screens, ScreenDies(s)
  PROVE  Booked' /\ Counted'
<1> DEFINE held == {t \in Tickers : owner[t] = s}
<1>1. /\ began' = [t \in Tickers |-> IF t \in held THEN None ELSE began[t]]
      /\ owner' = [t \in Tickers |-> IF t \in held THEN NoWorker ELSE owner[t]]
      /\ UNCHANGED <<data, clock, refresh, want, done, open, stray>>
  BY RowsAreInt DEF ScreenDies, Queue!Drop
<1>2. faults' \in 0 .. MaxFaults
  BY FaultsFit DEF ScreenDies
<1>3. /\ owner' \in [Tickers -> Batchers \cup {NoWorker}]
      /\ open' \in [Tickers -> BOOLEAN] /\ stray' \in [Tickers -> BOOLEAN]
  BY <1>1 DEF Booked
<1>4. /\ began' \in [Tickers -> Int] /\ done' \in [Tickers -> Int]
      /\ \A u \in Tickers : began'[u] \in {began[u], want[u], None}
      /\ \A u \in Tickers : done'[u] \in {done[u], began[u]}
  BY <1>1, RowsAreInt
<1> QED
  BY <1>1, <1>2, <1>3, <1>4, RowTyped

\* At first nothing is stored, asked or counted.
LEMMA TypeInit == Init => TypeInv
<1> SUFFICES ASSUME Init PROVE TypeInv
  OBVIOUS
<1>1. MaxData \in Nat /\ MaxFaults \in Nat
  BY PipelineAssumption DEF PipelineAssumption
<1>2. IdleRefresh \in Requests /\ IdleRefresh.step = "idle" /\ IdleRefresh.stamp = 0
  BY DEF IdleRefresh, Requests
<1>3. refresh \in [Refreshers -> Requests] /\ \A w \in Refreshers : refresh[w] = IdleRefresh
  BY <1>2 DEF Init
<1>4. /\ want \in [Tickers -> {None}] /\ began \in [Tickers -> {None}] /\ done \in [Tickers -> {None}]
  BY DEF Init, Queue!Init, None, Queue!None
<1>5. data \in [Tickers -> Versions]
  BY <1>1 DEF Init, Versions
<1>6. Booked
  BY <1>1, <1>2, <1>3, <1>4, <1>5 DEF Init, Booked, Revision
<1>7. Unread = {}
  BY <1>2, <1>3 DEF Unread
<1>8. Counted
  BY <1>7, ChangesFit, FS_EmptySet DEF Init, Counted
<1> QED
  BY <1>6, <1>8, HonestInit DEF TypeInv

\* Every step keeps the types.
LEMMA TypeStep == TypeInv /\ [Next]_vars => TypeInv'
<1> SUFFICES ASSUME TypeInv, [Next]_vars PROVE TypeInv'
  OBVIOUS
<1>0. Booked /\ Counted /\ PipelineInv
  BY DEF TypeInv
<1>1. PipelineInv'
  BY <1>0, HonestStep
<1>2. ASSUME UNCHANGED vars PROVE Booked' /\ Counted'
  BY <1>0, <1>2, ScreeningStep DEF vars, Booked
<1>3. ASSUME NEW w \in Refreshers, StoreSome(w) \/ Stamp(w) \/ Request(w) \/ RefresherDies(w)
      PROVE  Booked' /\ Counted'
  BY <1>0, <1>3, StoreTyped, StampTyped, RequestTyped, DeathTyped DEF StoreSome
<1>10. ASSUME NEW t \in Tickers, StoreAside(t) PROVE Booked' /\ Counted'
  BY <1>0, <1>10, StoreAsideTyped
<1>4. ASSUME NEW s \in Batchers, ClaimSome(s) PROVE Booked' /\ Counted'
  BY <1>0, <1>4, ClaimTyped DEF ClaimSome
<1>5. ASSUME NEW s \in Batchers, FinishBatch(s) PROVE Booked' /\ Counted'
  <2>1. screen[s].scope \subseteq Tickers
    BY <1>0 DEF PipelineInv, Typed, Screens, Progress
  <2> QED
    BY <1>0, <1>5, <2>1, FinishTyped
<1>6. ASSUME NEW s \in Batchers, BatchAborts(s) PROVE Booked' /\ Counted'
  <2>1. faults' \in 0 .. MaxFaults /\ stray' \in [Tickers -> BOOLEAN]
    BY <1>0, <1>6, FaultsFit DEF BatchAborts, Booked
  <2> QED
    BY <1>0, <1>6, <2>1, ScreeningStep DEF BatchAborts
<1>7. ASSUME NEW s \in Runners, FullRun(s) \/ DetailRun(s) PROVE Booked' /\ Counted'
  <2>1. UNCHANGED <<data, clock, refresh, ledger, owner, open, stray, faults>>
    BY <1>7 DEF FullRun, DetailRun, StartRun
  <2> QED
    BY <1>0, <2>1, ScreeningStep DEF Booked
<1>8. ASSUME NEW s \in Screens, Proceed(s) PROVE Booked' /\ Counted'
  <2>1. /\ UNCHANGED <<data, clock, refresh, ledger, owner, open>>
        /\ faults' = faults \/ \E kind : Faulty(kind)
        /\ stray' = stray \/ stray' = [t \in Tickers |-> stray[t] \/ Strays(s, t)]
    BY <1>8 DEF Proceed, AssessSome, ReadCached, ReadRevisions, Assess, Publish
  <2>2. faults' \in 0 .. MaxFaults
    BY <1>0, <2>1, FaultsFit
  <2>3. stray' \in [Tickers -> BOOLEAN]
    <3>1. CASE stray' = stray
      BY <1>0, <3>1 DEF Booked
    <3>2. CASE stray' = [t \in Tickers |-> stray[t] \/ Strays(s, t)]
      <4>1. \A t \in Tickers : (stray[t] \/ Strays(s, t)) \in BOOLEAN
        OBVIOUS
      <4> QED
        BY <3>2, <4>1
    <3> QED
      BY <2>1, <3>1, <3>2
  <2> QED
    BY <1>0, <2>1, <2>2, <2>3, ScreeningStep
<1>9. ASSUME NEW s \in Screens, ScreenDies(s) PROVE Booked' /\ Counted'
  BY <1>0, <1>9, ScreenDeathTyped
<1> QED
  BY <1>1, <1>2, <1>3, <1>4, <1>5, <1>6, <1>7, <1>8, <1>9, <1>10 DEF Next, TypeInv

\* Types and bounds hold, leases lost and full runs included: a date is read from the
\* clock once for every stored change at most.
THEOREM TypeCorrect == Spec => []TypeOK
<1>1. Spec => []TypeInv
  BY TypeInit, TypeStep, PTL DEF Spec
<1> QED
  BY <1>1, TypesSuffice, PTL
=============================================================================
