------------------------- MODULE AssessmentPipeline -------------------------
(***************************************************************************)
(* From a changed report to a published assessment: refreshers store new    *)
(* fundamentals and request an assessment (workers/tasks/                   *)
(* refresh_report_data.py, services/report_refresh.py); other writers       *)
(* change them aside, without the lock of the ticker and without a request. *)
(* Report workers claim the request, and full market runs and detail        *)
(* refreshes come along without one; all of them recompute and publish      *)
(* snapshots through screen_universe and replace_snapshots                  *)
(* (services/stock_screening.py, repositories/stock_assessments.py).        *)
(*                                                                          *)
(* The queue is used through its contract, the RevisionLedger, which        *)
(* RefreshWork is checked to implement.  Content is a version number: data  *)
(* counts the changes of a ticker's fundamentals, and a snapshot records    *)
(* the version it was computed from and the version of the dependency hash  *)
(* it carries.  Prices, ratings and settings, the other inputs, are left    *)
(* out; only the order of reads and writes matters here.  A batch carries   *)
(* one ticker, since each ticker is read and settled for itself.            *)
(***************************************************************************)
EXTENDS Integers, FiniteSets

CONSTANTS
  Tickers,
  NoTicker,
  Refreshers,   \* report workers on a statements, beta or 13F item
  Batchers,     \* report workers on an assessment item
  Runners,      \* the market cycle and the interactive worker
  NoWorker,
  MaxData,      \* bound: changes of a ticker's fundamentals
  FaultKinds,   \* the faults in play, see Faulty
  MaxFaults     \* bound: faults per behaviour

ASSUME PipelineAssumption ==
  /\ NoTicker \notin Tickers
  /\ IsFiniteSet(Tickers)
  /\ NoWorker \notin Batchers \cup Runners
  /\ Batchers \cap Runners = {}
  /\ MaxData \in Nat
  /\ FaultKinds \subseteq {"death", "lease lost", "unscorable", "abort"}
  /\ MaxFaults \in Nat

Screens  == Batchers \cup Runners
None     == -1
MaxClock == MaxData * Cardinality(Tickers)

VARIABLES
  data,     \* ticker -> version of its stored fundamentals
  clock,    \* readings of datetime.now so far; two readings differ
  refresh,  \* refresher -> what it stored and the revision it will ask for
  want, began, done,   \* the queue rows of the assessments, as a ledger
  owner,    \* ticker -> the batcher whose token the row carries
  open,     \* ticker -> the row will be claimed (again) when it is due
  screen,   \* screening process -> its progress and what it has read
  snap,     \* ticker -> the published snapshot
  stray,    \* ticker -> something happened since its row was last claimed that
            \* no request makes good (history, see Strays)
  faults

ledger == <<want, began, done>>
vars   == <<data, clock, refresh, ledger, owner, open, screen, snap, stray, faults>>

Versions == 0..MaxData
Snapshot == [content : Versions, dep : Versions]
NoSnap   == [content |-> None, dep |-> None]
Snaps    == Snapshot \cup {NoSnap}

Queue == INSTANCE RevisionLedger WITH Keys <- Tickers, Revisions <- 1..MaxClock

IdleRefresh == [step |-> "idle", ticker |-> NoTicker, stamp |-> 0]
IdleScreen  == [step |-> "idle", scope |-> {}, full |-> FALSE, todo |-> {},
                cached |-> [t \in Tickers |-> NoSnap],
                dep    |-> [t \in Tickers |-> 0],
                out    |-> [t \in Tickers |-> NoSnap]]

TypeOK ==
  /\ data \in [Tickers -> Versions]
  /\ clock \in 0..MaxClock
  /\ refresh \in [Refreshers -> [step   : {"idle", "stored", "stamped"},
                                 ticker : Tickers \cup {NoTicker},
                                 stamp  : 0..MaxClock]]
  /\ want \in [Tickers -> 0..MaxClock \cup {None}]
  /\ began \in [Tickers -> 0..MaxClock \cup {None}]
  /\ done \in [Tickers -> 0..MaxClock \cup {None}]
  /\ owner \in [Tickers -> Batchers \cup {NoWorker}]
  /\ open \in [Tickers -> BOOLEAN]
  /\ screen \in [Screens ->
       [step   : {"idle", "claimed", "cached", "revised", "published"},
        scope  : SUBSET Tickers,
        full   : BOOLEAN,
        todo   : SUBSET Tickers,
        cached : [Tickers -> Snaps],
        dep    : [Tickers -> Versions],
        out    : [Tickers -> Snaps]]]
  /\ snap \in [Tickers -> Snaps]
  /\ stray \in [Tickers -> BOOLEAN]
  /\ faults \in 0..MaxFaults

Init ==
  /\ data = [t \in Tickers |-> 0]
  /\ clock = 0
  /\ refresh = [w \in Refreshers |-> IdleRefresh]
  /\ Queue!Init
  /\ owner = [t \in Tickers |-> NoWorker]
  /\ open = [t \in Tickers |-> FALSE]
  /\ screen = [s \in Screens |-> IdleScreen]
  /\ snap = [t \in Tickers |-> NoSnap]
  /\ stray = [t \in Tickers |-> FALSE]
  /\ faults = 0

\* One of the things that may go wrong, MaxFaults times in all.
Faulty(kind) == kind \in FaultKinds /\ faults < MaxFaults /\ faults' = faults + 1

------------------------------------------------------------------------------
\* Refreshing a report.

\* Mutant: every check counts as a change.
StoreEveryCheck(w, t) ==
  /\ refresh[w].step = "idle"
  /\ data' = [data EXCEPT ![t] = @ + 1]
  /\ refresh' = [refresh EXCEPT
                   ![w] = [step |-> "stored", ticker |-> t, stamp |-> 0]]
  /\ UNCHANGED <<clock, ledger, owner, open, screen, snap, stray, faults>>

\* Under the advisory lock of the ticker the previous row is read, the source
\* asked and the merged row written; only a changed row leads to a request.
Store(w, t) ==
  /\ refresh[w].step = "idle"
  /\ data[t] < MaxData
  /\ data' = [data EXCEPT ![t] = @ + 1]
  /\ refresh' = [refresh EXCEPT
                   ![w] = [step |-> "stored", ticker |-> t, stamp |-> 0]]
  /\ UNCHANGED <<clock, ledger, owner, open, screen, snap, stray, faults>>

\* now = datetime.now(UTC), read after the lock is gone.
Stamp(w) ==
  /\ refresh[w].step = "stored"
  /\ clock' = clock + 1
  /\ refresh' = [refresh EXCEPT ![w].step = "stamped", ![w].stamp = clock + 1]
  /\ UNCHANGED <<data, ledger, owner, open, screen, snap, stray, faults>>

\* enqueue([WorkRequest(ticker, "assessment", "update:" + now)]): dropped when
\* the row already asks for a later revision.
Request(w) ==
  LET t == refresh[w].ticker IN
  /\ refresh[w].step = "stamped"
  /\ IF refresh[w].stamp > want[t]
       THEN /\ Queue!Ask(t)
            /\ want'[t] = refresh[w].stamp
            /\ open' = [open EXCEPT ![t] = TRUE]
       ELSE UNCHANGED <<ledger, open>>
  /\ refresh' = [refresh EXCEPT ![w] = IdleRefresh]
  /\ UNCHANGED <<data, clock, owner, screen, snap, stray, faults>>

\* The worker dies after its write; the retry compares with the row it has
\* written itself, finds no change and requests nothing.
RefresherDies(w) ==
  /\ Faulty("death")
  /\ refresh[w].step # "idle"
  /\ stray' = [stray EXCEPT ![refresh[w].ticker] = TRUE]
  /\ refresh' = [refresh EXCEPT ![w] = IdleRefresh]
  /\ UNCHANGED <<data, clock, ledger, owner, open, screen, snap>>

\* A detail refresh, the fundamentals job or a manual edit writes the row, and a
\* reclassification its metadata: no lock of the ticker, and nobody asks for an
\* assessment.
StoreAside(t) ==
  /\ data[t] < MaxData
  /\ data' = [data EXCEPT ![t] = @ + 1]
  /\ stray' = [stray EXCEPT ![t] = TRUE]
  /\ UNCHANGED <<clock, refresh, ledger, owner, open, screen, snap, faults>>

------------------------------------------------------------------------------
\* Screening.

Began(scope, full, step) ==
  [IdleScreen EXCEPT !.step = step, !.scope = scope, !.full = full,
                     !.todo = scope]

\* claim(): an open row nobody holds, or one whose lease has run out.
ClaimBatch(s, t) ==
  /\ screen[s].step = "idle"
  /\ open[t]
  /\ \/ owner[t] = NoWorker /\ UNCHANGED faults
     \/ owner[t] \in Batchers \ {s} /\ Faulty("lease lost")
  /\ Queue!Begin({t})
  /\ owner' = [owner EXCEPT ![t] = s]
  /\ screen' = [screen EXCEPT ![s] = Began({t}, FALSE, "claimed")]
  /\ stray' = [stray EXCEPT ![t] = FALSE]
  /\ UNCHANGED <<data, clock, refresh, open, snap>>

\* The market cycle assesses every ticker, a detail refresh a chosen one.
StartRun(s, scope, full) ==
  /\ screen[s].step = "idle"
  /\ full => scope = Tickers
  /\ screen' = [screen EXCEPT ![s] = Began(scope, full, "claimed")]
  /\ UNCHANGED <<data, clock, refresh, ledger, owner, open, snap, stray, faults>>

\* list_all_snapshots(), once, at the start.
ReadCached(s) ==
  /\ screen[s].step = "claimed"
  /\ screen' = [screen EXCEPT ![s].step = "cached",
                              ![s].cached = [t \in Tickers |->
                                 IF t \in screen[s].scope THEN snap[t] ELSE NoSnap]]
  /\ UNCHANGED <<data, clock, refresh, ledger, owner, open, snap, stray, faults>>

\* input_revisions(), once, before the first batch.
ReadRevisions(s) ==
  /\ screen[s].step = "cached"
  /\ screen' = [screen EXCEPT ![s].step = "revised",
                              ![s].dep = [t \in Tickers |->
                                 IF t \in screen[s].scope THEN data[t] ELSE 0]]
  /\ UNCHANGED <<data, clock, refresh, ledger, owner, open, snap, stray, faults>>

\* Mutant: any cached snapshot is taken over.
ReusableAlways(s, t) == screen[s].cached[t] # NoSnap

\* A cached snapshot with the same dependency hash is taken over unread.
Reusable(s, t) ==
  /\ screen[s].cached[t] # NoSnap
  /\ screen[s].cached[t].dep = screen[s].dep[t]

\* Otherwise the inputs are loaded now and the ticker is scored, unless its
\* prices do not allow an assessment or the calculation fails.
Assess(s, t) ==
  /\ screen[s].step = "revised"
  /\ t \in screen[s].todo
  /\ \E result \in Snaps :
       /\ IF Reusable(s, t)
            THEN result = screen[s].cached[t] /\ UNCHANGED faults
            ELSE \/ /\ result = [content |-> data[t], dep |-> screen[s].dep[t]]
                    /\ UNCHANGED faults
                 \/ result = NoSnap /\ Faulty("unscorable")
       /\ screen' = [screen EXCEPT ![s].todo = @ \ {t}, ![s].out[t] = result]
  /\ UNCHANGED <<data, clock, refresh, ledger, owner, open, snap, stray>>

\* Mutant: the dependency hash is read again for the publication.
PublishedRehashed(s) ==
  [t \in Tickers |->
     IF screen[s].out[t] # NoSnap
       THEN [content |-> screen[s].out[t].content, dep |-> data[t]]
     ELSE IF screen[s].full THEN NoSnap ELSE snap[t]]

\* replace_snapshots(): one transaction; a full run also deletes the rows it
\* did not score; without any result nothing is published.
Published(s) ==
  [t \in Tickers |->
     IF screen[s].out[t] # NoSnap THEN screen[s].out[t]
     ELSE IF screen[s].full THEN NoSnap ELSE snap[t]]

\* A screening that does not hold the row of t leaves something else than an
\* assessment of the present report: an older one, or none.
Strays(s, t) ==
  /\ owner[t] # s
  /\ snap'[t] # snap[t]
  /\ snap'[t].content # data[t]

Publish(s) ==
  /\ screen[s].step = "revised"
  /\ screen[s].todo = {}
  /\ snap' = IF \E t \in Tickers : screen[s].out[t] # NoSnap
               THEN Published(s) ELSE snap
  /\ screen' = [screen EXCEPT ![s] =
                   IF s \in Batchers
                     THEN [IdleScreen EXCEPT !.step = "published",
                             !.scope = screen[s].scope, !.out = screen[s].out]
                     ELSE IdleScreen]
  /\ stray' = [t \in Tickers |-> stray[t] \/ Strays(s, t)]
  /\ UNCHANGED <<data, clock, refresh, ledger, owner, open, faults>>

\* Mutant: the result settles the row whatever was requested meanwhile.
FinishBlindly(s) ==
  /\ screen[s].step = "published"
  /\ \E t \in screen[s].scope :
       /\ owner[t] = s
       /\ done' = [done EXCEPT ![t] = want[t]]
       /\ began' = [began EXCEPT ![t] = None]
       /\ open' = [open EXCEPT ![t] = screen[s].out[t] = NoSnap]
       /\ owner' = [owner EXCEPT ![t] = NoWorker]
  /\ screen' = [screen EXCEPT ![s] = IdleScreen]
  /\ UNCHANGED <<data, clock, refresh, want, snap, stray, faults>>

\* finish(): refused without the token; queued again after a newer request;
\* settled otherwise, and checked again later when it could not be scored.
FinishBatch(s) ==
  /\ screen[s].step = "published"
  /\ \E t \in screen[s].scope :
       IF owner[t] = s
         THEN /\ IF want[t] = began[t]
                   THEN /\ Queue!Settle(t)
                        /\ open' = [open EXCEPT ![t] = screen[s].out[t] = NoSnap]
                   ELSE Queue!Drop({t}) /\ UNCHANGED open
              /\ owner' = [owner EXCEPT ![t] = NoWorker]
         ELSE UNCHANGED <<ledger, open, owner>>
  /\ screen' = [screen EXCEPT ![s] = IdleScreen]
  /\ UNCHANGED <<data, clock, refresh, snap, stray, faults>>

\* A database error or a cancelled job ends the screening of a batch: nothing
\* is published and the row is finished as an error, to be checked again.
BatchAborts(s) ==
  /\ Faulty("abort")
  /\ screen[s].step \in {"claimed", "cached", "revised"}
  /\ screen' = [screen EXCEPT ![s] = [IdleScreen EXCEPT !.step = "published",
                                         !.scope = screen[s].scope]]
  /\ UNCHANGED <<data, clock, refresh, ledger, owner, open, snap, stray>>

\* A process dies, or a run without a row is cancelled or fails.  The row of a
\* dead batcher is free again when its lease has run out.
ScreenDies(s) ==
  /\ Faulty("death")
  /\ screen[s].step # "idle"
  /\ LET held == {t \in Tickers : owner[t] = s}
     IN  /\ Queue!Drop(held)
         /\ owner' = [t \in Tickers |-> IF t \in held THEN NoWorker ELSE owner[t]]
  /\ screen' = [screen EXCEPT ![s] = IdleScreen]
  /\ UNCHANGED <<data, clock, refresh, open, snap, stray>>

------------------------------------------------------------------------------
StoreSome(w)  == \E t \in Tickers : Store(w, t)
ClaimSome(s)  == \E t \in Tickers : ClaimBatch(s, t)
AssessSome(s) == \E t \in Tickers : Assess(s, t)
FullRun(s)    == StartRun(s, Tickers, TRUE)
DetailRun(s)  == \E t \in Tickers : StartRun(s, {t}, FALSE)

Proceed(s) == ReadCached(s) \/ ReadRevisions(s) \/ AssessSome(s) \/ Publish(s)

Next ==
  \/ \E w \in Refreshers :
       StoreSome(w) \/ Stamp(w) \/ Request(w) \/ RefresherDies(w)
  \/ \E t \in Tickers : StoreAside(t)
  \/ \E s \in Batchers : ClaimSome(s) \/ BatchAborts(s) \/ FinishBatch(s)
  \/ \E s \in Runners : FullRun(s) \/ DetailRun(s)
  \/ \E s \in Screens : Proceed(s) \/ ScreenDies(s)

Spec == Init /\ [][Next]_vars

\* Running tasks go on; the report dispatch claims what is open every minute;
\* the market cycle starts again and again.  No report ever has to change.
Fairness ==
  /\ \A w \in Refreshers : WF_vars(Stamp(w)) /\ WF_vars(Request(w))
  /\ \A s \in Batchers : WF_vars(ClaimSome(s)) /\ WF_vars(FinishBatch(s))
  /\ \A s \in Runners : WF_vars(FullRun(s))
  /\ \A s \in Screens : WF_vars(Proceed(s))

FairSpec == Spec /\ Fairness

------------------------------------------------------------------------------
\* Properties.

\* Reuse never freezes an old assessment: whenever the dependency hash of a
\* snapshot matches the current inputs, the snapshot was computed from them,
\* although hash and inputs are read in different transactions.
MatchingHashMeansCurrent ==
  \A t \in Tickers : snap[t].dep = data[t] => snap[t].content = data[t]

\* The row of t has been settled and nothing is under way for it.
AtRest(t) ==
  /\ want[t] # None
  /\ owner[t] = NoWorker
  /\ ~open[t]
  /\ \A w \in Refreshers : refresh[w].ticker # t

\* When the queue calls an assessment current, the published snapshot was
\* computed from the newest fundamentals: a request dropped for its earlier
\* timestamp, a change during the run, a lost lease, an abort, market runs
\* beside the batch or two refreshers on one ticker lose nothing.  Only three
\* things can make it stale, until the row is claimed again: a refresher dies
\* between its write and its request, fundamentals are changed aside, or a
\* screening without the row (a market run, a batch that lost its lease)
\* publishes what it has read earlier, or drops the ticker.
SettledIsFresh ==
  \A t \in Tickers : AtRest(t) /\ ~stray[t] => snap[t].content = data[t]

\* Once reports stop changing, every published assessment becomes and stays
\* current: the market cycle repairs lost requests, changes made aside and late
\* publications.
EventuallyFresh ==
  <>[](\A t \in Tickers : snap[t] # NoSnap => snap[t].content = data[t])
=============================================================================
