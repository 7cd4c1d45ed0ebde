---------------------------- MODULE RefreshWork ----------------------------
(***************************************************************************)
(* The durable work queue of the report maintenance: the Postgres table     *)
(* refresh_work_items and the operations of                                 *)
(* backend/app/repositories/refresh_work.py, driven by report workers that  *)
(* claim leased items, keep the leases alive from a background thread and   *)
(* finish the items (workers/tasks/refresh_report_data.py).                 *)
(*                                                                          *)
(* One row exists per key (data group and ticker).  A row carries the       *)
(* revision that was last requested; a claim snapshots it, and the result   *)
(* of a claim only settles the row when that revision is still the wanted   *)
(* one.  Every operation is one database transaction and one action here,   *)
(* except the two that read rows without locking them and write afterwards: *)
(* heartbeat_many, and the reclassification of statements rows              *)
(* (services/report_reclassification.py), which the deployment starts by    *)
(* hand beside the running workers.                                         *)
(*                                                                          *)
(* Time is relative: due is the number of ticks until due_at (0 or less:    *)
(* due); beyond the age the claim order counts only the order of the rows   *)
(* is kept.  lease is the number of ticks until lease_until, Expired once   *)
(* it lies in the past, NoLease for the SQL NULL.  So no clock grows        *)
(* without bound.                                                           *)
(***************************************************************************)
EXTENDS Integers, FiniteSets

CONSTANTS
  Keys,          \* the primary keys "<group>:<ticker>" in play
  Workers,       \* report worker processes (celery slots of the report queue)
  Tokens,        \* lease tokens; a claim takes one nobody holds (a fresh uuid4)
  NoToken,       \* the NULL lease_token
  GroupOf,       \* data_group of a key
  MaxRevision,   \* bound: revisions 1..MaxRevision may be requested
  Priorities,    \* priorities the planners ask for (smaller is more urgent)
  FirstDues,     \* ticks after which a baseline request may fall due
  MaxAttempts,   \* attempt number from which the retry delay stays the same
  Backoff,       \* retry delay by attempt number
  SlowSources,   \* delays for gaps no quick retry can fill (rate limit, IPO)
  CurrentDelays, \* delays until the next routine check of a complete item
  LeaseTicks,    \* the five minutes of a lease, in ticks
  AgeCap,        \* ageing counted by the claim order, in ticks
  BatchLimit,    \* most items of one assessment batch
  DeclaredDelays,     \* delays of a row declared current by reclassification
  DiagnosticPriority, \* least urgency of a diagnosis reclassification asks for
  MaxPages,      \* bound: reclassified pages per behaviour
  MaxFaults      \* bound: crashes and broken heartbeat threads per behaviour

Baseline  == 0                     \* the string "baseline" sorts first
Revisions == 0..MaxRevision
NoCheck   == -1                    \* checked_at is NULL
Expired   == -1
NoLease   == -2
Groups    == {"statements", "beta", "assessment", "sec13f", "filings"}
Settled   == {"current", "waiting_source", "error"}

ASSUME ConstantsAssumption ==
  /\ NoToken \notin Tokens
  /\ GroupOf \in [Keys -> Groups]
  /\ MaxRevision \in Nat
  /\ Priorities \subseteq Nat
  /\ FirstDues \subseteq Nat
  /\ MaxAttempts \in Nat \ {0}
  /\ Backoff \in [1..MaxAttempts -> Nat \ {0}]
  /\ SlowSources \subseteq Nat \ {0}
  /\ CurrentDelays \subseteq Nat \ {0}
  /\ LeaseTicks \in Nat \ {0}
  /\ AgeCap \in Nat
  /\ BatchLimit \in Nat \ {0}
  /\ DeclaredDelays \subseteq Nat \ {0}
  /\ DiagnosticPriority \in Nat
  /\ MaxPages \in Nat
  /\ MaxFaults \in Nat

VARIABLES
  row,    \* refresh_work_items, by key
  held,   \* worker -> the items it has claimed and not yet finished
  phase,  \* worker -> "idle", "more" (about to batch) or "work"
  beat,   \* worker -> its leases are cared for (claiming, or keep_alive runs)
  late,   \* worker -> leases a heartbeat_many has decided to write
  sheet,  \* key -> what the reclassification has decided to write
  pages,  \* pages it has read so far (bounds the behaviours, not code)
  declared,  \* key -> the revision it last declared current (history)
  faults  \* faults so far (bounds the behaviours, not code)

reclass == <<sheet, pages, declared>>
vars    == <<row, held, phase, beat, late, reclass, faults>>

Row == [status   : {"absent", "queued", "running"} \cup Settled,
        revision : Revisions,
        due      : Int,
        priority : Nat,
        token    : Tokens \cup {NoToken},
        lease    : NoLease..LeaseTicks,
        attempts : 0..MaxAttempts,
        result   : {"none", "complete", "partial"},
        checked  : Revisions \cup {NoCheck}]

NoRow == [status |-> "absent", revision |-> Baseline, due |-> 0,
          priority |-> 0, token |-> NoToken, lease |-> NoLease,
          attempts |-> 0, result |-> "none", checked |-> NoCheck]

\* What claim() hands to the worker: a snapshot of the row and its token.
Item == [key : Keys, revision : Revisions, token : Tokens,
         attempts : 1..MaxAttempts]

\* An unlocked heartbeat write in flight: rows chosen, and the deadline.
NoWrite  == [keys |-> {}, left |-> Expired]
LateHeartbeat == [keys : SUBSET Keys, left : Expired..LeaseTicks]

\* What the reclassification decides for a row: the columns it will write.
Change == [verdict : {"none", "reason", "declare", "diagnose"},
           status  : {"kept", "current", "queued"},
           due     : Int,
           urgent  : BOOLEAN,
           result  : {"kept", "complete", "partial"}]

NoChange == [verdict |-> "none", status |-> "kept", due |-> 0,
             urgent |-> FALSE, result |-> "kept"]

TypeOK ==
  /\ row \in [Keys -> Row]
  /\ held \in [Workers -> SUBSET Item]
  /\ phase \in [Workers -> {"idle", "more", "work"}]
  /\ beat \in [Workers -> BOOLEAN]
  /\ late \in [Workers -> LateHeartbeat]
  /\ sheet \in [Keys -> Change]
  /\ pages \in 0..MaxPages
  /\ declared \in [Keys -> Revisions \cup {NoCheck}]
  /\ faults \in 0..MaxFaults

Init ==
  /\ row = [k \in Keys |-> NoRow]
  /\ held = [w \in Workers |-> {}]
  /\ phase = [w \in Workers |-> "idle"]
  /\ beat = [w \in Workers |-> FALSE]
  /\ late = [w \in Workers |-> NoWrite]
  /\ sheet = [k \in Keys |-> NoChange]
  /\ pages = 0
  /\ declared = [k \in Keys |-> NoCheck]
  /\ faults = 0

------------------------------------------------------------------------------
\* Requests: enqueue() and wake_price_dependents().

\* The INSERT of a key nobody planned before.
NewRow(r, d, p) ==
  [NoRow EXCEPT !.status = "queued", !.revision = r, !.due = d, !.priority = p]

\* Mutant: the WHERE accepts any other revision.
SupersedesAnyOther(k, r, d) == r # Baseline /\ r # row[k].revision

\* The WHERE of ON CONFLICT DO UPDATE: a newer revision, or a baseline plan
\* that brings a current statement check forward.
Supersedes(k, r, d) ==
  \/ r # Baseline /\ r > row[k].revision
  \/ /\ r = Baseline
     /\ GroupOf[k] = "statements"
     /\ row[k].status = "current"
     /\ d < row[k].due

\* Mutant: the SET queues a running row again, under its owner's feet.
UpdatedRestarting(k, r, d, p) ==
  [row[k] EXCEPT !.revision = IF r = Baseline THEN @ ELSE r,
                 !.due = d, !.priority = p, !.attempts = 0,
                 !.status = IF r = Baseline THEN "current" ELSE "queued"]

\* The SET of ON CONFLICT DO UPDATE.  The lease columns and checked_at stay.
Updated(k, r, d, p) ==
  [row[k] EXCEPT
     !.revision = IF r = Baseline THEN @ ELSE r,
     !.due      = d,
     !.priority = p,
     !.attempts = 0,
     !.result   = IF r = Baseline THEN @ ELSE "none",
     !.status   = IF @ = "running" THEN "running"
                  ELSE IF r = Baseline THEN "current" ELSE "queued"]

Enqueue(k, r, d, p) ==
  /\ \/ /\ row[k].status = "absent"
        /\ row' = [row EXCEPT ![k] = NewRow(r, d, p)]
     \/ /\ row[k].status # "absent"
        /\ Supersedes(k, r, d)
        /\ row' = [row EXCEPT ![k] = Updated(k, r, d, p)]

\* plan_report_work(): routine checks carry the revision "baseline";
\* assessments have none, they follow changed reports.
PlanBaseline(k) ==
  /\ GroupOf[k] # "assessment"
  /\ \E d \in FirstDues, p \in Priorities : Enqueue(k, Baseline, d, p)
  /\ UNCHANGED <<held, phase, beat, late, reclass, faults>>

\* An earnings event, a filing or a changed report asks for a new revision,
\* always due at once; the other groups know routine checks only.
RequestRevision(k) ==
  /\ GroupOf[k] \in {"statements", "assessment"}
  /\ \E r \in Revisions \ {Baseline}, p \in Priorities : Enqueue(k, r, 0, p)
  /\ UNCHANGED <<held, phase, beat, late, reclass, faults>>

\* New prices can satisfy the gate of waiting beta and assessment work.
WakeWaiting(k) ==
  /\ row[k].status = "waiting_source"
  /\ GroupOf[k] \in {"beta", "assessment"}
  /\ row[k].due > 0
  /\ row' = [row EXCEPT ![k].status = "queued", ![k].due = 0]
  /\ UNCHANGED <<held, phase, beat, late, reclass, faults>>

------------------------------------------------------------------------------
\* Claiming.

\* Mutant: a running row is left to its worker for ever.
ClaimableNotRunning(k) ==
  row[k].status \notin {"absent", "running"} /\ row[k].due <= 0

Claimable(k) ==
  /\ row[k].status # "absent"
  /\ row[k].due <= 0
  /\ row[k].status # "running" \/ row[k].lease = Expired

\* priority - least(age, cap)
Score(k) == row[k].priority + (IF row[k].due < -AgeCap THEN -AgeCap
                               ELSE row[k].due)

\* Mutant: the newest date first.
BeforeNewestFirst(j, k) ==
  \/ Score(j) < Score(k)
  \/ Score(j) = Score(k) /\ row[j].due > row[k].due

\* ORDER BY score, due_at; the order of the keys beyond that is left open.
BeforeInClaim(j, k) ==
  \/ Score(j) < Score(k)
  \/ Score(j) = Score(k) /\ row[j].due < row[k].due

BeforeInBatch(j, k) ==
  \/ row[j].priority < row[k].priority
  \/ row[j].priority = row[k].priority /\ row[j].due < row[k].due

FirstClaims(S) == {k \in S : \A j \in S : ~BeforeInClaim(j, k)}

\* Mutant: tokens that repeat, such as one derived from the key.
RepeatedTokens(k) == Tokens \ {row[j].token : j \in Keys \ {k}}

\* A uuid4 nobody has seen: not in the hands of a worker, not on another row.
FreshTokens(k) ==
  Tokens \ ({row[j].token : j \in Keys \ {k}}
              \cup {it.token : it \in UNION {held[w] : w \in Workers}})

\* Mutant: nothing bounds the index into the table of delays.
AttemptUncapped(n) == n + 1

\* row.attempts += 1, counted as far as the table of delays goes.
Attempt(n) == IF n < MaxAttempts THEN n + 1 ELSE n

\* Mutant: the claim forgets the deadline.
LeasedForever(k, t) ==
  [row[k] EXCEPT !.status = "running", !.token = t, !.attempts = Attempt(@)]

Leased(k, t) ==
  [row[k] EXCEPT !.status = "running", !.token = t, !.lease = LeaseTicks,
                 !.attempts = Attempt(@)]

Snapshot(k, t) ==
  [key |-> k, revision |-> row[k].revision, token |-> t,
   attempts |-> Attempt(row[k].attempts)]

\* claim(): the most urgent due item; 13F archives only inside the night
\* window.  A package then batches assessments or starts to work.
Claim(w, allowSec) ==
  /\ phase[w] = "idle"
  /\ \E k \in FirstClaims({j \in Keys : /\ Claimable(j)
                                        /\ GroupOf[j] = "sec13f" => allowSec}) :
       \E t \in FreshTokens(k) :
         /\ row' = [row EXCEPT ![k] = Leased(k, t)]
         /\ held' = [held EXCEPT ![w] = {Snapshot(k, t)}]
         /\ phase' = [phase EXCEPT ![w] =
                        IF GroupOf[k] = "assessment" THEN "more" ELSE "work"]
         /\ beat' = [beat EXCEPT ![w] = TRUE]
  /\ UNCHANGED <<late, reclass, faults>>

\* claim_more("assessment", limit = BatchLimit - 1): the next due assessments,
\* each under a token of its own, in a second transaction.
ClaimMore(w) ==
  LET due == {k \in Keys : GroupOf[k] = "assessment" /\ Claimable(k)}
  IN
  /\ phase[w] = "more"
  /\ \E batch \in SUBSET due :
       /\ Cardinality(batch) <= BatchLimit - 1
       /\ batch = due \/ Cardinality(batch) = BatchLimit - 1
       /\ \A j \in due \ batch, k \in batch : ~BeforeInBatch(j, k)
       /\ \E t \in [batch -> Tokens] :
            /\ \A k \in batch : t[k] \in FreshTokens(k)
            /\ \A j, k \in batch : t[j] = t[k] => j = k
            /\ row' = [k \in Keys |-> IF k \in batch THEN Leased(k, t[k])
                                      ELSE row[k]]
            /\ held' = [held EXCEPT
                          ![w] = @ \cup {Snapshot(k, t[k]) : k \in batch}]
  /\ phase' = [phase EXCEPT ![w] = "work"]
  /\ beat' = [beat EXCEPT ![w] = TRUE]
  /\ UNCHANGED <<late, reclass, faults>>

------------------------------------------------------------------------------
\* Keeping the lease alive.

Owns(it) == row[it.key].token = it.token

Batched(w) == \E it \in held[w] : GroupOf[it.key] = "assessment"

\* heartbeat(): the row is locked and its token compared; the thread ends
\* when the token is no longer its own.
Heartbeat(w) ==
  /\ phase[w] = "work"
  /\ beat[w]
  /\ ~Batched(w)
  /\ \E it \in held[w] :
       IF Owns(it)
         THEN /\ row' = [row EXCEPT ![it.key].lease = LeaseTicks]
              /\ UNCHANGED beat
         ELSE /\ beat' = [beat EXCEPT ![w] = FALSE]
              /\ UNCHANGED row
  /\ UNCHANGED <<held, phase, late, reclass, faults>>

\* heartbeat_many(): the SELECT takes no lock ...
ReadHeartbeat(w) ==
  /\ phase[w] = "work"
  /\ beat[w]
  /\ Batched(w)
  /\ late[w] = NoWrite
  /\ LET own == {it.key : it \in {i \in held[w] : Owns(i)}}
     IN  /\ own # {}
         /\ late' = [late EXCEPT ![w] = [keys |-> own, left |-> LeaseTicks]]
  /\ UNCHANGED <<row, held, phase, beat, reclass, faults>>

\* ... and the UPDATE by primary key does not look at the token again.
WriteHeartbeat(w) ==
  /\ late[w] # NoWrite
  /\ row' = [k \in Keys |->
               IF k \in late[w].keys THEN [row[k] EXCEPT !.lease = late[w].left]
               ELSE row[k]]
  /\ late' = [late EXCEPT ![w] = NoWrite]
  /\ UNCHANGED <<held, phase, beat, reclass, faults>>

------------------------------------------------------------------------------
\* Finishing.

\* The delays _run_item and _run_assessment_batch choose for an outcome.
Delays(it, outcome) ==
  CASE outcome = "current"        -> CurrentDelays
    [] outcome = "waiting_source" -> {Backoff[it.attempts]} \cup SlowSources
    [] outcome = "error"          -> {Backoff[it.attempts]}

ResultOf(outcome) == CASE outcome = "current"        -> "complete"
                       [] outcome = "waiting_source" -> "partial"
                       [] outcome = "error"          -> "none"

\* Mutant: the revision is not compared.
FinishedBlindly(it, outcome, d) ==
  [row[it.key] EXCEPT !.status = outcome, !.due = d,
                      !.result = ResultOf(outcome), !.checked = it.revision,
                      !.token = NoToken, !.lease = NoLease]

\* finish(): refused for a stranger's token, given back when a newer revision
\* arrived meanwhile, settled otherwise.
Finished(it, outcome, d) ==
  IF row[it.key].revision # it.revision
    THEN [row[it.key] EXCEPT !.status = "queued", !.due = 0,
                             !.token = NoToken, !.lease = NoLease]
    ELSE [row[it.key] EXCEPT !.status = outcome, !.due = d,
                             !.result = ResultOf(outcome),
                             !.checked = it.revision,
                             !.token = NoToken, !.lease = NoLease]

\* Mutant: the token is not compared.
FinishByAnyone(w, it, outcome) ==
  /\ phase[w] = "work"
  /\ it \in held[w]
  /\ \E d \in Delays(it, outcome) :
       row' = [row EXCEPT ![it.key] = Finished(it, outcome, d)]
  /\ held' = [held EXCEPT ![w] = @ \ {it}]
  /\ phase' = [phase EXCEPT ![w] = IF held[w] = {it} THEN "idle" ELSE @]
  /\ beat' = [beat EXCEPT ![w] = @ /\ held[w] # {it}]
  /\ UNCHANGED <<late, reclass, faults>>

Finish(w, it, outcome) ==
  /\ phase[w] = "work"
  /\ it \in held[w]
  /\ \E d \in Delays(it, outcome) :
       row' = IF Owns(it) THEN [row EXCEPT ![it.key] = Finished(it, outcome, d)]
              ELSE row
  /\ held' = [held EXCEPT ![w] = @ \ {it}]
  /\ IF held[w] = {it}
       THEN /\ phase' = [phase EXCEPT ![w] = "idle"]
            /\ beat' = [beat EXCEPT ![w] = FALSE]
       ELSE UNCHANGED <<phase, beat>>
  /\ UNCHANGED <<late, reclass, faults>>

------------------------------------------------------------------------------
\* Reclassification of statements rows (reclassify_batch()).

\* What it may decide for a row as read, whatever the evidence in the snapshot
\* and the instrument: to write only the reason and the completeness; to declare
\* a row current that needs no statements, or whose foreign issuer has all it
\* files; to ask for a diagnosis.  A column is written when its value changes.
Verdicts(r) ==
  LET Results == {"complete", "partial"}
                   \cup (IF r.result = "none" THEN {} ELSE {"kept"})
  IN  {NoChange}
      \cup [verdict : {"reason"}, status : {"kept"}, due : {0},
            urgent : {FALSE}, result : Results \ {"kept"}]
      \cup [verdict : {"declare"},
            status : {IF r.status = "current" THEN "kept" ELSE "current"},
            due : DeclaredDelays, urgent : {FALSE}, result : Results]
      \cup [verdict : {"diagnose"},
            status : {IF r.status = "queued" THEN "kept" ELSE "queued"},
            due : {0}, urgent : {r.priority > DiagnosticPriority}, result : Results]

\* The SELECT of one page of tickers takes no lock; running rows are left out
\* as they are read.  A page that is read before the last one was written
\* replaces it: the process before died in between, and was started again ...
ReadPage ==
  /\ pages < MaxPages
  /\ \E page \in SUBSET {k \in Keys : /\ GroupOf[k] = "statements"
                                     /\ row[k].status \notin {"absent", "running"}} :
       \E v \in [page -> UNION {Verdicts(row[k]) : k \in page}] :
         /\ \A k \in page : v[k] \in Verdicts(row[k])
         /\ sheet' = [k \in Keys |-> IF k \in page THEN v[k] ELSE NoChange]
  /\ pages' = pages + 1
  /\ UNCHANGED <<row, held, phase, beat, late, declared, faults>>

\* The changed columns; revision, attempts and the lease columns are not among
\* them, and neither the status nor the revision is looked at again.
Reclassified(k) ==
  LET c == sheet[k] IN
  [row[k] EXCEPT
     !.status   = IF c.status = "kept" THEN @ ELSE c.status,
     !.due      = IF c.verdict \in {"declare", "diagnose"} THEN c.due ELSE @,
     !.priority = IF c.urgent THEN DiagnosticPriority ELSE @,
     !.result   = IF c.result = "kept" THEN @ ELSE c.result]

\* ... and the commit writes the page by primary key.
WritePage ==
  /\ \E k \in Keys : sheet[k] # NoChange
  /\ row' = [k \in Keys |-> Reclassified(k)]
  /\ declared' = [k \in Keys |-> IF sheet[k].verdict = "declare"
                                   THEN row[k].revision ELSE declared[k]]
  /\ sheet' = [k \in Keys |-> NoChange]
  /\ UNCHANGED <<held, phase, beat, late, pages, faults>>

------------------------------------------------------------------------------
\* Faults and time.

\* keep_alive returns on the first exception and is never restarted; or the
\* worker hangs for minutes between its claim and the start of the thread.
BeatDies(w) ==
  /\ faults < MaxFaults
  /\ beat[w]
  /\ beat' = [beat EXCEPT ![w] = FALSE]
  /\ faults' = faults + 1
  /\ UNCHANGED <<row, held, phase, late, reclass>>

\* The worker process dies, or an exception outside _run_item ends the
\* package: the claimed rows keep their token and lease.
Crash(w) ==
  /\ faults < MaxFaults
  /\ phase[w] # "idle"
  /\ held' = [held EXCEPT ![w] = {}]
  /\ phase' = [phase EXCEPT ![w] = "idle"]
  /\ beat' = [beat EXCEPT ![w] = FALSE]
  /\ late' = [late EXCEPT ![w] = NoWrite]
  /\ faults' = faults + 1
  /\ UNCHANGED <<row, reclass>>

\* A keep_alive thread starts right after the claims and beats every 30
\* seconds, ten times per lease: no lease it cares for runs out.
BeatsInTime ==
  \A w \in Workers : beat[w] =>
    \A it \in held[w] : Owns(it) => row[it.key].lease # 0

\* due_at keeps the order of the rows for ever; a row older than AgeCap only
\* needs its place among the old ones, so its age is the number of younger
\* dates there.
Older(d) == IF d > -AgeCap THEN d - 1
            ELSE -AgeCap - Cardinality({e \in {row[j].due : j \in Keys} :
                                          d < e /\ e <= -AgeCap + 1})

\* The dates a reclassification will write, read from its clock before the
\* rows, grow older as well, as far as the claim order counts.
Aged(c) ==
  [c EXCEPT !.due = IF c.verdict \in {"declare", "diagnose"} /\ @ > -AgeCap
                      THEN @ - 1 ELSE @]

Tick ==
  /\ BeatsInTime
  /\ row' = [k \in Keys |->
       [row[k] EXCEPT
          !.due   = IF row[k].status # "absent" THEN Older(@) ELSE @,
          !.lease = IF @ > Expired THEN @ - 1 ELSE @]]
  /\ late' = [w \in Workers |->
       [late[w] EXCEPT !.left = IF @ > Expired THEN @ - 1 ELSE @]]
  /\ sheet' = [k \in Keys |-> Aged(sheet[k])]
  /\ UNCHANGED <<held, phase, beat, pages, declared, faults>>

------------------------------------------------------------------------------
ClaimSome(w)  == \E allowSec \in BOOLEAN : Claim(w, allowSec)
FinishSome(w) == \E it \in held[w], outcome \in Settled : Finish(w, it, outcome)

Next ==
  \/ \E k \in Keys : PlanBaseline(k)
  \/ \E k \in Keys : RequestRevision(k)
  \/ \E k \in Keys : WakeWaiting(k)
  \/ \E w \in Workers : ClaimSome(w)
  \/ \E w \in Workers : ClaimMore(w)
  \/ \E w \in Workers : Heartbeat(w)
  \/ \E w \in Workers : ReadHeartbeat(w)
  \/ \E w \in Workers : WriteHeartbeat(w)
  \/ \E w \in Workers : FinishSome(w)
  \/ ReadPage
  \/ WritePage
  \/ \E w \in Workers : BeatDies(w)
  \/ \E w \in Workers : Crash(w)
  \/ Tick

Spec == Init /\ [][Next]_vars

\* The dispatch task runs every minute, a claimed package runs to its end
\* unless the process dies, the keep_alive thread beats, and time passes.
\* Nothing makes a planner ask, a price arrive or a fault happen.
Fairness ==
  /\ WF_vars(Tick)
  /\ \A w \in Workers :
       /\ WF_vars(ClaimSome(w))
       /\ WF_vars(ClaimMore(w))
       /\ WF_vars(FinishSome(w))
       /\ WF_vars(Heartbeat(w))
       /\ WF_vars(ReadHeartbeat(w))
       /\ WF_vars(WriteHeartbeat(w))

FairSpec == Spec /\ Fairness

------------------------------------------------------------------------------
\* Properties.

\* Reclassification declared the row current (or put its date off) for the
\* revision it asks for now.
DeclaredFor(k) == GroupOf[k] = "statements" /\ declared[k] = row[k].revision

\* A settled row was settled by an attempt that started from exactly the
\* revision the row still asks for: a result for an older revision never
\* marks a newer one as done (finish compares the revisions).  The one
\* exception is a statements row that reclassification declared current, and
\* it ends with the next request: the row is then checked again.
SettledForItsRevision ==
  \A k \in Keys : row[k].status \in Settled =>
    \/ row[k].checked = row[k].revision
    \/ row[k].status = "current" /\ DeclaredFor(k)

\* Work whose owner died stays reachable: a running row carries a deadline and
\* is due, so it becomes claimable when that deadline passes, whatever
\* requests, unlocked heartbeats and finishes happened meanwhile.  Only a
\* reclassification that read a statements row before its claim can put that
\* moment off, and the next request for the row takes this back.
RunningIsRecoverable ==
  \A k \in Keys : row[k].status = "running" =>
    /\ row[k].due <= 0 \/ DeclaredFor(k)
    /\ row[k].lease # NoLease
    /\ row[k].token # NoToken

\* At most one attempt may still settle a row, also after its lease ran out
\* and another worker took the row over.
SingleOwner ==
  \A v, w \in Workers : \A i \in held[v], j \in held[w] :
    (i.key = j.key /\ Owns(i) /\ Owns(j)) => (v = w /\ i = j)

\* A running row stops running only because the attempt that holds its token
\* hands it in, or because a reclassification that read the row before its
\* claim writes the status it then decided on: no late finish of a replaced
\* owner, no request and no price update takes a row away from its owner.
OnlyOwnerEndsRun ==
  [][\A k \in Keys :
       (row[k].status = "running" /\ row'[k].status # "running") =>
         \/ \E w \in Workers : \E it \in held[w] :
              it.key = k /\ Owns(it) /\ it \notin held'[w]
         \/ /\ GroupOf[k] = "statements"
            /\ row'[k].status = sheet[k].status
            /\ sheet'[k] = NoChange /\ held' = held]_vars

\* The wanted revision of a key never goes back, in whatever order the
\* planner, the filing scan and the report workers ask.
RevisionsAdvance ==
  [][\A k \in Keys : row'[k].revision >= row[k].revision]_vars

\* Whatever is asked for is checked in the end, or replaced by something
\* newer, although workers die and leases are lost (finitely often).
RequestsAreChecked ==
  \A k \in Keys, r \in Revisions :
    (row[k].status # "absent" /\ row[k].revision = r)
      ~> (row[k].checked = r \/ row[k].revision > r)

\* What the queue tells the ledger: the revision a row asks for, the revision
\* from which the attempt began whose token the row carries, and the revision
\* the row was last checked for.
LiveAttempts(k) == {it \in UNION {held[w] : w \in Workers} :
                      it.key = k /\ Owns(it)}

Wanted    == [k \in Keys |-> IF row[k].status = "absent" THEN NoCheck
                             ELSE row[k].revision]
BeganFrom == [k \in Keys |-> IF LiveAttempts(k) = {} THEN NoCheck
                             ELSE (CHOOSE it \in LiveAttempts(k) : TRUE).revision]
Checked   == [k \in Keys |-> row[k].checked]

Ledger == INSTANCE RevisionLedger
            WITH want <- Wanted, began <- BeganFrom, done <- Checked

\* Leases, tokens, heartbeats, crashes and batches together do no more than
\* the ledger allows (enqueue, claim, claim_more, finish as one mechanism).
ImplementsLedger == Ledger!Spec

\* docs/refresh-operations.md:31: "current" means that the last check of the
\* item was successful; so the item has been checked.
CurrentWasChecked ==
  \A k \in Keys : row[k].status = "current" => row[k].checked # NoCheck

\* docs/refresh-operations.md:13 lets the retries for missing source data
\* begin with the shortest delay: a gap found by a routine check of an item
\* that was complete before is retried after Backoff[1].
FirstMissRetriesSoon ==
  [][\A k \in Keys :
       /\ row[k].status = "running"
       /\ row[k].result = "complete"
       /\ row'[k].status = "waiting_source"
       => row'[k].due <= Backoff[1]]_vars
=============================================================================
