------------------------ MODULE RefreshWork_proofs ------------------------
(***************************************************************************)
(* Theorems about the work queue for every number of keys, workers, tokens  *)
(* and revisions and every choice of delays, batch size and fault bound.    *)
(***************************************************************************)
EXTENDS RefreshWork, FiniteSetTheorems, TLAPS

------------------------------------------------------------------------------
\* What the proofs need of the constants, in the pieces they need it.

\* Every bound is positive or at least a number; NULL is no token.
LEMMA Bounds ==
  /\ MaxAttempts \in Nat \ {0}
  /\ LeaseTicks \in Nat \ {0}
  /\ AgeCap \in Nat
  /\ MaxRevision \in Nat
  /\ MaxFaults \in Nat
  /\ MaxPages \in Nat
  /\ DiagnosticPriority \in Nat
  /\ NoToken \notin Tokens
BY ConstantsAssumption DEF ConstantsAssumption

\* Dates and priorities the planners may ask for are natural numbers.
LEMMA Inputs ==
  /\ FirstDues \subseteq Nat
  /\ Priorities \subseteq Nat
BY ConstantsAssumption DEF ConstantsAssumption

\* Retry and routine delays are natural numbers.
LEMMA DelayTables ==
  /\ \A n \in 1..MaxAttempts : Backoff[n] \in Nat
  /\ SlowSources \subseteq Nat
  /\ CurrentDelays \subseteq Nat
  /\ DeclaredDelays \subseteq Nat
BY ConstantsAssumption DEF ConstantsAssumption

------------------------------------------------------------------------------
\* The shape of what the operations write.

\* The blank row of a key nobody planned is a row.
LEMMA NoRowType == NoRow \in Row
BY Bounds DEF NoRow, Row, Revisions, Baseline, NoCheck, NoLease, Settled

\* enqueue() inserts a row.
LEMMA NewRowType ==
  ASSUME NEW r \in Revisions, NEW d \in Int, NEW p \in Nat
  PROVE  NewRow(r, d, p) \in Row
BY NoRowType DEF NewRow, Row

\* enqueue() leaves a row where it updates one.
LEMMA UpdatedType ==
  ASSUME NEW k \in Keys, row[k] \in Row,
         NEW r \in Revisions, NEW d \in Int, NEW p \in Nat
  PROVE  Updated(k, r, d, p) \in Row
<1> DEFINE x == row[k]
           revision == IF r = Baseline THEN x.revision ELSE r
           result   == IF r = Baseline THEN x.result ELSE "none"
           status   == IF x.status = "running" THEN "running"
                       ELSE IF r = Baseline THEN "current" ELSE "queued"
<1>1. Updated(k, r, d, p) =
        [x EXCEPT !.revision = revision, !.due = d, !.priority = p, !.attempts = 0,
                  !.result = result, !.status = status]
  BY DEF Updated
<1>2. x \in Row /\ 0 \in 0..MaxAttempts
  BY Bounds
<1>3. revision \in Revisions
  BY <1>2 DEF Row
<1>4. result \in {"none", "complete", "partial"}
  BY <1>2 DEF Row
<1>5. status \in {"absent", "queued", "running"} \cup Settled
  BY DEF Settled
<1> HIDE DEF x, revision, result, status
<1>6. [x EXCEPT !.revision = revision, !.due = d, !.priority = p, !.attempts = 0,
                !.result = result, !.status = status] \in Row
  BY <1>2, <1>3, <1>4, <1>5 DEF Row
<1> QED
  BY <1>1, <1>6

\* The attempt counter stays an index into the table of delays.
LEMMA AttemptType ==
  ASSUME NEW n \in 0..MaxAttempts
  PROVE  Attempt(n) \in 1..MaxAttempts
BY Bounds DEF Attempt

\* claim() leaves a row.
LEMMA LeasedType ==
  ASSUME NEW k \in Keys, row[k] \in Row, NEW t \in Tokens
  PROVE  Leased(k, t) \in Row
<1>1. Attempt(row[k].attempts) \in 0..MaxAttempts
  BY AttemptType, Bounds DEF Row
<1>2. LeaseTicks \in NoLease..LeaseTicks
  BY Bounds DEF NoLease
<1> QED
  BY <1>1, <1>2 DEF Leased, Row

\* claim() hands out a work item.
LEMMA SnapshotType ==
  ASSUME NEW k \in Keys, row[k] \in Row, NEW t \in Tokens
  PROVE  Snapshot(k, t) \in Item
<1>1. Attempt(row[k].attempts) \in 1..MaxAttempts
  BY AttemptType DEF Row
<1> QED
  BY <1>1 DEF Snapshot, Item, Row

\* Whatever the outcome, the next check lies in the future or now.
LEMMA DelaysType ==
  ASSUME NEW it \in Item, NEW outcome \in Settled
  PROVE  Delays(it, outcome) \subseteq Nat
BY DelayTables DEF Delays, Settled, Item

\* A row stays one under a new status and date.
LEMMA RescheduledType ==
  ASSUME NEW r \in Row, NEW d \in Int,
         NEW status \in {"queued", "running"} \cup Settled
  PROVE  [r EXCEPT !.status = status, !.due = d] \in Row
BY DEF Row

\* finish() leaves a row, whether it settles the item or gives it back.
LEMMA FinishedType ==
  ASSUME NEW it \in Item, row[it.key] \in Row,
         NEW outcome \in Settled, NEW d \in Int
  PROVE  Finished(it, outcome, d) \in Row
<1>1. ResultOf(outcome) \in {"none", "complete", "partial"}
  BY DEF ResultOf, Settled
<1>2. it.revision \in Revisions
  BY DEF Item
<1>3. NoLease \in NoLease..LeaseTicks
  BY Bounds DEF NoLease
<1> DEFINE r == [row[it.key] EXCEPT !.token = NoToken, !.lease = NoLease]
<1>r. r \in Row
  BY <1>3 DEF Row
<1> HIDE DEF r
<1>4. CASE row[it.key].revision # it.revision
  <2> DEFINE s == [r EXCEPT !.status = "queued", !.due = 0]
  <2>1. s \in Row
    <3>1. 0 \in Int /\ "queued" \in {"queued", "running"} \cup Settled
      OBVIOUS
    <3> QED
      BY <1>r, <3>1, RescheduledType, Zenon
  <2>2. Finished(it, outcome, d) = s
    BY <1>4 DEF Finished, Row, r
  <2> QED
    BY <2>1, <2>2
<1>5. CASE row[it.key].revision = it.revision
  <2> DEFINE s == [r EXCEPT !.status = outcome, !.due = d]
             u == [s EXCEPT !.result = ResultOf(outcome), !.checked = it.revision]
  <2>1. outcome \in {"queued", "running"} \cup Settled
    OBVIOUS
  <2>2. s \in Row
    BY <1>r, <2>1, RescheduledType, Zenon
  <2>3. u \in Row
    BY <1>1, <1>2, <2>2 DEF Row
  <2>4. Finished(it, outcome, d) = u
    BY <1>5 DEF Finished, Row, r
  <2> QED
    BY <2>3, <2>4
<1> QED
  BY <1>4, <1>5

\* Growing older keeps a date a number and a due row due.
LEMMA OlderType ==
  ASSUME row \in [Keys -> Row], NEW d \in Int
  PROVE  /\ Older(d) \in Int
         /\ d <= 0 => Older(d) <= 0
<1> DEFINE D == {e \in {row[j].due : j \in Keys} : d < e /\ e <= -AgeCap + 1}
<1>1. CASE d > -AgeCap
  BY <1>1, Bounds DEF Older
<1>2. CASE ~(d > -AgeCap)
  <2>1. \A j \in Keys : row[j].due \in Int
    BY DEF Row
  <2>2. D \in SUBSET ((d + 1)..(-AgeCap + 1))
    BY <2>1, Bounds
  <2>3. IsFiniteSet((d + 1)..(-AgeCap + 1))
    BY FS_Interval, Bounds
  <2>4. Cardinality(D) \in Nat
    BY <2>2, <2>3, FS_Subset, FS_CardinalityType
  <2> QED
    BY <1>2, <2>4, Bounds DEF Older
<1> QED
  BY <1>1, <1>2

------------------------------------------------------------------------------
\* Type correctness.

\* A request leaves a table of rows.
LEMMA EnqueueType ==
  ASSUME row \in [Keys -> Row], NEW k \in Keys, NEW r \in Revisions,
         NEW d \in Int, NEW p \in Nat, Enqueue(k, r, d, p)
  PROVE  row' \in [Keys -> Row]
<1>1. NewRow(r, d, p) \in Row /\ Updated(k, r, d, p) \in Row
  BY NewRowType, UpdatedType
<1> QED
  BY <1>1 DEF Enqueue

\* claim() keeps the types of the table and of the worker.
LEMMA ClaimType ==
  ASSUME TypeOK, NEW w \in Workers, NEW allowSec \in BOOLEAN, Claim(w, allowSec)
  PROVE  TypeOK'
<1>1. PICK k \in Keys, t \in Tokens :
        /\ row' = [row EXCEPT ![k] = Leased(k, t)]
        /\ held' = [held EXCEPT ![w] = {Snapshot(k, t)}]
        /\ phase' = [phase EXCEPT ![w] =
                       IF GroupOf[k] = "assessment" THEN "more" ELSE "work"]
        /\ beat' = [beat EXCEPT ![w] = TRUE]
  BY DEF Claim, FirstClaims, FreshTokens
<1>2. Leased(k, t) \in Row /\ Snapshot(k, t) \in Item
  BY LeasedType, SnapshotType DEF TypeOK
<1> QED
  BY <1>1, <1>2 DEF TypeOK, Claim, reclass

\* claim_more() keeps the types of the table and of the worker.
LEMMA ClaimMoreType ==
  ASSUME TypeOK, NEW w \in Workers, ClaimMore(w)
  PROVE  TypeOK'
<1> DEFINE due == {k \in Keys : GroupOf[k] = "assessment" /\ Claimable(k)}
<1>0. PICK batch \in SUBSET due : \E t \in [batch -> Tokens] :
        /\ row' = [k \in Keys |-> IF k \in batch THEN Leased(k, t[k]) ELSE row[k]]
        /\ held' = [held EXCEPT ![w] = @ \cup {Snapshot(k, t[k]) : k \in batch}]
  BY Zenon DEF ClaimMore
<1>1. PICK t \in [batch -> Tokens] :
        /\ row' = [k \in Keys |-> IF k \in batch THEN Leased(k, t[k]) ELSE row[k]]
        /\ held' = [held EXCEPT ![w] = @ \cup {Snapshot(k, t[k]) : k \in batch}]
  BY <1>0
<1>2. \A k \in batch : Leased(k, t[k]) \in Row /\ Snapshot(k, t[k]) \in Item
  BY LeasedType, SnapshotType DEF TypeOK
<1>3. row' \in [Keys -> Row]
  BY <1>1, <1>2 DEF TypeOK
<1>4. held' \in [Workers -> SUBSET Item]
  BY <1>1, <1>2 DEF TypeOK
<1> QED
  BY <1>3, <1>4 DEF TypeOK, ClaimMore, reclass

\* A row stays one under a new deadline.
LEMMA LeaseWriteType ==
  ASSUME NEW r \in Row, NEW n \in Expired..LeaseTicks
  PROVE  [r EXCEPT !.lease = n] \in Row
<1>1. n \in NoLease..LeaseTicks
  BY DEF NoLease, Expired
<1> QED
  BY <1>1 DEF Row

\* heartbeat() keeps the types.
LEMMA HeartbeatType ==
  ASSUME TypeOK, NEW w \in Workers, Heartbeat(w)
  PROVE  TypeOK'
<1>1. PICK it \in held[w] :
        IF Owns(it) THEN /\ row' = [row EXCEPT ![it.key].lease = LeaseTicks]
                         /\ UNCHANGED beat
                    ELSE /\ beat' = [beat EXCEPT ![w] = FALSE]
                         /\ UNCHANGED row
  BY DEF Heartbeat
<1>2. it.key \in Keys
  BY DEF TypeOK, Item
<1>3. LeaseTicks \in Expired..LeaseTicks
  BY Bounds DEF Expired
<1>4. [row[it.key] EXCEPT !.lease = LeaseTicks] \in Row
  BY <1>2, <1>3, LeaseWriteType DEF TypeOK
<1> QED
  BY <1>1, <1>2, <1>4 DEF TypeOK, Heartbeat, reclass

\* The SELECT of heartbeat_many() keeps the types.
LEMMA ReadHeartbeatType ==
  ASSUME TypeOK, NEW w \in Workers, ReadHeartbeat(w)
  PROVE  TypeOK'
<1> DEFINE own == {it.key : it \in {i \in held[w] : Owns(i)}}
<1>1. own \in SUBSET Keys
  BY DEF TypeOK, Item
<1>2. LeaseTicks \in Expired..LeaseTicks
  BY Bounds DEF Expired
<1>3. [keys |-> own, left |-> LeaseTicks] \in LateHeartbeat
  BY <1>1, <1>2 DEF LateHeartbeat
<1> QED
  BY <1>3 DEF TypeOK, ReadHeartbeat, reclass

\* No write in flight is a possible state of heartbeat_many().
LEMMA NoWriteType == NoWrite \in LateHeartbeat
BY Bounds DEF NoWrite, LateHeartbeat, Expired

\* The UPDATE of heartbeat_many() keeps the types.
LEMMA WriteHeartbeatType ==
  ASSUME TypeOK, NEW w \in Workers, WriteHeartbeat(w)
  PROVE  TypeOK'
<1>1. late[w].left \in Expired..LeaseTicks
  BY DEF TypeOK, LateHeartbeat
<1>2. row' \in [Keys -> Row]
  BY <1>1, LeaseWriteType DEF TypeOK, WriteHeartbeat
<1> QED
  BY <1>2, NoWriteType DEF TypeOK, WriteHeartbeat, reclass

\* Writing nothing is one of the changes.
LEMMA NoChangeType == NoChange \in Change
BY DEF NoChange, Change

\* What a change may say: nothing, a reason alone, that the row is current, or
\* that a diagnosis is due.
Coherent(c) ==
  \/ c = NoChange
  \/ c.verdict = "reason" /\ c.status = "kept"
  \/ c.verdict = "declare" /\ c.status \in {"kept", "current"}
  \/ c.verdict = "diagnose" /\ c.status \in {"kept", "queued"} /\ c.due <= 0

\* Whatever the reclassification decides for a row is a coherent change.
LEMMA VerdictsType ==
  ASSUME NEW r \in Row, NEW c \in Verdicts(r)
  PROVE  c \in Change /\ Coherent(c)
<1> DEFINE Results == {"complete", "partial"}
                        \cup (IF r.result = "none" THEN {} ELSE {"kept"})
           newResults == Results \ {"kept"}
           reason == {"reason"}
           declare == {"declare"}
           diagnose == {"diagnose"}
           kept == {"kept"}
           current == {IF r.status = "current" THEN "kept" ELSE "current"}
           queued == {IF r.status = "queued" THEN "kept" ELSE "queued"}
           now == {0}
           calm == {FALSE}
           urgent == {r.priority > DiagnosticPriority}
<1>0. /\ reason \subseteq {"none", "reason", "declare", "diagnose"}
      /\ declare \subseteq {"none", "reason", "declare", "diagnose"}
      /\ diagnose \subseteq {"none", "reason", "declare", "diagnose"}
      /\ kept \subseteq {"kept", "current", "queued"}
      /\ current \subseteq {"kept", "current", "queued"}
      /\ queued \subseteq {"kept", "current", "queued"}
      /\ Results \subseteq {"kept", "complete", "partial"}
      /\ newResults \subseteq {"kept", "complete", "partial"}
  OBVIOUS
<1>u. urgent \subseteq BOOLEAN /\ calm \subseteq BOOLEAN
  BY Bounds DEF Row
<1>d. DeclaredDelays \subseteq Int /\ now \subseteq Int
  BY DelayTables
<1> HIDE DEF Results, newResults, reason, declare, diagnose, kept, current, queued,
             now, calm, urgent
<1>1. CASE c = NoChange
  BY <1>1, NoChangeType DEF Coherent
<1>2. CASE c \in [verdict : reason, status : kept, due : now, urgent : calm,
                 result : newResults]
  <2>1. c \in Change /\ c.verdict \in reason /\ c.status \in kept
    BY <1>0, <1>u, <1>d, <1>2 DEF Change
  <2> QED BY <2>1 DEF Coherent, reason, kept
<1>3. CASE c \in [verdict : declare, status : current, due : DeclaredDelays,
                 urgent : calm, result : Results]
  <2>1. c \in Change /\ c.verdict \in declare /\ c.status \in current
    BY <1>0, <1>u, <1>d, <1>3 DEF Change
  <2> QED BY <2>1 DEF Coherent, declare, current
<1>4. CASE c \in [verdict : diagnose, status : queued, due : now, urgent : urgent,
                 result : Results]
  <2>1. c \in Change /\ c.verdict \in diagnose /\ c.status \in queued /\ c.due \in now
    BY <1>0, <1>u, <1>d, <1>4 DEF Change
  <2>2. c.status \in {"kept", "queued"}
    BY <2>1 DEF queued
  <2>3. c.verdict = "diagnose" /\ c.due <= 0
    BY <2>1 DEF diagnose, now
  <2> QED BY <2>1, <2>2, <2>3, Zenon DEF Coherent
<1> QED
  BY <1>1, <1>2, <1>3, <1>4 DEF Verdicts, Results, newResults, reason, declare, diagnose,
     kept, current, queued, now, calm, urgent

\* A page that is read decides about statements rows that exist.
LEMMA PageRead ==
  ASSUME row \in [Keys -> Row], ReadPage, NEW k \in Keys
  PROVE  /\ sheet'[k] \in Change /\ Coherent(sheet'[k])
         /\ sheet'[k] # NoChange =>
              GroupOf[k] = "statements" /\ row[k].status # "absent"
<1> DEFINE candidates == {j \in Keys : /\ GroupOf[j] = "statements"
                                       /\ row[j].status \notin {"absent", "running"}}
<1>1. PICK page \in SUBSET candidates :
        \E v \in [page -> UNION {Verdicts(row[j]) : j \in page}] :
          /\ \A j \in page : v[j] \in Verdicts(row[j])
          /\ sheet' = [j \in Keys |-> IF j \in page THEN v[j] ELSE NoChange]
  BY DEF ReadPage
<1>2. PICK v \in [page -> UNION {Verdicts(row[j]) : j \in page}] :
        /\ \A j \in page : v[j] \in Verdicts(row[j])
        /\ sheet' = [j \in Keys |-> IF j \in page THEN v[j] ELSE NoChange]
  BY <1>1
<1>3. CASE k \in page
  BY <1>2, <1>3, VerdictsType
<1>4. CASE k \notin page
  BY <1>2, <1>4, NoChangeType DEF Coherent
<1> QED
  BY <1>3, <1>4

\* The SELECT of a page keeps the types.
LEMMA ReadPageType ==
  ASSUME TypeOK, ReadPage
  PROVE  TypeOK'
<1>1. \A k \in Keys : sheet'[k] \in Change
  BY PageRead DEF TypeOK
<1>2. sheet' \in [Keys -> Change]
  BY <1>1 DEF ReadPage
<1>3. pages' \in 0..MaxPages
  BY Bounds DEF ReadPage, TypeOK
<1> QED
  BY <1>2, <1>3 DEF ReadPage, TypeOK

\* A reclassified row is a row; only what the change names is another.
LEMMA ReclassifiedType ==
  ASSUME NEW k \in Keys, row[k] \in Row, sheet[k] \in Change
  PROVE  /\ Reclassified(k) \in Row
         /\ Reclassified(k).revision = row[k].revision
         /\ Reclassified(k).checked = row[k].checked
         /\ Reclassified(k).token = row[k].token
         /\ Reclassified(k).lease = row[k].lease
         /\ Reclassified(k).status = IF sheet[k].status = "kept" THEN row[k].status
                                     ELSE sheet[k].status
         /\ Reclassified(k).due = IF sheet[k].verdict \in {"declare", "diagnose"}
                                     THEN sheet[k].due ELSE row[k].due
<1> DEFINE c == sheet[k]
           x == row[k]
           status == IF c.status = "kept" THEN x.status ELSE c.status
           due == IF c.verdict \in {"declare", "diagnose"} THEN c.due ELSE x.due
           priority == IF c.urgent THEN DiagnosticPriority ELSE x.priority
           result == IF c.result = "kept" THEN x.result ELSE c.result
<1>1. c \in Change /\ x \in Row
  OBVIOUS
<1>2. /\ status \in {"absent", "queued", "running"} \cup Settled
      /\ due \in Int
      /\ result \in {"none", "complete", "partial"}
  BY <1>1 DEF Change, Row, Settled
<1>3. priority \in Nat
  BY <1>1, Bounds DEF Row
<1>4. Reclassified(k) = [x EXCEPT !.status = status, !.due = due,
                                  !.priority = priority, !.result = result]
  BY DEF Reclassified
<1> HIDE DEF c, x, status, due, priority, result
<1> DEFINE y == [x EXCEPT !.status = status, !.due = due]
           z == [y EXCEPT !.priority = priority, !.result = result]
<1>5. /\ y \in Row /\ y.revision = x.revision /\ y.checked = x.checked
      /\ y.token = x.token /\ y.lease = x.lease /\ y.status = status /\ y.due = due
  BY <1>1, <1>2 DEF Row
<1>6. Reclassified(k) = z
  BY <1>1, <1>4 DEF Row
<1> HIDE DEF y
<1>7. /\ z \in Row /\ z.revision = y.revision /\ z.checked = y.checked
      /\ z.token = y.token /\ z.lease = y.lease /\ z.status = y.status /\ z.due = y.due
  BY <1>2, <1>3, <1>5 DEF Row
<1> HIDE DEF z
<1> QED
  BY <1>5, <1>6, <1>7 DEF x, status, due, c

\* The commit of a page keeps the types.
LEMMA WritePageType ==
  ASSUME TypeOK, WritePage
  PROVE  TypeOK'
<1>1. row' \in [Keys -> Row]
  BY ReclassifiedType DEF TypeOK, WritePage
<1>2. sheet' \in [Keys -> Change]
  BY NoChangeType DEF WritePage
<1>3. \A k \in Keys : row[k].revision \in Revisions
  BY DEF TypeOK, Row
<1>4. declared' \in [Keys -> Revisions \cup {NoCheck}]
  BY <1>3 DEF WritePage, TypeOK
<1> QED
  BY <1>1, <1>2, <1>4 DEF WritePage, TypeOK

\* A change stays one while its date grows older; only that changes.
LEMMA AgedType ==
  ASSUME NEW c \in Change
  PROVE  /\ Aged(c) \in Change
         /\ Aged(c).verdict = c.verdict /\ Aged(c).status = c.status
         /\ c = NoChange => Aged(c) = NoChange
         /\ c.due <= 0 => Aged(c).due <= 0
<1> DEFINE due == IF c.verdict \in {"declare", "diagnose"} /\ c.due > -AgeCap
                    THEN c.due - 1 ELSE c.due
<1>1. c.due \in Int /\ due \in Int /\ (c.due <= 0 => due <= 0)
  BY DEF Change
<1>2. Aged(c) = [c EXCEPT !.due = due]
  BY DEF Aged
<1>3. c = NoChange => due = 0
  BY DEF NoChange
<1> HIDE DEF due
<1>4. Aged(c) \in Change /\ Aged(c).verdict = c.verdict
      /\ Aged(c).status = c.status /\ Aged(c).due = due
  BY <1>1, <1>2 DEF Change
<1>5. c = NoChange => Aged(c) = NoChange
  BY <1>2, <1>3 DEF NoChange
<1> QED
  BY <1>1, <1>4, <1>5

\* finish() keeps the types of the table and of the worker.
LEMMA FinishType ==
  ASSUME TypeOK, NEW w \in Workers, FinishSome(w)
  PROVE  TypeOK'
<1>1. PICK it \in held[w], outcome \in Settled : Finish(w, it, outcome)
  BY DEF FinishSome
<1>2. it \in Item /\ it.key \in Keys
  BY DEF TypeOK, Item
<1>3. PICK d \in Delays(it, outcome) :
        row' = IF Owns(it) THEN [row EXCEPT ![it.key] = Finished(it, outcome, d)]
               ELSE row
  BY <1>1 DEF Finish
<1>4. d \in Int
  BY <1>2, <1>3, DelaysType
<1>5. Finished(it, outcome, d) \in Row
  BY <1>2, <1>4, FinishedType DEF TypeOK
<1>6. row' \in [Keys -> Row]
  BY <1>2, <1>3, <1>5 DEF TypeOK
<1> QED
  BY <1>1, <1>6 DEF TypeOK, Finish, reclass

\* Time passing keeps the types.
LEMMA TickType ==
  ASSUME TypeOK, Tick
  PROVE  TypeOK'
<1> DEFINE older(k) == [row[k] EXCEPT
                          !.due   = IF row[k].status # "absent" THEN Older(@) ELSE @,
                          !.lease = IF @ > Expired THEN @ - 1 ELSE @]
           due(k)   == IF row[k].status # "absent" THEN Older(row[k].due)
                       ELSE row[k].due
           lease(k) == IF row[k].lease > Expired THEN row[k].lease - 1
                       ELSE row[k].lease
<1>r. row' = [k \in Keys |-> older(k)]
  BY Zenon DEF Tick
<1>l. late' = [w \in Workers |->
         [late[w] EXCEPT !.left = IF @ > Expired THEN @ - 1 ELSE @]]
  BY Zenon DEF Tick
<1>s. sheet' = [k \in Keys |-> Aged(sheet[k])]
  BY Zenon DEF Tick
<1>u. UNCHANGED <<held, phase, beat, pages, declared, faults>>
  BY Zenon DEF Tick
<1>1. \A k \in Keys : row[k] \in Row /\ row[k].due \in Int
                      /\ row[k].lease \in NoLease..LeaseTicks
  BY DEF TypeOK, Row
<1>2. \A k \in Keys : due(k) \in Int
  BY <1>1, OlderType DEF TypeOK
<1>3. \A k \in Keys : lease(k) \in NoLease..LeaseTicks
  BY <1>1, Bounds DEF NoLease, Expired
<1>4. \A k \in Keys : older(k) = [row[k] EXCEPT !.due = due(k), !.lease = lease(k)]
  BY <1>1 DEF Row
<1> HIDE DEF older, due, lease
<1>5. \A k \in Keys : older(k) \in Row
  <2> SUFFICES ASSUME NEW k \in Keys PROVE older(k) \in Row
    OBVIOUS
  <2>1. row[k] \in Row /\ due(k) \in Int /\ lease(k) \in NoLease..LeaseTicks
    BY <1>1, <1>2, <1>3
  <2>2. [row[k] EXCEPT !.due = due(k), !.lease = lease(k)] \in Row
    BY <2>1 DEF Row
  <2>3. older(k) = [row[k] EXCEPT !.due = due(k), !.lease = lease(k)]
    BY <1>4, Zenon
  <2> QED
    BY <2>2, <2>3, Zenon
<1>6. row' \in [Keys -> Row]
  BY <1>r, <1>5
<1>7. \A w \in Workers :
        [late[w] EXCEPT !.left = IF @ > Expired THEN @ - 1 ELSE @] \in LateHeartbeat
  BY Bounds DEF TypeOK, LateHeartbeat, Expired
<1>8. late' \in [Workers -> LateHeartbeat]
  BY <1>l, <1>7
<1>9. sheet' \in [Keys -> Change]
  BY <1>s, AgedType DEF TypeOK
<1> QED
  BY <1>u, <1>6, <1>8, <1>9 DEF TypeOK

\* The empty queue has the declared shape.
LEMMA TypeInit == Init => TypeOK
BY NoRowType, NoWriteType, NoChangeType, Bounds DEF Init, TypeOK, NoCheck

\* Every step of the queue keeps the declared shape.
LEMMA TypeStep == TypeOK /\ [Next]_vars => TypeOK'
<1> SUFFICES ASSUME TypeOK, [Next]_vars PROVE TypeOK'
  OBVIOUS
<1>1. ASSUME NEW k \in Keys, PlanBaseline(k) PROVE TypeOK'
  <2>1. Baseline \in Revisions /\ FirstDues \subseteq Int /\ Priorities \subseteq Nat
    BY Inputs, Bounds DEF Baseline, Revisions
  <2>2. row' \in [Keys -> Row]
    BY <1>1, <2>1, EnqueueType DEF PlanBaseline, TypeOK
  <2> QED
    BY <1>1, <2>2 DEF PlanBaseline, TypeOK, reclass
<1>2. ASSUME NEW k \in Keys, RequestRevision(k) PROVE TypeOK'
  <2>1. 0 \in Int /\ Priorities \subseteq Nat
    BY Inputs
  <2>2. row' \in [Keys -> Row]
    BY <1>2, <2>1, EnqueueType DEF RequestRevision, TypeOK
  <2> QED
    BY <1>2, <2>2 DEF RequestRevision, TypeOK, reclass
<1>3. ASSUME NEW k \in Keys, WakeWaiting(k) PROVE TypeOK'
  <2>1. 0 \in Int /\ "queued" \in {"queued", "running"} \cup Settled
    OBVIOUS
  <2>2. row[k] \in Row
    BY DEF TypeOK
  <2>3. [row[k] EXCEPT !.status = "queued", !.due = 0] \in Row
    BY <2>1, <2>2, RescheduledType, Zenon
  <2>4. row' = [row EXCEPT ![k] = [row[k] EXCEPT !.status = "queued", !.due = 0]]
    BY <1>3 DEF WakeWaiting, TypeOK, Row
  <2> QED
    BY <1>3, <2>3, <2>4 DEF WakeWaiting, TypeOK, reclass
<1>4. ASSUME NEW w \in Workers, ClaimSome(w) PROVE TypeOK'
  BY <1>4, ClaimType DEF ClaimSome
<1>5. ASSUME NEW w \in Workers, BeatDies(w) PROVE TypeOK'
  BY <1>5, Bounds DEF BeatDies, TypeOK, reclass
<1>6. ASSUME NEW w \in Workers, Crash(w) PROVE TypeOK'
  BY <1>6, NoWriteType, Bounds DEF Crash, TypeOK, reclass
<1>7. CASE UNCHANGED vars
  BY <1>7 DEF vars, TypeOK, reclass
<1> QED
  BY <1>1, <1>2, <1>3, <1>4, <1>5, <1>6, <1>7, ClaimMoreType, HeartbeatType,
     ReadHeartbeatType, WriteHeartbeatType, ReadPageType, WritePageType, FinishType,
     TickType DEF Next

\* Every reachable state has the declared shape.
THEOREM TypeCorrect == Spec => []TypeOK
BY TypeInit, TypeStep, PTL DEF Spec

------------------------------------------------------------------------------
\* Every operation but a request leaves the wanted revision alone.

\* What a finish writes into the row of its owner.
LEMMA FinishedFields ==
  ASSUME NEW it \in Item, row[it.key] \in Row, NEW outcome \in Settled, NEW d \in Int
  PROVE  /\ Finished(it, outcome, d).token = NoToken
         /\ Finished(it, outcome, d).status # "absent"
         /\ Finished(it, outcome, d).revision = row[it.key].revision
         /\ Finished(it, outcome, d).checked =
              IF row[it.key].revision = it.revision THEN it.revision
              ELSE row[it.key].checked
BY DEF Finished, Row, Settled

\* What the passing of time does to a row.
LEMMA TickFields ==
  ASSUME TypeOK, Tick, NEW k \in Keys
  PROVE  /\ row'[k].status = row[k].status
         /\ row'[k].checked = row[k].checked
         /\ row'[k].revision = row[k].revision
         /\ row'[k].token = row[k].token
         /\ row'[k].due = IF row[k].status # "absent" THEN Older(row[k].due)
                          ELSE row[k].due
         /\ row'[k].lease = IF row[k].lease > Expired THEN row[k].lease - 1
                            ELSE row[k].lease
<1> DEFINE older(j) == [row[j] EXCEPT
                          !.due   = IF row[j].status # "absent" THEN Older(@) ELSE @,
                          !.lease = IF @ > Expired THEN @ - 1 ELSE @]
<1>1. row' = [j \in Keys |-> older(j)]
  BY Zenon DEF Tick
<1> HIDE DEF older
<1>2. row'[k] = older(k)
  BY <1>1
<1>3. row[k] \in Row
  BY DEF TypeOK
<1>4. /\ older(k).status = row[k].status
      /\ older(k).checked = row[k].checked
      /\ older(k).revision = row[k].revision
      /\ older(k).token = row[k].token
      /\ older(k).due = IF row[k].status # "absent" THEN Older(row[k].due)
                        ELSE row[k].due
      /\ older(k).lease = IF row[k].lease > Expired THEN row[k].lease - 1
                          ELSE row[k].lease
  BY <1>3 DEF older, Row
<1> QED
  BY <1>2, <1>4, Zenon

\* A row that exists goes on existing, and what it asks for stays.
Kept(j) == /\ row'[j].revision = row[j].revision
           /\ row'[j].status = "absent" => row[j].status = "absent"

\* Outside requests the revisions stay as they are, and no row disappears.
LEMMA ElsewhereKept ==
  ASSUME TypeOK, [Next]_vars, NEW j \in Keys,
         ~ \E k \in Keys : PlanBaseline(k) \/ RequestRevision(k)
  PROVE  Kept(j)
<1>t. row \in [Keys -> Row] /\ row[j] \in Row
  BY DEF TypeOK
<1>1. ASSUME NEW k \in Keys, WakeWaiting(k) PROVE Kept(j)
  BY <1>1, <1>t DEF WakeWaiting, Row, Kept
<1>2. ASSUME NEW w \in Workers, ClaimSome(w) PROVE Kept(j)
  <2>1. PICK k \in Keys, t \in Tokens : row' = [row EXCEPT ![k] = Leased(k, t)]
    BY <1>2 DEF ClaimSome, Claim, FirstClaims, FreshTokens
  <2> QED
    BY <1>t, <2>1 DEF Leased, Row, Kept
<1>3. ASSUME NEW w \in Workers, ClaimMore(w) PROVE Kept(j)
  <2> DEFINE due == {k \in Keys : GroupOf[k] = "assessment" /\ Claimable(k)}
  <2>1. PICK batch \in SUBSET due : \E t \in [batch -> Tokens] :
          row' = [k \in Keys |-> IF k \in batch THEN Leased(k, t[k]) ELSE row[k]]
    BY <1>3, Zenon DEF ClaimMore
  <2>2. PICK t \in [batch -> Tokens] :
          row' = [k \in Keys |-> IF k \in batch THEN Leased(k, t[k]) ELSE row[k]]
    BY <2>1
  <2>3. row'[j] = IF j \in batch THEN Leased(j, t[j]) ELSE row[j]
    BY <2>2
  <2> QED
    BY <1>t, <2>3 DEF Leased, Row, Kept
<1>4. ASSUME NEW w \in Workers, Heartbeat(w) PROVE Kept(j)
  <2>1. \/ UNCHANGED row
        \/ \E it \in held[w] : row' = [row EXCEPT ![it.key].lease = LeaseTicks]
    BY <1>4 DEF Heartbeat
  <2>2. row'[j] \in {row[j], [row[j] EXCEPT !.lease = LeaseTicks]}
    BY <1>t, <2>1
  <2> QED
    BY <1>t, <2>2 DEF Row, Kept
<1>5. ASSUME NEW w \in Workers, WriteHeartbeat(w) PROVE Kept(j)
  BY <1>5, <1>t DEF WriteHeartbeat, Row, Kept
<1>6. ASSUME NEW w \in Workers, FinishSome(w) PROVE Kept(j)
  <2>1. PICK it \in held[w], outcome \in Settled : Finish(w, it, outcome)
    BY <1>6 DEF FinishSome
  <2>2. it \in Item /\ it.key \in Keys /\ row[it.key] \in Row
    BY DEF TypeOK, Item
  <2>3. PICK d \in Delays(it, outcome) :
          row' = IF Owns(it) THEN [row EXCEPT ![it.key] = Finished(it, outcome, d)]
                 ELSE row
    BY <2>1 DEF Finish
  <2>4. d \in Int
    BY <2>2, <2>3, DelaysType
  <2>5. /\ Finished(it, outcome, d).revision = row[it.key].revision
        /\ Finished(it, outcome, d).status # "absent"
    BY <2>2, <2>4, FinishedFields
  <2> QED
    BY <1>t, <2>2, <2>3, <2>5 DEF Kept
<1>7. CASE Tick
  BY <1>7, <1>t, TickFields DEF Kept
<1>8. CASE WritePage
  <2>1. row'[j] = Reclassified(j) /\ sheet[j] \in Change
    BY <1>8 DEF WritePage, TypeOK
  <2> QED
    BY <1>t, <2>1, ReclassifiedType DEF Kept, Change
<1>9. ASSUME UNCHANGED row PROVE Kept(j)
  BY <1>9 DEF Kept
<1> QED
  BY <1>1, <1>2, <1>3, <1>4, <1>5, <1>6, <1>7, <1>8, <1>9
     DEF Next, vars, ReadHeartbeat, ReadPage, BeatDies, Crash

------------------------------------------------------------------------------
\* The inductive invariant.  RowsGood speaks of single rows: a settled row was
\* checked for its revision or declared current for it, a running row can be
\* found again, a row nobody has planned is blank.  SheetGood and DeclaredGood
\* speak of the reclassification: what it is about to write is coherent and
\* concerns statements rows that exist.  The last two speak of the workers: no
\* token is in two hands, and a worker between two claims holds nothing.

\* A row and the revision reclassification last declared current.
GoodRow(r, e) ==
  /\ r.status \in Settled =>
       r.checked = r.revision \/ (r.status = "current" /\ e = r.revision)
  /\ r.status = "running" =>
       (r.due <= 0 \/ e = r.revision) /\ r.lease # NoLease /\ r.token # NoToken
  /\ r.status = "absent" =>
       r.revision = Baseline /\ r.checked = NoCheck /\ r.token = NoToken

RowsGood         == \A k \in Keys : GoodRow(row[k], declared[k])
SheetGood        == \A k \in Keys :
                      /\ Coherent(sheet[k])
                      /\ sheet[k] # NoChange =>
                           GroupOf[k] = "statements" /\ row[k].status # "absent"
DeclaredGood     == \A k \in Keys :
                      declared[k] # NoCheck => GroupOf[k] = "statements"
TokensUnique     == \A v, w \in Workers : \A i \in held[v], j \in held[w] :
                      i.token = j.token => v = w /\ i = j
IdleHoldsNothing == \A w \in Workers : phase[w] = "idle" => held[w] = {}

Inv == /\ TypeOK /\ RowsGood /\ SheetGood /\ DeclaredGood
       /\ TokensUnique /\ IdleHoldsNothing

\* Good rows are settled correctly and recoverable while they run; what they
\* were declared for can only be the revision of a statements row.
LEMMA RowsGoodSuffices ==
  ASSUME TypeOK, RowsGood, DeclaredGood
  PROVE  SettledForItsRevision /\ RunningIsRecoverable
<1>1. ASSUME NEW k \in Keys, declared[k] = row[k].revision PROVE DeclaredFor(k)
  <2>1. row[k].revision \in Nat
    BY Bounds DEF TypeOK, Row, Revisions
  <2>2. declared[k] # NoCheck
    BY <1>1, <2>1 DEF NoCheck
  <2> QED
    BY <1>1, <2>2 DEF DeclaredGood, DeclaredFor
<1> QED
  BY <1>1 DEF RowsGood, GoodRow, SettledForItsRevision, RunningIsRecoverable

\* Without two holders of a token no two attempts can own one row.
LEMMA TokensUniqueSuffices == TypeOK /\ TokensUnique => SingleOwner
BY DEF TokensUnique, SingleOwner, Owns

\* A request leaves good rows good; a later date must be a baseline request,
\* and those do not touch running rows.
LEMMA EnqueueGood ==
  ASSUME TypeOK, RowsGood, NEW k \in Keys, NEW r \in Revisions, NEW d \in Int,
         NEW p \in Nat, r # Baseline => d <= 0, Enqueue(k, r, d, p),
         UNCHANGED declared
  PROVE  RowsGood'
<1>1. row[k] \in Row /\ GoodRow(row[k], declared[k])
  BY DEF TypeOK, RowsGood
<1>2. CASE row[k].status = "absent"
  <2>1. GoodRow(NewRow(r, d, p), declared[k])
    BY DEF GoodRow, NewRow, NoRow, Settled
  <2> QED
    BY <1>2, <2>1 DEF Enqueue, RowsGood, TypeOK
<1>3. CASE row[k].status # "absent"
  <2>1. Supersedes(k, r, d) /\ row' = [row EXCEPT ![k] = Updated(k, r, d, p)]
    BY <1>3 DEF Enqueue
  <2>2. CASE r = Baseline
    <3>1. row[k].status = "current"
      BY <2>1, <2>2 DEF Supersedes
    <3>2. /\ Updated(k, r, d, p).status = "current"
          /\ Updated(k, r, d, p).checked = row[k].checked
          /\ Updated(k, r, d, p).revision = row[k].revision
      BY <1>1, <2>2, <3>1 DEF Updated, Row
    <3>3. GoodRow(Updated(k, r, d, p), declared[k])
      BY <1>1, <3>1, <3>2 DEF GoodRow, Settled
    <3> QED
      BY <2>1, <3>3 DEF RowsGood, TypeOK
  <2>3. CASE r # Baseline
    <3>1. /\ Updated(k, r, d, p).status =
                IF row[k].status = "running" THEN "running" ELSE "queued"
          /\ Updated(k, r, d, p).due = d
          /\ Updated(k, r, d, p).lease = row[k].lease
          /\ Updated(k, r, d, p).token = row[k].token
      BY <1>1, <2>3 DEF Updated, Row
    <3>2. GoodRow(Updated(k, r, d, p), declared[k])
      BY <1>1, <2>3, <3>1 DEF GoodRow, Settled
    <3> QED
      BY <2>1, <3>2 DEF RowsGood, TypeOK
  <2> QED
    BY <2>2, <2>3
<1> QED
  BY <1>2, <1>3

\* A claimed row is good: due, leased and owned.
LEMMA LeasedGood ==
  ASSUME TypeOK, NEW k \in Keys, Claimable(k), NEW t \in Tokens, NEW e
  PROVE  GoodRow(Leased(k, t), e)
<1>1. row[k] \in Row
  BY DEF TypeOK
<1>2. /\ Leased(k, t).status = "running"
      /\ Leased(k, t).due = row[k].due
      /\ Leased(k, t).lease = LeaseTicks
      /\ Leased(k, t).token = t
  BY <1>1 DEF Leased, Row
<1>3. LeaseTicks # NoLease
  BY Bounds DEF NoLease
<1> QED
  BY <1>2, <1>3, Bounds DEF GoodRow, Claimable, Settled

\* A finished row is good: settled for its own revision or queued again.
LEMMA FinishedGood ==
  ASSUME NEW it \in Item, row[it.key] \in Row, NEW outcome \in Settled, NEW d \in Int,
         NEW e
  PROVE  GoodRow(Finished(it, outcome, d), e)
<1>1. CASE row[it.key].revision # it.revision
  <2>1. Finished(it, outcome, d).status = "queued"
    BY <1>1 DEF Finished, Row
  <2> QED
    BY <2>1 DEF GoodRow, Settled
<1>2. CASE row[it.key].revision = it.revision
  <2>1. /\ Finished(it, outcome, d).status = outcome
        /\ Finished(it, outcome, d).checked = it.revision
        /\ Finished(it, outcome, d).revision = row[it.key].revision
    BY <1>2 DEF Finished, Row
  <2> QED
    BY <1>2, <2>1 DEF GoodRow, Settled
<1> QED
  BY <1>1, <1>2

\* A deadline, even one written late, leaves a good row good.
LEMMA LeaseWriteGood ==
  ASSUME NEW r \in Row, NEW e, GoodRow(r, e), NEW n \in Expired..LeaseTicks
  PROVE  GoodRow([r EXCEPT !.lease = n], e)
<1>1. n # NoLease
  BY Bounds DEF NoLease, Expired
<1> QED
  BY <1>1 DEF GoodRow, Row

\* A reclassified row is good: what it declares current it declares for the
\* revision the row asks for, and what it has diagnosed is due.
LEMMA ReclassifiedGood ==
  ASSUME TypeOK, RowsGood, SheetGood, WritePage, NEW k \in Keys
  PROVE  GoodRow(row'[k], declared'[k])
<1>1. /\ row[k] \in Row /\ sheet[k] \in Change /\ GoodRow(row[k], declared[k])
      /\ Coherent(sheet[k]) /\ (sheet[k] # NoChange => row[k].status # "absent")
  BY DEF TypeOK, RowsGood, SheetGood
<1>2. /\ row'[k].revision = row[k].revision
      /\ row'[k].checked = row[k].checked
      /\ row'[k].token = row[k].token
      /\ row'[k].lease = row[k].lease
      /\ row'[k].status = IF sheet[k].status = "kept" THEN row[k].status
                          ELSE sheet[k].status
      /\ row'[k].due = IF sheet[k].verdict \in {"declare", "diagnose"}
                          THEN sheet[k].due ELSE row[k].due
      /\ declared'[k] = IF sheet[k].verdict = "declare" THEN row[k].revision
                        ELSE declared[k]
  BY <1>1, ReclassifiedType DEF WritePage
<1>3. CASE sheet[k] = NoChange \/ sheet[k].verdict = "reason"
  <2>1. sheet[k].status = "kept" /\ sheet[k].verdict \notin {"declare", "diagnose"}
    BY <1>1, <1>3 DEF Coherent, NoChange
  <2> QED
    BY <1>1, <1>2, <2>1 DEF GoodRow
<1>4. CASE sheet[k].verdict = "declare"
  <2>1. sheet[k].status \in {"kept", "current"} /\ row[k].status # "absent"
    BY <1>1, <1>4 DEF Coherent, NoChange
  <2>2. declared'[k] = row'[k].revision
    BY <1>2, <1>4
  <2>3. row'[k].status \in {row[k].status, "current"}
    BY <1>2, <2>1
  <2> QED
    BY <1>1, <1>2, <2>1, <2>2, <2>3 DEF GoodRow, Settled
<1>5. CASE sheet[k].verdict = "diagnose"
  <2>1. sheet[k].status \in {"kept", "queued"} /\ row[k].status # "absent"
        /\ sheet[k].due <= 0
    BY <1>1, <1>5 DEF Coherent, NoChange
  <2>2. row'[k].due <= 0 /\ declared'[k] = declared[k]
        /\ row'[k].status \in {row[k].status, "queued"}
    BY <1>2, <1>5, <2>1
  <2> QED
    BY <1>1, <1>2, <2>1, <2>2 DEF GoodRow, Settled
<1> QED
  BY <1>1, <1>3, <1>4, <1>5 DEF Coherent

\* Every step of the queue leaves good rows good.
LEMMA RowsStep == TypeOK /\ RowsGood /\ SheetGood /\ [Next]_vars => RowsGood'
<1> SUFFICES ASSUME TypeOK, RowsGood, SheetGood, [Next]_vars PROVE RowsGood'
  OBVIOUS
<1>0. ASSUME UNCHANGED <<row, declared>> PROVE RowsGood'
  BY <1>0 DEF RowsGood
<1>1. ASSUME NEW k \in Keys, PlanBaseline(k) PROVE RowsGood'
  <2>1. Baseline \in Revisions /\ FirstDues \subseteq Int /\ Priorities \subseteq Nat
    BY Inputs, Bounds DEF Baseline, Revisions
  <2> QED
    BY <1>1, <2>1, EnqueueGood DEF PlanBaseline, reclass
<1>2. ASSUME NEW k \in Keys, RequestRevision(k) PROVE RowsGood'
  <2>1. 0 \in Int /\ 0 <= 0 /\ Priorities \subseteq Nat
    BY Inputs
  <2> QED
    BY <1>2, <2>1, EnqueueGood DEF RequestRevision, reclass
<1>3. ASSUME NEW k \in Keys, WakeWaiting(k) PROVE RowsGood'
  <2>1. row'[k].status = "queued"
    BY <1>3 DEF WakeWaiting, TypeOK, Row
  <2>2. GoodRow(row'[k], declared[k])
    BY <2>1 DEF GoodRow, Settled
  <2> QED
    BY <1>3, <2>2 DEF WakeWaiting, RowsGood, TypeOK, reclass
<1>4. ASSUME NEW w \in Workers, ClaimSome(w) PROVE RowsGood'
  <2>1. PICK k \in Keys, t \in Tokens :
          Claimable(k) /\ row' = [row EXCEPT ![k] = Leased(k, t)] /\ UNCHANGED declared
    BY <1>4 DEF ClaimSome, Claim, FirstClaims, FreshTokens, reclass
  <2> QED
    BY <2>1, LeasedGood DEF RowsGood, TypeOK
<1>5. ASSUME NEW w \in Workers, ClaimMore(w) PROVE RowsGood'
  <2> DEFINE due == {k \in Keys : GroupOf[k] = "assessment" /\ Claimable(k)}
  <2>1. PICK batch \in SUBSET due : \E t \in [batch -> Tokens] :
          row' = [k \in Keys |-> IF k \in batch THEN Leased(k, t[k]) ELSE row[k]]
    BY <1>5, Zenon DEF ClaimMore
  <2>2. PICK t \in [batch -> Tokens] :
          row' = [k \in Keys |-> IF k \in batch THEN Leased(k, t[k]) ELSE row[k]]
    BY <2>1
  <2>3. \A k \in batch : GoodRow(Leased(k, t[k]), declared[k])
    BY LeasedGood
  <2>4. UNCHANGED declared
    BY <1>5, Zenon DEF ClaimMore, reclass
  <2> QED
    BY <2>2, <2>3, <2>4 DEF RowsGood
<1>6. ASSUME NEW w \in Workers, Heartbeat(w) PROVE RowsGood'
  <2>0. UNCHANGED declared
    BY <1>6 DEF Heartbeat, reclass
  <2>1. CASE UNCHANGED row
    BY <1>0, <2>0, <2>1
  <2>2. CASE row' # row
    <3>1. PICK it \in held[w] : row' = [row EXCEPT ![it.key].lease = LeaseTicks]
      BY <1>6, <2>2 DEF Heartbeat
    <3>2. it.key \in Keys /\ row[it.key] \in Row /\ GoodRow(row[it.key], declared[it.key])
      BY DEF TypeOK, Item, RowsGood
    <3>3. LeaseTicks \in Expired..LeaseTicks
      BY Bounds DEF Expired
    <3>4. GoodRow([row[it.key] EXCEPT !.lease = LeaseTicks], declared[it.key])
      BY <3>2, <3>3, LeaseWriteGood
    <3> QED
      BY <2>0, <3>1, <3>2, <3>4 DEF RowsGood, TypeOK
  <2> QED
    BY <2>1, <2>2
<1>7. ASSUME NEW w \in Workers, WriteHeartbeat(w) PROVE RowsGood'
  <2>1. late[w].left \in Expired..LeaseTicks
    BY DEF TypeOK, LateHeartbeat
  <2> QED
    BY <1>7, <2>1, LeaseWriteGood DEF RowsGood, TypeOK, WriteHeartbeat, reclass
<1>8. ASSUME NEW w \in Workers, FinishSome(w) PROVE RowsGood'
  <2>1. PICK it \in held[w], outcome \in Settled : Finish(w, it, outcome)
    BY <1>8 DEF FinishSome
  <2>2. it \in Item /\ it.key \in Keys
    BY DEF TypeOK, Item
  <2>3. PICK d \in Delays(it, outcome) :
          row' = IF Owns(it) THEN [row EXCEPT ![it.key] = Finished(it, outcome, d)]
                 ELSE row
    BY <2>1 DEF Finish
  <2>4. d \in Int
    BY <2>2, <2>3, DelaysType
  <2>5. GoodRow(Finished(it, outcome, d), declared[it.key])
    BY <2>2, <2>4, FinishedGood DEF TypeOK
  <2>6. UNCHANGED declared
    BY <2>1 DEF Finish, reclass
  <2> QED
    BY <2>2, <2>3, <2>5, <2>6 DEF RowsGood, TypeOK
<1>9. CASE Tick
  <2>0. UNCHANGED declared
    BY <1>9, Zenon DEF Tick
  <2> SUFFICES ASSUME NEW k \in Keys PROVE GoodRow(row'[k], declared[k])
    BY <2>0 DEF RowsGood
  <2>1. row[k] \in Row /\ GoodRow(row[k], declared[k]) /\ row[k].due \in Int
        /\ row[k].lease \in NoLease..LeaseTicks
    BY DEF TypeOK, Row, RowsGood
  <2>2. /\ row'[k].status = row[k].status
        /\ row'[k].checked = row[k].checked
        /\ row'[k].revision = row[k].revision
        /\ row'[k].token = row[k].token
        /\ row'[k].due = IF row[k].status # "absent" THEN Older(row[k].due)
                         ELSE row[k].due
        /\ row'[k].lease = IF row[k].lease > Expired THEN row[k].lease - 1
                           ELSE row[k].lease
    BY <1>9, TickFields
  <2>3. row[k].due <= 0 => Older(row[k].due) <= 0
    BY <2>1, OlderType DEF TypeOK
  <2>4. row[k].lease # NoLease => row'[k].lease # NoLease
    BY <2>1, <2>2, Bounds DEF NoLease, Expired
  <2> QED
    BY <2>1, <2>2, <2>3, <2>4 DEF GoodRow, Settled
<1>10. CASE WritePage
  BY <1>10, ReclassifiedGood DEF RowsGood
<1> QED
  BY <1>0, <1>1, <1>2, <1>3, <1>4, <1>5, <1>6, <1>7, <1>8, <1>9, <1>10
     DEF Next, ReadHeartbeat, ReadPage, BeatDies, Crash, vars, reclass

\* A request makes no row disappear.
LEMMA EnqueueKeeps ==
  ASSUME TypeOK, NEW k \in Keys, NEW r \in Revisions, NEW d \in Int, NEW p \in Nat,
         Enqueue(k, r, d, p), NEW j \in Keys, row'[j].status = "absent"
  PROVE  row[j].status = "absent"
<1>1. row[k] \in Row /\ row \in [Keys -> Row]
  BY DEF TypeOK
<1>2. NewRow(r, d, p).status = "queued"
  BY DEF NewRow, NoRow
<1>3. row[k].status # "absent" => Updated(k, r, d, p).status # "absent"
  BY <1>1 DEF Updated, Row
<1> QED
  BY <1>1, <1>2, <1>3 DEF Enqueue

\* No row of the queue is ever deleted.
LEMMA NoneDeleted ==
  ASSUME TypeOK, [Next]_vars, NEW j \in Keys, row'[j].status = "absent"
  PROVE  row[j].status = "absent"
<1>1. ASSUME NEW k \in Keys, PlanBaseline(k) PROVE row[j].status = "absent"
  <2>1. Baseline \in Revisions /\ FirstDues \subseteq Int /\ Priorities \subseteq Nat
    BY Inputs, Bounds DEF Baseline, Revisions
  <2> QED
    BY <1>1, <2>1, EnqueueKeeps DEF PlanBaseline
<1>2. ASSUME NEW k \in Keys, RequestRevision(k) PROVE row[j].status = "absent"
  <2>1. 0 \in Int /\ Priorities \subseteq Nat
    BY Inputs
  <2> QED
    BY <1>2, <2>1, EnqueueKeeps DEF RequestRevision
<1>3. CASE ~ \E k \in Keys : PlanBaseline(k) \/ RequestRevision(k)
  BY <1>3, ElsewhereKept DEF Kept
<1> QED
  BY <1>1, <1>2, <1>3

\* The sheet is filled from statements rows, written as a whole, and grows old.
LEMMA SheetStep == TypeOK /\ SheetGood /\ [Next]_vars => SheetGood'
<1> SUFFICES ASSUME TypeOK, SheetGood, [Next]_vars, NEW k \in Keys
             PROVE  /\ Coherent(sheet'[k])
                    /\ sheet'[k] # NoChange =>
                         GroupOf[k] = "statements" /\ row'[k].status # "absent"
  BY DEF SheetGood, Coherent
<1>1. row'[k].status = "absent" => row[k].status = "absent"
  BY NoneDeleted
<1>2. sheet[k] \in Change /\ Coherent(sheet[k])
      /\ (sheet[k] # NoChange => GroupOf[k] = "statements" /\ row[k].status # "absent")
  BY DEF TypeOK, SheetGood
<1>3. CASE UNCHANGED sheet
  BY <1>1, <1>2, <1>3
<1>4. CASE ReadPage
  <2>1. UNCHANGED row
    BY <1>4 DEF ReadPage
  <2> QED
    BY <1>4, <2>1, PageRead DEF TypeOK
<1>5. CASE WritePage
  BY <1>5 DEF WritePage, Coherent
<1>6. CASE Tick
  <2>1. sheet'[k] = Aged(sheet[k])
    BY <1>6, Zenon DEF Tick
  <2>2. /\ Aged(sheet[k]).verdict = sheet[k].verdict
        /\ Aged(sheet[k]).status = sheet[k].status
        /\ sheet[k] = NoChange => Aged(sheet[k]) = NoChange
        /\ sheet[k].due <= 0 => Aged(sheet[k]).due <= 0
    BY <1>2, AgedType
  <2> QED
    BY <1>1, <1>2, <2>1, <2>2 DEF Coherent
<1> QED
  BY <1>3, <1>4, <1>5, <1>6
     DEF Next, vars, reclass, PlanBaseline, RequestRevision, WakeWaiting, ClaimSome,
         Claim, ClaimMore, Heartbeat, ReadHeartbeat, WriteHeartbeat, FinishSome,
         Finish, BeatDies, Crash

\* Only statements rows are ever declared current.
LEMMA DeclaredStep == SheetGood /\ DeclaredGood /\ [Next]_vars => DeclaredGood'
<1> SUFFICES ASSUME SheetGood, DeclaredGood, [Next]_vars PROVE DeclaredGood'
  OBVIOUS
<1>1. CASE UNCHANGED declared
  BY <1>1 DEF DeclaredGood
<1>2. CASE WritePage
  <2> SUFFICES ASSUME NEW k \in Keys, declared'[k] # NoCheck
               PROVE  GroupOf[k] = "statements"
    BY DEF DeclaredGood
  <2>1. declared'[k] = IF sheet[k].verdict = "declare" THEN row[k].revision
                       ELSE declared[k]
    BY <1>2 DEF WritePage
  <2>2. sheet[k].verdict = "declare" => sheet[k] # NoChange
    BY DEF NoChange
  <2> QED
    BY <2>1, <2>2 DEF SheetGood, DeclaredGood
<1>3. ASSUME NEW k \in Keys, PlanBaseline(k) \/ RequestRevision(k) \/ WakeWaiting(k)
      PROVE  UNCHANGED declared
  BY <1>3, Zenon DEF PlanBaseline, RequestRevision, WakeWaiting, reclass
<1>4. ASSUME NEW w \in Workers, ClaimSome(w) \/ ClaimMore(w) PROVE UNCHANGED declared
  BY <1>4, Zenon DEF ClaimSome, Claim, ClaimMore, reclass
<1>5. ASSUME NEW w \in Workers, \/ Heartbeat(w) \/ ReadHeartbeat(w) \/ WriteHeartbeat(w)
                                \/ FinishSome(w) \/ BeatDies(w) \/ Crash(w)
      PROVE  UNCHANGED declared
  BY <1>5, Zenon DEF Heartbeat, ReadHeartbeat, WriteHeartbeat, FinishSome, Finish,
                     BeatDies, Crash, reclass
<1>6. ASSUME ReadPage \/ Tick \/ UNCHANGED vars PROVE UNCHANGED declared
  BY <1>6, Zenon DEF ReadPage, Tick, vars, reclass
<1> QED
  BY <1>1, <1>2, <1>3, <1>4, <1>5, <1>6 DEF Next


\* Only a claim hands out tokens, and it takes fresh ones.
LEMMA TokensStep ==
  TypeOK /\ TokensUnique /\ IdleHoldsNothing /\ [Next]_vars => TokensUnique'
<1> SUFFICES ASSUME TypeOK, TokensUnique, IdleHoldsNothing, [Next]_vars
             PROVE  TokensUnique'
  OBVIOUS
<1>0. ASSUME \A w \in Workers : held'[w] \subseteq held[w] PROVE TokensUnique'
  BY <1>0 DEF TokensUnique
<1>1. ASSUME NEW w \in Workers, ClaimSome(w) PROVE TokensUnique'
  <2>1. PICK k \in Keys, t \in Tokens :
          /\ t \in FreshTokens(k)
          /\ held' = [held EXCEPT ![w] = {Snapshot(k, t)}]
    BY <1>1 DEF ClaimSome, Claim, FirstClaims, FreshTokens
  <2>2. \A v \in Workers : \A i \in held[v] : i.token # t
    BY <2>1 DEF FreshTokens
  <2>3. Snapshot(k, t).token = t
    BY DEF Snapshot
  <2>4. \A v \in Workers : held'[v] = IF v = w THEN {Snapshot(k, t)} ELSE held[v]
    BY <2>1 DEF TypeOK
  <2> QED
    BY <2>2, <2>3, <2>4 DEF TokensUnique
<1>2. ASSUME NEW w \in Workers, ClaimMore(w) PROVE TokensUnique'
  <2> DEFINE due == {k \in Keys : GroupOf[k] = "assessment" /\ Claimable(k)}
             new(batch, t) == {Snapshot(k, t[k]) : k \in batch}
  <2>1. PICK batch \in SUBSET due : \E t \in [batch -> Tokens] :
          /\ \A k \in batch : t[k] \in FreshTokens(k)
          /\ \A j, k \in batch : t[j] = t[k] => j = k
          /\ held' = [held EXCEPT ![w] = @ \cup new(batch, t)]
    BY <1>2, Zenon DEF ClaimMore
  <2>2. PICK t \in [batch -> Tokens] :
          /\ \A k \in batch : t[k] \in FreshTokens(k)
          /\ \A j, k \in batch : t[j] = t[k] => j = k
          /\ held' = [held EXCEPT ![w] = @ \cup new(batch, t)]
    BY <2>1
  <2>3. \A i \in new(batch, t) : \A v \in Workers : \A j \in held[v] :
          i.token # j.token
    BY <2>2 DEF FreshTokens, Snapshot
  <2>4. \A i, j \in new(batch, t) : i.token = j.token => i = j
    BY <2>2 DEF Snapshot
  <2>5. \A v \in Workers :
          held'[v] = IF v = w THEN held[w] \cup new(batch, t) ELSE held[v]
    BY <2>2 DEF TypeOK
  <2> HIDE DEF new
  <2> QED
    BY <2>3, <2>4, <2>5 DEF TokensUnique
<1>3. ASSUME NEW w \in Workers, FinishSome(w) PROVE TokensUnique'
  BY <1>0, <1>3 DEF FinishSome, Finish, TypeOK
<1>4. ASSUME NEW w \in Workers, Crash(w) PROVE TokensUnique'
  BY <1>0, <1>4 DEF Crash, TypeOK
<1>5. ASSUME UNCHANGED held PROVE TokensUnique'
  BY <1>5 DEF TokensUnique
<1>6. ASSUME NEW k \in Keys, PlanBaseline(k) \/ RequestRevision(k) \/ WakeWaiting(k)
      PROVE  UNCHANGED held
  BY <1>6, Zenon DEF PlanBaseline, RequestRevision, WakeWaiting
<1>7. ASSUME NEW w \in Workers, \/ Heartbeat(w) \/ ReadHeartbeat(w)
                                \/ WriteHeartbeat(w) \/ BeatDies(w)
      PROVE  UNCHANGED held
  BY <1>7, Zenon DEF Heartbeat, ReadHeartbeat, WriteHeartbeat, BeatDies
<1>8. ASSUME ReadPage \/ WritePage \/ Tick \/ UNCHANGED vars PROVE UNCHANGED held
  BY <1>8, Zenon DEF ReadPage, WritePage, Tick, vars
<1> QED
  BY <1>1, <1>2, <1>3, <1>4, <1>5, <1>6, <1>7, <1>8 DEF Next

\* A worker lets go of all its items before it is idle again.
LEMMA IdleStep == TypeOK /\ IdleHoldsNothing /\ [Next]_vars => IdleHoldsNothing'
<1> SUFFICES ASSUME TypeOK, IdleHoldsNothing, [Next]_vars PROVE IdleHoldsNothing'
  OBVIOUS
<1>1. ASSUME NEW w \in Workers, ClaimSome(w) PROVE IdleHoldsNothing'
  BY <1>1 DEF ClaimSome, Claim, IdleHoldsNothing, TypeOK
<1>2. ASSUME NEW w \in Workers, ClaimMore(w) PROVE IdleHoldsNothing'
  <2>1. phase' = [phase EXCEPT ![w] = "work"]
        /\ \A v \in Workers : v # w => held'[v] = held[v]
    BY <1>2, Zenon DEF ClaimMore, TypeOK
  <2> QED
    BY <2>1 DEF IdleHoldsNothing, TypeOK
<1>3. ASSUME NEW w \in Workers, FinishSome(w) PROVE IdleHoldsNothing'
  BY <1>3 DEF FinishSome, Finish, IdleHoldsNothing, TypeOK
<1>4. ASSUME NEW w \in Workers, Crash(w) PROVE IdleHoldsNothing'
  BY <1>4 DEF Crash, IdleHoldsNothing, TypeOK
<1>5. ASSUME UNCHANGED <<held, phase>> PROVE IdleHoldsNothing'
  BY <1>5 DEF IdleHoldsNothing
<1>6. ASSUME NEW k \in Keys, PlanBaseline(k) \/ RequestRevision(k) \/ WakeWaiting(k)
      PROVE  UNCHANGED <<held, phase>>
  BY <1>6, Zenon DEF PlanBaseline, RequestRevision, WakeWaiting
<1>7. ASSUME NEW w \in Workers, \/ Heartbeat(w) \/ ReadHeartbeat(w)
                                \/ WriteHeartbeat(w) \/ BeatDies(w)
      PROVE  UNCHANGED <<held, phase>>
  BY <1>7, Zenon DEF Heartbeat, ReadHeartbeat, WriteHeartbeat, BeatDies
<1>8. ASSUME ReadPage \/ WritePage \/ Tick \/ UNCHANGED vars
      PROVE  UNCHANGED <<held, phase>>
  BY <1>8, Zenon DEF ReadPage, WritePage, Tick, vars
<1> QED
  BY <1>1, <1>2, <1>3, <1>4, <1>5, <1>6, <1>7, <1>8 DEF Next

\* The empty queue satisfies the invariant.
LEMMA InvInit == Init => Inv
<1> SUFFICES ASSUME Init PROVE Inv
  OBVIOUS
<1>1. RowsGood
  BY DEF Init, RowsGood, GoodRow, NoRow, Settled
<1>3. SheetGood /\ DeclaredGood
  BY DEF Init, SheetGood, Coherent, DeclaredGood
<1>2. TokensUnique /\ IdleHoldsNothing
  BY DEF Init, TokensUnique, IdleHoldsNothing
<1> QED
  BY <1>1, <1>2, <1>3, TypeInit DEF Inv

\* Every step of the queue keeps the invariant.
LEMMA InvStep == Inv /\ [Next]_vars => Inv'
BY TypeStep, RowsStep, SheetStep, DeclaredStep, TokensStep, IdleStep DEF Inv

\* The inductive invariant holds in every reachable state of the queue.
THEOREM Invariance == Spec => []Inv
BY InvInit, InvStep, PTL DEF Spec

------------------------------------------------------------------------------
\* The properties of the runs, for every instance.

\* A settled row was checked for the revision it asks for, or reclassification
\* declared it current for this revision.
THEOREM SettledCorrect == Spec => []SettledForItsRevision
BY Invariance, RowsGoodSuffices, PTL DEF Inv

\* A running row is always leased and owned, and due unless reclassification put
\* its date off for the revision it asks for, so a dead owner is replaced.
THEOREM RunningCorrect == Spec => []RunningIsRecoverable
BY Invariance, RowsGoodSuffices, PTL DEF Inv

\* At most one attempt can settle a row.
THEOREM OwnerCorrect == Spec => []SingleOwner
BY Invariance, TokensUniqueSuffices, PTL DEF Inv

\* A request does not move the revision of any key back.
LEMMA EnqueueAdvances ==
  ASSUME Inv, NEW k \in Keys, NEW r \in Revisions, NEW d \in Int, NEW p \in Nat,
         Enqueue(k, r, d, p), NEW j \in Keys
  PROVE  row'[j].revision >= row[j].revision
<1>1. /\ row \in [Keys -> Row] /\ row[k] \in Row /\ GoodRow(row[k], declared[k])
      /\ row[j].revision \in Nat /\ row[k].revision \in Nat /\ r \in Nat
  BY Bounds DEF Inv, TypeOK, Row, Revisions, RowsGood
<1>2. CASE row[k].status = "absent"
  <2>1. NewRow(r, d, p).revision = r /\ row[k].revision = 0
    BY <1>1, <1>2 DEF NewRow, NoRow, GoodRow, Baseline
  <2> QED
    BY <1>1, <1>2, <2>1 DEF Enqueue
<1>3. CASE row[k].status # "absent"
  <2>1. Updated(k, r, d, p).revision = IF r = Baseline THEN row[k].revision ELSE r
    BY <1>1 DEF Updated, Row
  <2> QED
    BY <1>1, <1>3, <2>1 DEF Enqueue, Supersedes
<1> QED
  BY <1>2, <1>3

\* The wanted revision of a key never goes back.
THEOREM RevisionsCorrect == Spec => RevisionsAdvance
<1>1. Inv /\ [Next]_vars =>
        [\A k \in Keys : row'[k].revision >= row[k].revision]_vars
  <2> SUFFICES ASSUME Inv, [Next]_vars, NEW j \in Keys
               PROVE  row'[j].revision >= row[j].revision
    OBVIOUS
  <2>1. row[j].revision \in Int
    BY Bounds DEF Inv, TypeOK, Row, Revisions
  <2>2. ASSUME NEW k \in Keys, PlanBaseline(k)
        PROVE  row'[j].revision >= row[j].revision
    <3>1. Baseline \in Revisions /\ FirstDues \subseteq Int /\ Priorities \subseteq Nat
      BY Inputs, Bounds DEF Baseline, Revisions
    <3> QED
      BY <2>2, <3>1, EnqueueAdvances DEF PlanBaseline
  <2>3. ASSUME NEW k \in Keys, RequestRevision(k)
        PROVE  row'[j].revision >= row[j].revision
    <3>1. 0 \in Int /\ Priorities \subseteq Nat
      BY Inputs
    <3> QED
      BY <2>3, <3>1, EnqueueAdvances DEF RequestRevision
  <2>4. CASE ~ \E k \in Keys : PlanBaseline(k) \/ RequestRevision(k)
    BY <2>1, <2>4, ElsewhereKept DEF Kept, Inv
  <2> QED
    BY <2>2, <2>3, <2>4
<1> QED
  BY <1>1, Invariance, PTL DEF Spec, RevisionsAdvance

\* A row stops running only in the hands of its owner, or under a sheet that
\* names another status for it.
LEMMA OwnerEnds ==
  ASSUME Inv, [Next]_vars, NEW k \in Keys,
         row[k].status = "running", row'[k].status # "running"
  PROVE  \/ \E w \in Workers : \E it \in held[w] :
              it.key = k /\ Owns(it) /\ it \notin held'[w]
         \/ /\ GroupOf[k] = "statements"
            /\ row'[k].status = sheet[k].status
            /\ sheet'[k] = NoChange /\ held' = held
<1>t. row \in [Keys -> Row] /\ row[k] \in Row
  BY DEF Inv, TypeOK
<1>0. ASSUME NEW j \in Keys, NEW r \in Revisions, NEW d \in Int, NEW p \in Nat,
             Enqueue(j, r, d, p)
      PROVE  FALSE
  <2>1. j = k
    BY <1>0, <1>t DEF Enqueue
  <2>2. Supersedes(k, r, d) /\ row'[k] = Updated(k, r, d, p)
    BY <1>0, <1>t, <2>1 DEF Enqueue
  <2>3. Updated(k, r, d, p).status = "running"
    BY <1>t DEF Updated, Row
  <2> QED
    BY <2>2, <2>3
<1>1. ASSUME NEW j \in Keys, PlanBaseline(j) \/ RequestRevision(j) PROVE FALSE
  <2>1. /\ Baseline \in Revisions /\ FirstDues \subseteq Int /\ 0 \in Int
        /\ Priorities \subseteq Nat
    BY Inputs, Bounds DEF Baseline, Revisions
  <2> QED
    BY <1>0, <1>1, <2>1 DEF PlanBaseline, RequestRevision
<1>2. ASSUME NEW j \in Keys, WakeWaiting(j) PROVE FALSE
  BY <1>2, <1>t DEF WakeWaiting
<1>3. ASSUME NEW w \in Workers, ClaimSome(w) PROVE FALSE
  <2>1. PICK j \in Keys, t \in Tokens : row' = [row EXCEPT ![j] = Leased(j, t)]
    BY <1>3 DEF ClaimSome, Claim, FirstClaims, FreshTokens
  <2> QED
    BY <1>t, <2>1 DEF Leased, Row
<1>4. ASSUME NEW w \in Workers, ClaimMore(w) PROVE FALSE
  <2> DEFINE due == {j \in Keys : GroupOf[j] = "assessment" /\ Claimable(j)}
  <2>1. PICK batch \in SUBSET due : \E t \in [batch -> Tokens] :
          row' = [j \in Keys |-> IF j \in batch THEN Leased(j, t[j]) ELSE row[j]]
    BY <1>4, Zenon DEF ClaimMore
  <2>2. PICK t \in [batch -> Tokens] :
          row' = [j \in Keys |-> IF j \in batch THEN Leased(j, t[j]) ELSE row[j]]
    BY <2>1
  <2>3. row'[k] = IF k \in batch THEN Leased(k, t[k]) ELSE row[k]
    BY <2>2
  <2> QED
    BY <1>t, <2>3 DEF Leased, Row
<1>5. ASSUME NEW w \in Workers, Heartbeat(w) PROVE FALSE
  <2>1. \/ UNCHANGED row
        \/ \E it \in held[w] : row' = [row EXCEPT ![it.key].lease = LeaseTicks]
    BY <1>5 DEF Heartbeat
  <2>2. row'[k] \in {row[k], [row[k] EXCEPT !.lease = LeaseTicks]}
    BY <1>t, <2>1
  <2> QED
    BY <1>t, <2>2 DEF Row
<1>6. ASSUME NEW w \in Workers, WriteHeartbeat(w) PROVE FALSE
  BY <1>6, <1>t DEF WriteHeartbeat, Row
<1>7. ASSUME Tick PROVE FALSE
  BY <1>7, TickFields DEF Inv
<1>r. ~ UNCHANGED row
  OBVIOUS
<1>s. \A w \in Workers : ~ ReadHeartbeat(w) /\ ~ BeatDies(w) /\ ~ Crash(w)
  BY <1>r DEF ReadHeartbeat, BeatDies, Crash
<1>p. ~ ReadPage
  BY <1>r DEF ReadPage
<1>w. CASE WritePage
  <2>1. row'[k] = Reclassified(k) /\ sheet[k] \in Change
    BY <1>w DEF WritePage, Inv, TypeOK
  <2>2. sheet[k].status # "kept" /\ row'[k].status = sheet[k].status
    BY <1>t, <2>1, ReclassifiedType
  <2>3. sheet[k] # NoChange
    BY <2>2 DEF NoChange
  <2> QED
    BY <1>w, <2>2, <2>3 DEF Inv, SheetGood, WritePage
<1> SUFFICES ASSUME ~ WritePage
             PROVE  \E w \in Workers : \E it \in held[w] :
                      it.key = k /\ Owns(it) /\ it \notin held'[w]
  BY <1>w
<1>8. PICK w \in Workers : FinishSome(w)
  <2>1. Next
    BY <1>r DEF vars
  <2>2. \A j \in Keys : ~ PlanBaseline(j) /\ ~ RequestRevision(j) /\ ~ WakeWaiting(j)
    BY <1>1, <1>2
  <2>3. \A w \in Workers : /\ ~ ClaimSome(w) /\ ~ ClaimMore(w)
                          /\ ~ Heartbeat(w) /\ ~ WriteHeartbeat(w)
    BY <1>3, <1>4, <1>5, <1>6
  <2> QED
    BY <1>7, <1>p, <1>s, <2>1, <2>2, <2>3 DEF Next
<1>9. PICK it \in held[w], outcome \in Settled : Finish(w, it, outcome)
  BY <1>8 DEF FinishSome
<1>10. Owns(it) /\ it.key = k
  BY <1>9, <1>t DEF Finish
<1>11. it \notin held'[w]
  BY <1>9 DEF Finish, Inv, TypeOK
<1> QED
  BY <1>9, <1>10, <1>11

\* A running row stops running only when the attempt that holds its token hands
\* it in, or a reclassification writes the status it decided on before: no
\* replaced owner, request or price update ends a run (finish()).
THEOREM OwnerEndsRunCorrect == Spec => OnlyOwnerEndsRun
<1>1. Inv /\ [Next]_vars =>
        [\A k \in Keys :
           (row[k].status = "running" /\ row'[k].status # "running") =>
             \/ \E w \in Workers : \E it \in held[w] :
                  it.key = k /\ Owns(it) /\ it \notin held'[w]
             \/ /\ GroupOf[k] = "statements"
                /\ row'[k].status = sheet[k].status
                /\ sheet'[k] = NoChange /\ held' = held]_vars
  BY OwnerEnds
<1> QED
  BY <1>1, Invariance, PTL DEF Spec, OnlyOwnerEndsRun

------------------------------------------------------------------------------
\* The refinement: every behaviour of the queue is a behaviour of the RevisionLedger;
\* the attempt the ledger knows is the one whose token the row carries.

\* The attempt that owns a row is its only live attempt.
LEMMA OwnerIsLive ==
  ASSUME Inv, NEW w \in Workers, NEW it \in held[w], Owns(it)
  PROVE  /\ LiveAttempts(it.key) = {it}
         /\ it.key \in Keys => BeganFrom[it.key] = it.revision
<1>1. it \in LiveAttempts(it.key)
  BY DEF LiveAttempts
<1>2. \A other \in LiveAttempts(it.key) : other = it
  BY DEF LiveAttempts, Owns, Inv, TokensUnique
<1>3. LiveAttempts(it.key) = {it}
  BY <1>1, <1>2
<1> QED
  BY <1>3 DEF BeganFrom

\* A key without a live attempt.
LEMMA NobodyLive ==
  ASSUME NEW k \in Keys, LiveAttempts(k) = {}
  PROVE  BeganFrom[k] = NoCheck
BY DEF BeganFrom

\* As long as the live attempts of a key stay, so does where they began.
LEMMA SameAttempts ==
  ASSUME NEW k \in Keys, LiveAttempts(k)' = LiveAttempts(k)
  PROVE  BeganFrom'[k] = BeganFrom[k]
BY DEF BeganFrom

\* When no worker takes or gives up an item and no token changes, every attempt
\* stays where it was.
LEMMA SameHands ==
  ASSUME TypeOK, UNCHANGED held, \A k \in Keys : row'[k].token = row[k].token
  PROVE  BeganFrom' = BeganFrom
<1>1. \A it \in UNION {held[w] : w \in Workers} : it.key \in Keys
  BY DEF TypeOK, Item
<1>2. \A k \in Keys : LiveAttempts(k)' = LiveAttempts(k)
  BY <1>1 DEF LiveAttempts, Owns
<1>3. \A k \in Keys : BeganFrom'[k] = BeganFrom[k]
  BY <1>2, SameAttempts
<1> QED
  BY <1>3 DEF BeganFrom

------------------------------------------------------------------------------
\* Requests are requests of the ledger, or nothing to it.

\* enqueue() asks the ledger for a newer revision or does nothing to it.
LEMMA EnqueueRefines ==
  ASSUME Inv, NEW k \in Keys, NEW r \in Revisions, NEW d \in Int, NEW p \in Nat,
         Enqueue(k, r, d, p), UNCHANGED held
  PROVE  [Ledger!Next]_(Ledger!vars)
<1>t. row \in [Keys -> Row] /\ row[k] \in Row /\ GoodRow(row[k], declared[k]) /\ r \in Nat
      /\ row[k].revision \in Nat
  BY Bounds DEF Inv, TypeOK, RowsGood, Row, Revisions
<1> DEFINE new == IF row[k].status = "absent" THEN NewRow(r, d, p)
                  ELSE Updated(k, r, d, p)
<1>1. row' = [row EXCEPT ![k] = new]
  BY DEF Enqueue
<1>2. /\ new.token = row[k].token
      /\ new.checked = row[k].checked
      /\ new.status # "absent"
      /\ new.revision = IF r = Baseline /\ row[k].status # "absent"
                          THEN row[k].revision ELSE r
  BY <1>t DEF GoodRow, NewRow, NoRow, Updated, Row
<1> HIDE DEF new
<1>3. /\ \A j \in Keys : row'[j].token = row[j].token
      /\ \A j \in Keys : row'[j].checked = row[j].checked
  BY <1>1, <1>2, <1>t
<1>4. BeganFrom' = BeganFrom
  BY <1>3, SameHands DEF Inv
<1>5. Checked' = Checked
  BY <1>3 DEF Checked
<1>6. Wanted' = [Wanted EXCEPT ![k] = new.revision]
  <2>1. \A j \in Keys : Wanted'[j] = IF j = k THEN new.revision ELSE Wanted[j]
    BY <1>1, <1>2, <1>t DEF Wanted
  <2> QED
    BY <2>1 DEF Wanted
<1>7. CASE row[k].status # "absent" /\ r = Baseline
  <2>1. Wanted' = Wanted
    BY <1>2, <1>6, <1>7 DEF Wanted
  <2> QED
    BY <1>4, <1>5, <2>1 DEF Ledger!vars
<1>8. CASE ~(row[k].status # "absent" /\ r = Baseline)
  <2>1. r > Wanted[k]
    BY <1>8, <1>t DEF Wanted, Enqueue, Supersedes, NoCheck
  <2>2. Ledger!Ask(k)
    BY <1>2, <1>4, <1>5, <1>6, <1>8, <2>1 DEF Ledger!Ask
  <2> QED
    BY <2>2 DEF Ledger!Next
<1> QED
  BY <1>7, <1>8

------------------------------------------------------------------------------
\* Waking, heartbeats and time are invisible to the ledger.

\* A step that keeps tokens, revisions and verdicts is a stutter of the ledger.
LEMMA InvisibleRefines ==
  ASSUME TypeOK, UNCHANGED held,
         \A k \in Keys : /\ row'[k].token = row[k].token
                         /\ row'[k].checked = row[k].checked
                         /\ row'[k].revision = row[k].revision
                         /\ row'[k].status = "absent" <=> row[k].status = "absent"
  PROVE  [Ledger!Next]_(Ledger!vars)
<1>1. Wanted' = Wanted /\ Checked' = Checked
  BY DEF Wanted, Checked
<1>2. BeganFrom' = BeganFrom
  BY SameHands
<1> QED
  BY <1>1, <1>2 DEF Ledger!vars

------------------------------------------------------------------------------
\* Claims begin attempts.

\* What claim() writes into a row.
LEMMA LeasedFields ==
  ASSUME TypeOK, NEW k \in Keys, NEW t \in Tokens
  PROVE  /\ Leased(k, t).token = t
         /\ Leased(k, t).status = "running"
         /\ Leased(k, t).revision = row[k].revision
         /\ Leased(k, t).checked = row[k].checked
BY DEF Leased, TypeOK, Row

\* The keys of S get fresh tokens t; w holds their snapshots and what it held.
LEMMA BeginRefines ==
  ASSUME Inv, NEW w \in Workers, NEW S \in SUBSET Keys, NEW t \in [S -> Tokens],
         \A k \in S : Claimable(k) /\ t[k] \in FreshTokens(k),
         row' = [k \in Keys |-> IF k \in S THEN Leased(k, t[k]) ELSE row[k]],
         held' = [held EXCEPT ![w] = @ \cup {Snapshot(k, t[k]) : k \in S}]
  PROVE  [Ledger!Next]_(Ledger!vars)
<1> DEFINE all  == UNION {held[v] : v \in Workers}
           new  == {Snapshot(k, t[k]) : k \in S}
<1>1. UNION {held'[v] : v \in Workers} = all \cup new
  BY DEF Inv, TypeOK
<1>2. \A k \in S : Snapshot(k, t[k]).key = k /\ Snapshot(k, t[k]).token = t[k]
                  /\ Snapshot(k, t[k]).revision = row[k].revision
  BY DEF Snapshot
<1>3. \A k \in S : \A it \in all : it.token # t[k]
  BY DEF FreshTokens
<1>4. \A k \in S : row'[k].token = t[k]
  BY LeasedFields DEF Inv
<1>5. \A k \in Keys \ S : row'[k] = row[k]
  OBVIOUS
<1> HIDE DEF all, new
<1>6. ASSUME NEW k \in S PROVE LiveAttempts(k)' = {Snapshot(k, t[k])}
  <2>1. LiveAttempts(k)' = {it \in all \cup new : it.key = k /\ row'[it.key].token = it.token}
    BY <1>1 DEF LiveAttempts, Owns
  <2>2. \A it \in all : ~(it.key = k /\ row'[it.key].token = it.token)
    BY <1>3, <1>4
  <2>3. \A it \in new : it.key = k /\ row'[it.key].token = it.token
                        <=> it = Snapshot(k, t[k])
    BY <1>2, <1>4, SMTT(30) DEF new
  <2>4. Snapshot(k, t[k]) \in new
    BY DEF new
  <2> QED
    BY <2>1, <2>2, <2>3, <2>4
<1>7. ASSUME NEW k \in Keys \ S PROVE LiveAttempts(k)' = LiveAttempts(k)
  <2>1. LiveAttempts(k)' = {it \in all \cup new : it.key = k /\ row'[it.key].token = it.token}
    BY <1>1 DEF LiveAttempts, Owns
  <2>2. \A it \in new : it.key # k
    BY <1>2 DEF new
  <2>3. LiveAttempts(k) = {it \in all : it.key = k /\ row[it.key].token = it.token}
    BY DEF LiveAttempts, Owns, all
  <2> QED
    BY <1>5, <2>1, <2>2, <2>3
<1>8. \A k \in Keys : BeganFrom'[k] = IF k \in S THEN Wanted[k] ELSE BeganFrom[k]
  <2>1. ASSUME NEW k \in S PROVE BeganFrom'[k] = Wanted[k]
    <3>1. BeganFrom'[k] = Snapshot(k, t[k]).revision
      BY <1>6 DEF BeganFrom
    <3> QED
      BY <1>2, <3>1 DEF Wanted, Claimable
  <2>2. ASSUME NEW k \in Keys \ S PROVE BeganFrom'[k] = BeganFrom[k]
    BY <1>7, SameAttempts
  <2> QED
    BY <2>1, <2>2
<1>9. BeganFrom' = [k \in Keys |-> IF k \in S THEN Wanted[k] ELSE BeganFrom[k]]
  BY <1>8 DEF BeganFrom
<1>10. Wanted' = Wanted /\ Checked' = Checked
  <2>1. \A k \in Keys : /\ row'[k].revision = row[k].revision
                        /\ row'[k].checked = row[k].checked
                        /\ row'[k].status = "absent" <=> row[k].status = "absent"
    BY <1>5, LeasedFields DEF Inv, Claimable
  <2> QED
    BY <2>1 DEF Wanted, Checked
<1>11. \A k \in S : Wanted[k] # Ledger!None
  BY Bounds DEF Wanted, Claimable, Ledger!None, Inv, TypeOK, Row, Revisions
<1>12. Ledger!Begin(S)
  BY <1>9, <1>10, <1>11 DEF Ledger!Begin
<1> QED
  BY <1>12 DEF Ledger!Next

\* claim() begins an attempt for one key.
LEMMA ClaimRefines ==
  ASSUME Inv, NEW w \in Workers, ClaimSome(w)
  PROVE  [Ledger!Next]_(Ledger!vars)
<1>1. PICK k \in Keys, t \in Tokens :
        /\ Claimable(k)
        /\ t \in FreshTokens(k)
        /\ row' = [row EXCEPT ![k] = Leased(k, t)]
        /\ held' = [held EXCEPT ![w] = {Snapshot(k, t)}]
  BY DEF ClaimSome, Claim, FirstClaims, FreshTokens
<1>2. held[w] = {}
  BY DEF ClaimSome, Claim, Inv, IdleHoldsNothing
<1> DEFINE tt == [j \in {k} |-> t]
<1>3. /\ tt \in [{k} -> Tokens] /\ tt[k] = t
      /\ \A j \in {k} : Claimable(j) /\ tt[j] \in FreshTokens(j)
  BY <1>1
<1>4. row' = [j \in Keys |-> IF j \in {k} THEN Leased(j, tt[j]) ELSE row[j]]
  BY <1>1 DEF Inv, TypeOK
<1>5. held' = [held EXCEPT ![w] = @ \cup {Snapshot(j, tt[j]) : j \in {k}}]
  <2>1. {Snapshot(j, tt[j]) : j \in {k}} = {Snapshot(k, t)}
    BY <1>3
  <2> QED
    BY <1>1, <1>2, <2>1 DEF Inv, TypeOK
<1> HIDE DEF tt
<1> QED
  BY <1>3, <1>4, <1>5, BeginRefines

\* claim_more() begins an attempt for each key of the batch.
LEMMA ClaimMoreRefines ==
  ASSUME Inv, NEW w \in Workers, ClaimMore(w)
  PROVE  [Ledger!Next]_(Ledger!vars)
<1> DEFINE due == {k \in Keys : GroupOf[k] = "assessment" /\ Claimable(k)}
<1>1. PICK batch \in SUBSET due : \E t \in [batch -> Tokens] :
        /\ \A k \in batch : t[k] \in FreshTokens(k)
        /\ row' = [k \in Keys |-> IF k \in batch THEN Leased(k, t[k]) ELSE row[k]]
        /\ held' = [held EXCEPT ![w] = @ \cup {Snapshot(k, t[k]) : k \in batch}]
  BY Zenon DEF ClaimMore
<1>2. PICK t \in [batch -> Tokens] :
        /\ \A k \in batch : t[k] \in FreshTokens(k)
        /\ row' = [k \in Keys |-> IF k \in batch THEN Leased(k, t[k]) ELSE row[k]]
        /\ held' = [held EXCEPT ![w] = @ \cup {Snapshot(k, t[k]) : k \in batch}]
  BY <1>1
<1>3. batch \in SUBSET Keys /\ \A k \in batch : Claimable(k)
  OBVIOUS
<1> QED
  BY <1>2, <1>3, BeginRefines

------------------------------------------------------------------------------
\* Finishing settles or drops the owner's attempt.

\* A finish settles the key when its revision is still wanted; it drops the
\* attempt when it is not, and nothing happens when the row has a new owner.
LEMMA FinishRefines ==
  ASSUME Inv, NEW w \in Workers, FinishSome(w)
  PROVE  [Ledger!Next]_(Ledger!vars)
<1>1. PICK it \in held[w], outcome \in Settled : Finish(w, it, outcome)
  BY DEF FinishSome
<1>2. /\ it \in Item /\ it.key \in Keys /\ it.token \in Tokens
      /\ row \in [Keys -> Row] /\ row[it.key] \in Row
      /\ GoodRow(row[it.key], declared[it.key])
      /\ it.revision \in Nat
  BY Bounds DEF Inv, TypeOK, Item, RowsGood, Revisions
<1> DEFINE k == it.key
<1>3. PICK d \in Delays(it, outcome) :
        row' = IF Owns(it) THEN [row EXCEPT ![k] = Finished(it, outcome, d)]
               ELSE row
  BY <1>1 DEF Finish
<1>4. d \in Int
  BY <1>2, <1>3, DelaysType
<1>5. UNION {held'[v] : v \in Workers} =
        (UNION {held[v] : v \in Workers}) \ {it}
  <2>1. \A v \in Workers : held'[v] = held[v] \ {it}
    <3>1. held'[w] = held[w] \ {it}
      BY <1>1 DEF Finish, Inv, TypeOK
    <3>2. ASSUME NEW v \in Workers, v # w PROVE held'[v] = held[v] \ {it}
      <4>1. held'[v] = held[v]
        BY <1>1, <3>2 DEF Finish, Inv, TypeOK
      <4>2. it \notin held[v]
        BY <3>2 DEF Inv, TokensUnique
      <4> QED
        BY <4>1, <4>2
    <3> QED
      BY <3>1, <3>2
  <2> QED
    BY <2>1
<1>6. ASSUME NEW j \in Keys, j # k PROVE BeganFrom'[j] = BeganFrom[j]
  <2>1. row'[j] = row[j]
    BY <1>2, <1>3, <1>6
  <2>2. LiveAttempts(j)' = LiveAttempts(j)
    BY <1>5, <1>6, <2>1 DEF LiveAttempts, Owns
  <2> QED
    BY <2>2, SameAttempts
<1>7. CASE ~Owns(it)
  <2>1. row' = row
    BY <1>3, <1>7
  <2>2. LiveAttempts(k)' = LiveAttempts(k)
    BY <1>5, <1>7, <2>1 DEF LiveAttempts, Owns
  <2>3. \A j \in Keys : BeganFrom'[j] = BeganFrom[j]
    BY <1>2, <1>6, <2>2, SameAttempts
  <2>4. BeganFrom' = BeganFrom /\ Wanted' = Wanted /\ Checked' = Checked
    BY <2>1, <2>3 DEF BeganFrom, Wanted, Checked
  <2> QED
    BY <2>4 DEF Ledger!vars
<1>8. CASE Owns(it)
  <2> DEFINE new == Finished(it, outcome, d)
  <2>1. row' = [row EXCEPT ![k] = new]
    BY <1>3, <1>8
  <2>2. /\ new.token = NoToken
        /\ new.status # "absent"
        /\ new.revision = row[k].revision
        /\ new.checked = IF row[k].revision = it.revision THEN it.revision
                         ELSE row[k].checked
    BY <1>2, <1>4, FinishedFields
  <2> HIDE DEF new
  <2>3. row[k].status # "absent"
    BY <1>2, <1>8, Bounds DEF GoodRow, Owns
  <2>4. Wanted' = Wanted
    BY <1>2, <2>1, <2>2, <2>3 DEF Wanted
  <2>5. LiveAttempts(k)' = {}
    <3>1. \A i \in UNION {held[v] : v \in Workers} : i.token \in Tokens
      BY DEF Inv, TypeOK, Item
    <3>2. row'[k].token \notin Tokens
      BY <1>2, <2>1, <2>2, Bounds
    <3> QED
      BY <1>5, <3>1, <3>2 DEF LiveAttempts, Owns
  <2>6. BeganFrom'[k] = NoCheck
    BY <1>2, <2>5 DEF BeganFrom
  <2>7. BeganFrom[k] = it.revision
    BY <1>2, <1>8, OwnerIsLive
  <2>8. BeganFrom' = [BeganFrom EXCEPT ![k] = NoCheck]
    <3>1. \A j \in Keys : BeganFrom'[j] = IF j = k THEN NoCheck ELSE BeganFrom[j]
      BY <1>6, <2>6
    <3> QED
      BY <1>2, <3>1 DEF BeganFrom
  <2>9. CASE row[k].revision = it.revision
    <3>1. Wanted[k] = it.revision
      BY <1>2, <2>3, <2>9 DEF Wanted
    <3>2. Checked' = [Checked EXCEPT ![k] = it.revision]
      BY <1>2, <2>1, <2>2, <2>9 DEF Checked
    <3>3. BeganFrom[k] # Ledger!None
      BY <1>2, <2>7 DEF Ledger!None
    <3>4. Ledger!Settle(k)
      BY <2>4, <2>7, <2>8, <3>1, <3>2, <3>3 DEF Ledger!Settle, Ledger!None, NoCheck
    <3> QED
      BY <1>2, <3>4 DEF Ledger!Next
  <2>10. CASE row[k].revision # it.revision
    <3>1. Checked' = Checked
      BY <1>2, <2>1, <2>2, <2>10 DEF Checked
    <3>2. Ledger!Drop({k})
      BY <2>4, <2>8, <3>1 DEF Ledger!Drop, Ledger!None, NoCheck, BeganFrom
    <3> QED
      BY <1>2, <3>2 DEF Ledger!Next
  <2> QED
    BY <2>9, <2>10
<1> QED
  BY <1>7, <1>8

------------------------------------------------------------------------------
\* A crash drops the attempts of the worker.

\* A dead worker's attempts are lost; those it no longer owned never counted.
LEMMA CrashRefines ==
  ASSUME Inv, NEW w \in Workers, Crash(w)
  PROVE  [Ledger!Next]_(Ledger!vars)
<1> DEFINE S == {it.key : it \in {i \in held[w] : Owns(i)}}
<1>1. row' = row /\ S \in SUBSET Keys
  BY DEF Crash, Inv, TypeOK, Item
<1>2. \A v \in Workers : held'[v] = IF v = w THEN {} ELSE held[v]
  BY DEF Crash, Inv, TypeOK
<1>3. ASSUME NEW k \in S PROVE BeganFrom'[k] = NoCheck
  <2>1. PICK it \in held[w] : Owns(it) /\ it.key = k
    OBVIOUS
  <2>2. LiveAttempts(k) = {it}
    BY <2>1, OwnerIsLive
  <2>3. \A v \in Workers : v # w => it \notin held[v]
    BY <2>1 DEF Inv, TokensUnique
  <2>4. LiveAttempts(k)' \subseteq LiveAttempts(k)
    BY <1>1, <1>2 DEF LiveAttempts, Owns
  <2>5. it \notin LiveAttempts(k)'
    BY <1>2, <2>3 DEF LiveAttempts
  <2> QED
    BY <1>1, <2>2, <2>4, <2>5 DEF BeganFrom
<1>4. ASSUME NEW k \in Keys \ S PROVE BeganFrom'[k] = BeganFrom[k]
  <2>1. \A it \in held[w] : ~(it.key = k /\ Owns(it))
    OBVIOUS
  <2>2. LiveAttempts(k)' = LiveAttempts(k)
    BY <1>1, <1>2, <2>1 DEF LiveAttempts, Owns
  <2> QED
    BY <2>2, SameAttempts
<1>5. BeganFrom' = [k \in Keys |-> IF k \in S THEN Ledger!None ELSE BeganFrom[k]]
  BY <1>1, <1>3, <1>4 DEF BeganFrom, Ledger!None, NoCheck
<1>6. Wanted' = Wanted /\ Checked' = Checked
  BY <1>1 DEF Wanted, Checked
<1>7. Ledger!Drop(S)
  BY <1>5, <1>6 DEF Ledger!Drop
<1> QED
  BY <1>1, <1>7 DEF Ledger!Next
------------------------------------------------------------------------------
\* The other steps leave tokens, revisions and verdicts alone.

\* Waking a row, heartbeats, reclassification, broken threads, the passing of
\* time.
LEMMA QuietRefines ==
  ASSUME Inv,
         \/ \E k \in Keys : WakeWaiting(k)
         \/ \E w \in Workers : \/ Heartbeat(w) \/ ReadHeartbeat(w)
                               \/ WriteHeartbeat(w) \/ BeatDies(w)
         \/ ReadPage
         \/ WritePage
         \/ Tick
         \/ UNCHANGED vars
  PROVE  [Ledger!Next]_(Ledger!vars)
<1>t. TypeOK /\ row \in [Keys -> Row] /\ \A j \in Keys : row[j] \in Row
  BY DEF Inv, TypeOK
<1>h. UNCHANGED held
  BY Zenon DEF WakeWaiting, Heartbeat, ReadHeartbeat, WriteHeartbeat, BeatDies,
               ReadPage, WritePage, Tick, vars
<1> DEFINE Same(j) == /\ row'[j].token = row[j].token
                      /\ row'[j].checked = row[j].checked
                      /\ row'[j].revision = row[j].revision
                      /\ row'[j].status = "absent" <=> row[j].status = "absent"
<1>0. ASSUME UNCHANGED row PROVE \A j \in Keys : Same(j)
  BY <1>0
<1>1. ASSUME NEW k \in Keys, WakeWaiting(k) PROVE \A j \in Keys : Same(j)
  BY <1>1, <1>t DEF WakeWaiting, Row
<1>2. ASSUME NEW w \in Workers, Heartbeat(w) PROVE \A j \in Keys : Same(j)
  <2>1. \/ UNCHANGED row
        \/ \E it \in held[w] : row' = [row EXCEPT ![it.key].lease = LeaseTicks]
    BY <1>2 DEF Heartbeat
  <2>2. \A j \in Keys : row'[j] \in {row[j], [row[j] EXCEPT !.lease = LeaseTicks]}
    BY <1>t, <2>1
  <2> QED
    BY <1>t, <2>2 DEF Row
<1>3. ASSUME NEW w \in Workers, WriteHeartbeat(w) PROVE \A j \in Keys : Same(j)
  BY <1>3, <1>t DEF WriteHeartbeat, Row
<1>4. ASSUME Tick PROVE \A j \in Keys : Same(j)
  BY <1>4, <1>t, TickFields
<1>6. ASSUME WritePage PROVE \A j \in Keys : Same(j)
  <2> SUFFICES ASSUME NEW j \in Keys PROVE Same(j)
    OBVIOUS
  <2>1. row'[j] = Reclassified(j) /\ sheet[j] \in Change
    BY <1>6 DEF WritePage, TypeOK, Inv
  <2>2. sheet[j] = NoChange \/ row[j].status # "absent"
    BY DEF Inv, SheetGood
  <2>3. row'[j].status = IF sheet[j].status = "kept" THEN row[j].status
                         ELSE sheet[j].status
    BY <1>t, <2>1, ReclassifiedType
  <2>4. row'[j].status = "absent" <=> row[j].status = "absent"
    BY <2>1, <2>2, <2>3 DEF Change, NoChange
  <2> QED
    BY <1>t, <2>1, <2>4, ReclassifiedType
<1>5. \A j \in Keys : Same(j)
  BY <1>0, <1>1, <1>2, <1>3, <1>4, <1>6 DEF ReadHeartbeat, ReadPage, BeatDies, vars
<1> QED
  BY <1>5, <1>h, <1>t, InvisibleRefines

------------------------------------------------------------------------------
\* The queue implements the ledger.

\* An empty table is an empty ledger.
LEMMA InitRefines == Init => Ledger!Init
<1> SUFFICES ASSUME Init PROVE Ledger!Init
  OBVIOUS
<1>1. \A k \in Keys : LiveAttempts(k) = {}
  BY DEF Init, LiveAttempts
<1> QED
  BY <1>1 DEF Init, Ledger!Init, Ledger!None, Wanted, BeganFrom, Checked,
              NoRow, NoCheck

\* Each step of the queue is a step of the ledger or nothing to it.
LEMMA StepRefines == Inv /\ [Next]_vars => [Ledger!Next]_(Ledger!vars)
<1> SUFFICES ASSUME Inv, [Next]_vars PROVE [Ledger!Next]_(Ledger!vars)
  OBVIOUS
<1>1. ASSUME NEW k \in Keys, PlanBaseline(k) PROVE [Ledger!Next]_(Ledger!vars)
  <2>1. Baseline \in Revisions /\ FirstDues \subseteq Int /\ Priorities \subseteq Nat
    BY Inputs, Bounds DEF Baseline, Revisions
  <2>2. PICK d \in FirstDues, p \in Priorities : Enqueue(k, Baseline, d, p)
    BY <1>1 DEF PlanBaseline
  <2>3. UNCHANGED held
    BY <1>1 DEF PlanBaseline
  <2> QED
    BY <2>1, <2>2, <2>3, EnqueueRefines
<1>2. ASSUME NEW k \in Keys, RequestRevision(k) PROVE [Ledger!Next]_(Ledger!vars)
  <2>1. 0 \in Int /\ Priorities \subseteq Nat
    BY Inputs
  <2>2. PICK r \in Revisions, p \in Priorities : Enqueue(k, r, 0, p)
    BY <1>2 DEF RequestRevision
  <2>3. UNCHANGED held
    BY <1>2 DEF RequestRevision
  <2> QED
    BY <2>1, <2>2, <2>3, EnqueueRefines
<1> QED
  BY <1>1, <1>2, ClaimRefines, ClaimMoreRefines, FinishRefines, CrashRefines,
     QuietRefines DEF Next

\* Leases, tokens, heartbeats, batches and crashes together implement the
\* ledger: an attempt settles a key only for the revision still wanted.
THEOREM LedgerImplemented == Spec => ImplementsLedger
<1>1. Init => Ledger!Init
  BY InitRefines
<1>2. Inv /\ [Next]_vars => [Ledger!Next]_(Ledger!vars)
  BY StepRefines
<1> QED
  BY <1>1, <1>2, Invariance, PTL DEF Spec, ImplementsLedger, Ledger!Spec
=============================================================================
