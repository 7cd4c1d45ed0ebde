----------------------------- MODULE Jobs_proofs -----------------------------
(***************************************************************************)
(* Proofs about the jobs.  The invariant says where rows, messages and      *)
(* tasks can come from (Exists), what holds while a request is between two   *)
(* of its transactions (Sections), that the silence of a queued row is not   *)
(* longer than the time since its message was sent (InTime), that a heavy    *)
(* task holds its unacknowledged message (Single), that what was given up    *)
(* cannot be delivered (GivenUp), and that the admission lock orders the     *)
(* refreshes of the stock (Ordered).                                        *)
(***************************************************************************)
EXTENDS Jobs, TLAPS

Steps  == {"idle", "taken", "body", "clear", "over"}
Calls  == [pc : {"idle", "reconcile", "create", "send", "note", "mark"},
           what : {"list", "heavy", "detail"}, job : Jobs \cup {NoJob}, stale : SUBSET Jobs]
Sending(c) == call[c].pc \in {"send", "note"}

\* What there is comes from a row.
Exists ==
  /\ \A j \in Jobs : msg[j] # "none" => status[j] # "none"
  /\ \A j \in Jobs, s \in Slots : exec[j][s] # "idle" => status[j] # "none"
  /\ \A j \in dropped : status[j] # "none"
  /\ \A c \in Callers : \A j \in call[c].stale : status[j] # "none"
  /\ \A c \in Callers : call[c].pc \in {"send", "note", "mark"} =>
       call[c].job \in Jobs /\ status[call[c].job] # "none"
  /\ \A j \in Jobs : status[j] \in Terminal => j \in ended

\* A row whose message is being sent is new; a stale row was silent for too long.
Sections ==
  /\ \A c \in Callers : Sending(c) => silent[call[c].job] = 0
  /\ \A c \in Callers : call[c].pc = "send" => msg[call[c].job] = "none"
  /\ \A c, d \in Callers : Sending(c) /\ Sending(d) /\ c # d => call[c].job # call[d].job
  /\ \A c \in Callers : \A j \in call[c].stale : status[j] = "queued" => silent[j] > QueuedLimit

\* A queued row is not silent for longer than its message is under way.
InTime ==
  /\ \A j \in Jobs : status[j] = "queued" /\ msg[j] # "none" /\ sent[j] <= Expiry => silent[j] <= sent[j]
  /\ \A j \in Jobs, s \in Slots : status[j] = "queued" /\ exec[j][s] # "idle" =>
       exec[j][s] = "taken" /\ silent[j] <= QueuedLimit

\* A heavy task holds its message; the solo worker has one task.
Single ==
  /\ \A j \in Jobs, s \in Slots : KindOf[j] = "heavy" /\ exec[j][s] # "idle" =>
       msg[j] = "unacked" /\ holder[j] = s /\ held[j] = age[j][s] /\ age[j][s] <= TimeLimit
  /\ \A i, j \in Jobs : \A s, t \in Slots :
       KindOf[i] = "detail" /\ KindOf[j] = "detail" /\ exec[i][s] # "idle" /\ exec[j][t] # "idle"
       => i = j /\ s = t

\* What was given up is not running and will not be delivered.
GivenUp ==
  /\ \A j \in dropped, s \in Slots : exec[j][s] = "idle"
  /\ \A j \in dropped : msg[j] = "none" \/ sent[j] > Expiry
  /\ \A c \in Callers : call[c].pc = "send" => call[c].job \notin dropped

\* The holder of the admission lock creates a row only when all earlier ones were over.
Ordered == outages = 0 =>
  /\ \A c \in Callers : call[c].pc \in {"reconcile", "create"} /\ call[c].what = "detail" => mutex = c
  /\ \A c \in Callers : call[c].pc = "create" /\ call[c].what = "detail" =>
       \A j \in Jobs : KindOf[j] = "detail" /\ status[j] # "none" => j \in ended
  /\ \A i, j \in Jobs :
       KindOf[i] = "detail" /\ KindOf[j] = "detail" /\ status[i] # "none" /\ status[j] # "none"
       => i = j \/ i \in ended \/ j \in ended

JobsInv == JobsTypeOK /\ Exists /\ Sections /\ InTime /\ Single /\ GivenUp /\ Ordered

\* The type, with named sets, and the constants.
LEMMA TypeParts ==
  /\ JobsTypeOK <=>
       /\ status \in [Jobs -> Statuses] /\ silent \in [Jobs -> 0 .. SilentCap] /\ known \in SUBSET Jobs
       /\ msg \in [Jobs -> {"none", "waiting", "unacked"}] /\ sent \in [Jobs -> 0 .. Expiry + 1]
       /\ held \in [Jobs -> 0 .. AgeCap] /\ holder \in [Jobs -> Slots]
       /\ exec \in [Jobs -> [Slots -> Steps]] /\ age \in [Jobs -> [Slots -> 0 .. AgeCap]]
       /\ call \in [Callers -> Calls] /\ mutex \in Callers \cup {NoCaller, DeadCaller}
       /\ outages \in Nat /\ losses \in Nat /\ outages + losses <= MaxFaults
       /\ ended \in SUBSET Jobs /\ dropped \in SUBSET Jobs
BY DEF JobsTypeOK, Steps, Calls

\* The constants and the bounds made of them.
LEMMA Constants ==
  /\ KindOf \in [Jobs -> {"heavy", "detail"}] /\ NoJob \notin Jobs
  /\ NoCaller \notin Callers /\ DeadCaller \notin Callers /\ NoCaller # DeadCaller
  /\ QueuedLimit \in Nat /\ Expiry \in Nat /\ RunningLimit \in Nat /\ TimeLimit \in Nat
  /\ Visibility \in Nat /\ MaxFaults \in Nat /\ Expiry = QueuedLimit /\ TimeLimit < Visibility
  /\ SilentCap \in Nat /\ SilentCap > QueuedLimit /\ AgeCap \in Nat /\ AgeCap >= Visibility
  /\ Slots # {}
BY JobsAssumption DEF JobsAssumption, SilentCap, AgeCap, Larger

\* A choice from a set is in the set.
LEMMA Chosen == ASSUME NEW S, S # {} PROVE (CHOOSE x \in S : TRUE) \in S
OBVIOUS

\* The fields of a request.
LEMMA CallParts ==
  ASSUME NEW k \in Calls
  PROVE  /\ k.pc \in {"idle", "reconcile", "create", "send", "note", "mark"}
         /\ k.what \in {"list", "heavy", "detail"} /\ k.job \in Jobs \cup {NoJob}
         /\ k.stale \in SUBSET Jobs
BY DEF Calls

\* A request that is over.
LEMMA IdleParts ==
  Idle \in Calls /\ Idle.pc = "idle" /\ Idle.what = "list" /\ Idle.job = NoJob /\ Idle.stale = {}
BY DEF Idle, Calls

\* An update of rows.
LEMMA WriteParts ==
  ASSUME JobsTypeOK, NEW J \in SUBSET Jobs, NEW st \in Statuses, Write(J, st)
  PROVE  /\ status' \in [Jobs -> Statuses] /\ silent' \in [Jobs -> 0 .. SilentCap]
         /\ known' \in SUBSET Jobs /\ ended' \in SUBSET Jobs
         /\ \A j \in Jobs : status'[j] = IF j \in J THEN st ELSE status[j]
         /\ \A j \in Jobs : silent'[j] = IF j \in J THEN 0 ELSE silent[j]
         /\ ended \subseteq ended' /\ (st \in Terminal => J \subseteq ended')
<1>1. /\ status' = [j \in Jobs |-> IF j \in J THEN st ELSE status[j]]
      /\ silent' = [j \in Jobs |-> IF j \in J THEN 0 ELSE silent[j]]
      /\ ended' = (IF st \in Terminal THEN ended \cup J ELSE ended) /\ known' = known
  BY DEF Write
<1>2. /\ status \in [Jobs -> Statuses] /\ silent \in [Jobs -> 0 .. SilentCap]
      /\ known \in SUBSET Jobs /\ ended \in SUBSET Jobs /\ 0 \in 0 .. SilentCap
  BY TypeParts, Constants
<1> HIDE DEF Write
<1>3. status' \in [Jobs -> Statuses] /\ silent' \in [Jobs -> 0 .. SilentCap]
  BY <1>1, <1>2
<1>4. /\ \A j \in Jobs : status'[j] = IF j \in J THEN st ELSE status[j]
      /\ \A j \in Jobs : silent'[j] = IF j \in J THEN 0 ELSE silent[j]
  BY <1>1
<1>5. known' \in SUBSET Jobs /\ ended' \in SUBSET Jobs
  BY <1>1, <1>2
<1>6. ended \subseteq ended' /\ (st \in Terminal => J \subseteq ended')
  BY <1>1
<1> QED BY <1>3, <1>4, <1>5, <1>6

\* A step of a request changes that request.
LEMMA CallChanged ==
  ASSUME JobsTypeOK, NEW c \in Callers, NEW k \in Calls, call' = [call EXCEPT ![c] = k]
  PROVE  /\ call' \in [Callers -> Calls] /\ call'[c] = k
         /\ \A d \in Callers : d # c => call'[d] = call[d]
BY TypeParts

\* A task that goes on: its row is written, or it has begun before.
LEMMA WorkKeeps ==
  ASSUME JobsInv, NEW j \in Jobs, NEW s \in Slots, NEW e \in {"body", "clear", "over"},
         exec[j][s] # "idle", exec' = [exec EXCEPT ![j][s] = e],
         UNCHANGED <<broker, age, call, mutex, outages, losses, dropped>>,
         \/ \E st \in {"running", "over", "cancelled"} : Write({j}, st)
         \/ UNCHANGED <<rows, ended>> /\ exec[j][s] # "taken"
  PROVE  JobsInv'
<1>1. /\ UNCHANGED <<msg, sent, held, holder, age, call, mutex, outages, losses, dropped>>
      /\ JobsTypeOK
  BY DEF broker, JobsInv
<1>2. /\ exec' \in [Jobs -> [Slots -> Steps]] /\ exec'[j][s] = e
      /\ \A i \in Jobs, t \in Slots : (i # j \/ t # s) => exec'[i][t] = exec[i][t]
  BY <1>1, TypeParts DEF Steps
<1>3. /\ status' \in [Jobs -> Statuses] /\ silent' \in [Jobs -> 0 .. SilentCap]
      /\ known' \in SUBSET Jobs /\ ended' \in SUBSET Jobs /\ ended \subseteq ended'
      /\ \A i \in Jobs : i # j => status'[i] = status[i] /\ silent'[i] = silent[i]
      /\ \/ status'[j] \in {"running", "over", "cancelled"} /\ silent'[j] = 0
         \/ status'[j] = status[j] /\ silent'[j] = silent[j] /\ exec[j][s] # "taken"
      /\ \A i \in Jobs : status'[i] \in Terminal => status[i] \in Terminal \/ i \in ended'
  <2>1. CASE UNCHANGED <<rows, ended>> /\ exec[j][s] # "taken"
    BY <1>1, <2>1, TypeParts DEF rows
  <2>2. ASSUME NEW st \in {"running", "over", "cancelled"}, Write({j}, st) PROVE <1>3
    BY <1>1, <2>2, WriteParts DEF Statuses
  <2> QED BY <2>1, <2>2
<1> DEFINE worked == status'[j] \in {"running", "over", "cancelled"} /\ silent'[j] = 0
           begun  == status'[j] = status[j] /\ silent'[j] = silent[j] /\ exec[j][s] # "taken"
<1>4. JobsTypeOK'
  BY <1>1, <1>2, <1>3, TypeParts DEF JobsTypeOK, Steps, Calls
<1>5. status[j] # "none" /\ status'[j] # "none" /\ status'[j] # "queued"
  BY <1>3 DEF JobsInv, Exists, InTime
<1>6. Exists'
  <2>1. \A i \in Jobs : status[i] # "none" => status'[i] # "none"
    BY <1>3, <1>5
  <2>2. \A i \in Jobs, t \in Slots : exec'[i][t] # "idle" => exec[i][t] # "idle"
    BY <1>2
  <2>3. \A i \in Jobs : status'[i] \in Terminal => i \in ended'
    BY <1>3 DEF JobsInv, Exists
  <2>4. dropped \in SUBSET Jobs /\ \A c \in Callers : call[c].stale \in SUBSET Jobs
    BY <1>1, TypeParts, CallParts
  <2> QED BY <1>1, <2>1, <2>2, <2>3, <2>4 DEF JobsInv, Exists
<1>7. Sections'
  <2>1. \A c \in Callers : Sending(c)' <=> Sending(c)
    BY <1>1 DEF Sending
  <2>2. \A c \in Callers : Sending(c) => call[c].job \in Jobs
    BY DEF JobsInv, Exists, Sending
  <2>3. \A c \in Callers : \A i \in call[c].stale : i \in Jobs
    BY <1>1, TypeParts, CallParts
  <2> QED BY <1>1, <1>3, <1>5, <2>1, <2>2, <2>3 DEF JobsInv, Sections
<1>8. InTime'
  BY <1>1, <1>2, <1>3, <1>5 DEF JobsInv, InTime
<1>9. Single'
  BY <1>1, <1>2 DEF JobsInv, Single
<1>10. GivenUp'
  <2>1. j \notin dropped /\ dropped \in SUBSET Jobs
    BY <1>1, TypeParts DEF JobsInv, GivenUp
  <2> QED BY <1>1, <1>2, <2>1 DEF JobsInv, GivenUp
<1>11. Ordered'
  BY <1>1, <1>3, <1>5 DEF JobsInv, Ordered
<1> QED BY <1>4, <1>6, <1>7, <1>8, <1>9, <1>10, <1>11 DEF JobsInv

\* A task that leaves its slot; its message is kept, acknowledged or queued again.
LEMMA LeaveKeeps ==
  ASSUME JobsInv, NEW j \in Jobs, NEW s \in Slots, exec[j][s] # "idle", Release(j, s),
         UNCHANGED <<rows, holder, call, mutex, outages, history>>,
         losses' \in Nat, outages + losses' <= MaxFaults,
         \/ UNCHANGED <<msg, sent, held>>
         \/ /\ msg' = [msg EXCEPT ![j] = "none"] /\ sent' = [sent EXCEPT ![j] = 0]
            /\ held' = [held EXCEPT ![j] = 0]
         \/ /\ msg' = [msg EXCEPT ![j] = "waiting"] /\ sent' = sent
            /\ held' = [held EXCEPT ![j] = 0] /\ msg[j] = "unacked"
  PROVE  JobsInv'
<1>1. /\ UNCHANGED <<status, silent, known, holder, call, mutex, outages, ended, dropped>>
      /\ JobsTypeOK
  BY DEF rows, history, JobsInv
<1>2. /\ exec' \in [Jobs -> [Slots -> Steps]] /\ exec'[j][s] = "idle"
      /\ age' \in [Jobs -> [Slots -> 0 .. AgeCap]]
      /\ \A i \in Jobs, t \in Slots : (i # j \/ t # s) => exec'[i][t] = exec[i][t] /\ age'[i][t] = age[i][t]
  <2>1. exec' = [exec EXCEPT ![j][s] = "idle"] /\ age' = [age EXCEPT ![j][s] = 0]
    BY DEF Release
  <2>2. "idle" \in Steps /\ 0 \in 0 .. AgeCap
    BY Constants DEF Steps
  <2> QED BY <1>1, <2>1, <2>2, TypeParts
<1>3. /\ msg' \in [Jobs -> {"none", "waiting", "unacked"}] /\ sent' \in [Jobs -> 0 .. Expiry + 1]
      /\ held' \in [Jobs -> 0 .. AgeCap]
      /\ \A i \in Jobs : i # j => msg'[i] = msg[i] /\ sent'[i] = sent[i] /\ held'[i] = held[i]
      /\ msg'[j] # "none" => msg[j] # "none" /\ sent'[j] = sent[j]
  <2>1. 0 \in 0 .. AgeCap /\ 0 \in 0 .. Expiry + 1
    BY Constants
  <2>2. CASE UNCHANGED <<msg, sent, held>>
    BY <1>1, <2>2, TypeParts
  <2>3. CASE /\ msg' = [msg EXCEPT ![j] = "none"] /\ sent' = [sent EXCEPT ![j] = 0]
             /\ held' = [held EXCEPT ![j] = 0]
    BY <1>1, <2>1, <2>3, TypeParts
  <2>4. CASE /\ msg' = [msg EXCEPT ![j] = "waiting"] /\ sent' = sent
             /\ held' = [held EXCEPT ![j] = 0] /\ msg[j] = "unacked"
    BY <1>1, <2>1, <2>4, TypeParts
  <2> QED BY <2>2, <2>3, <2>4
<1>4. JobsTypeOK'
  BY <1>1, <1>2, <1>3, TypeParts DEF JobsTypeOK, Steps, Calls
<1>5. Exists'
  <2>1. \A i \in Jobs : msg'[i] # "none" => msg[i] # "none"
    BY <1>3
  <2>2. \A i \in Jobs, t \in Slots : exec'[i][t] # "idle" => exec[i][t] # "idle"
    BY <1>2
  <2> QED BY <1>1, <2>1, <2>2 DEF JobsInv, Exists
<1>6. Sections'
  <2>1. \A c \in Callers : Sending(c)' <=> Sending(c)
    BY <1>1 DEF Sending
  <2>2. \A c \in Callers : call[c].pc = "send" => call[c].job \in Jobs
    BY DEF JobsInv, Exists
  <2> QED BY <1>1, <1>3, <2>1, <2>2 DEF JobsInv, Sections
<1>7. InTime'
  <2>1. \A i \in Jobs : msg'[i] # "none" => msg[i] # "none" /\ sent'[i] = sent[i]
    BY <1>3
  <2>2. \A i \in Jobs, t \in Slots : exec'[i][t] # "idle" => exec'[i][t] = exec[i][t]
    BY <1>2
  <2> QED BY <1>1, <2>1, <2>2 DEF JobsInv, InTime
<1>8. Single'
  <2>1. KindOf[j] = "heavy" => \A t \in Slots : exec'[j][t] = "idle"
    BY <1>2 DEF JobsInv, Single
  <2>2. ASSUME NEW i \in Jobs, NEW t \in Slots, KindOf[i] = "heavy", exec'[i][t] # "idle"
        PROVE  msg'[i] = "unacked" /\ holder'[i] = t /\ held'[i] = age'[i][t] /\ age'[i][t] <= TimeLimit
    <3>1. i # j /\ exec[i][t] # "idle" /\ age'[i][t] = age[i][t]
      BY <1>2, <2>1, <2>2
    <3> QED BY <1>1, <1>3, <2>2, <3>1 DEF JobsInv, Single
  <2>3. \A i \in Jobs, t \in Slots : exec'[i][t] # "idle" => exec[i][t] # "idle"
    BY <1>2
  <2> QED BY <2>2, <2>3 DEF JobsInv, Single
<1>9. GivenUp'
  <2>1. dropped \in SUBSET Jobs
    BY <1>1, TypeParts
  <2>2. \A i \in Jobs : msg'[i] # "none" => msg[i] # "none" /\ sent'[i] = sent[i]
    BY <1>3
  <2>3. \A i \in Jobs, t \in Slots : exec[i][t] = "idle" => exec'[i][t] = "idle"
    BY <1>2
  <2> QED BY <1>1, <2>1, <2>2, <2>3 DEF JobsInv, GivenUp
<1>10. Ordered'
  BY <1>1 DEF JobsInv, Ordered
<1> QED BY <1>4, <1>5, <1>6, <1>7, <1>8, <1>9, <1>10 DEF JobsInv

\* A message that is thrown away or queued again.
LEMMA MessageKeeps ==
  ASSUME JobsInv, NEW j \in Jobs, Discard(j) \/ Restore(j)
  PROVE  JobsInv'
<1>1. /\ UNCHANGED <<status, silent, known, holder, exec, age, call, mutex, outages, losses, ended, dropped>>
      /\ JobsTypeOK
  BY DEF Discard, Restore, rows, tasks, history, JobsInv
<1>2. /\ msg' \in [Jobs -> {"none", "waiting", "unacked"}] /\ sent' \in [Jobs -> 0 .. Expiry + 1]
      /\ held' \in [Jobs -> 0 .. AgeCap]
      /\ \A i \in Jobs : i # j => msg'[i] = msg[i] /\ sent'[i] = sent[i] /\ held'[i] = held[i]
      /\ msg[j] # "none" /\ (msg'[j] # "none" => sent'[j] = sent[j])
  <2>1. 0 \in 0 .. AgeCap /\ 0 \in 0 .. Expiry + 1
    BY Constants
  <2>2. CASE Discard(j)
    BY <1>1, <2>1, <2>2, TypeParts DEF Discard
  <2>3. CASE Restore(j)
    BY <1>1, <2>1, <2>3, TypeParts DEF Restore
  <2> QED BY <2>2, <2>3
<1>3. JobsTypeOK'
  BY <1>1, <1>2, TypeParts DEF JobsTypeOK, Steps, Calls
<1>4. Exists'
  BY <1>1, <1>2 DEF JobsInv, Exists
<1>5. Sections'
  <2>1. \A c \in Callers : Sending(c)' <=> Sending(c)
    BY <1>1 DEF Sending
  <2>2. \A c \in Callers : call[c].pc = "send" => call[c].job \in Jobs
    BY DEF JobsInv, Exists
  <2> QED BY <1>1, <1>2, <2>1, <2>2 DEF JobsInv, Sections
<1>6. InTime'
  BY <1>1, <1>2 DEF JobsInv, InTime
<1>7. Single'
  <2>1. KindOf[j] = "heavy" => \A t \in Slots : exec[j][t] = "idle"
    <3> SUFFICES ASSUME KindOf[j] = "heavy", NEW t \in Slots, exec[j][t] # "idle" PROVE FALSE
      OBVIOUS
    <3>1. msg[j] = "unacked" /\ held[j] = age[j][t] /\ age[j][t] <= TimeLimit
      BY DEF JobsInv, Single
    <3>2. held[j] >= Visibility
      BY <3>1 DEF Discard, Restore
    <3>3. held[j] \in Nat
      BY <1>1, TypeParts
    <3> QED BY <3>1, <3>2, <3>3, Constants
  <2> QED BY <1>1, <1>2, <2>1 DEF JobsInv, Single
<1>8. GivenUp'
  <2>1. dropped \in SUBSET Jobs
    BY <1>1, TypeParts
  <2> QED BY <1>1, <1>2, <2>1 DEF JobsInv, GivenUp
<1>9. Ordered'
  BY <1>1 DEF JobsInv, Ordered
<1> QED BY <1>3, <1>4, <1>5, <1>6, <1>7, <1>8, <1>9 DEF JobsInv

\* A worker takes a message.
LEMMA DeliverKeeps ==
  ASSUME JobsInv, NEW j \in Jobs, Deliver(j)
  PROVE  JobsInv'
<1> DEFINE s == CHOOSE x \in FreeSlots(j) : TRUE
<1>1. /\ msg[j] = "waiting" /\ ~ Expired(j) /\ (KindOf[j] = "detail" => ~ Busy)
      /\ FreeSlots(j) # {}
      /\ msg' = [msg EXCEPT ![j] = "unacked"] /\ held' = [held EXCEPT ![j] = 0]
      /\ holder' = [holder EXCEPT ![j] = s] /\ exec' = [exec EXCEPT ![j][s] = "taken"]
      /\ age' = [age EXCEPT ![j][s] = 0]
      /\ UNCHANGED <<status, silent, known, sent, call, mutex, outages, losses, ended, dropped>>
  BY DEF Deliver, rows, history
<1>2. s \in Slots /\ exec[j][s] = "idle"
  <2>1. s \in FreeSlots(j)
    BY <1>1, Chosen
  <2> QED BY <2>1 DEF FreeSlots
<1> HIDE DEF s
<1>3. JobsTypeOK /\ sent[j] \in Nat /\ sent[j] <= Expiry
  <2>1. sent[j] \in 0 .. Expiry + 1
    BY TypeParts DEF JobsInv
  <2> QED BY <1>1, <2>1, Constants DEF JobsInv, Expired
<1>4. /\ exec' \in [Jobs -> [Slots -> Steps]] /\ exec'[j][s] = "taken"
      /\ age' \in [Jobs -> [Slots -> 0 .. AgeCap]] /\ age'[j][s] = 0
      /\ \A i \in Jobs, t \in Slots : (i # j \/ t # s) => exec'[i][t] = exec[i][t] /\ age'[i][t] = age[i][t]
  <2>1. "taken" \in Steps /\ 0 \in 0 .. AgeCap
    BY Constants DEF Steps
  <2> QED BY <1>1, <1>2, <1>3, <2>1, TypeParts
<1>5. /\ msg' \in [Jobs -> {"none", "waiting", "unacked"}] /\ msg'[j] = "unacked"
      /\ held' \in [Jobs -> 0 .. AgeCap] /\ held'[j] = 0
      /\ holder' \in [Jobs -> Slots] /\ holder'[j] = s
      /\ \A i \in Jobs : i # j => msg'[i] = msg[i] /\ holder'[i] = holder[i] /\ held'[i] = held[i]
  <2>1. 0 \in 0 .. AgeCap
    BY Constants
  <2> QED BY <1>1, <1>2, <1>3, <2>1, TypeParts
<1>6. JobsTypeOK'
  BY <1>1, <1>3, <1>4, <1>5, TypeParts DEF JobsTypeOK, Steps, Calls
<1>7. status[j] # "none"
  BY <1>1 DEF JobsInv, Exists
<1>8. Exists'
  BY <1>1, <1>4, <1>5, <1>7 DEF JobsInv, Exists
<1>9. Sections'
  <2>1. \A c \in Callers : Sending(c)' <=> Sending(c)
    BY <1>1 DEF Sending
  <2>2. \A c \in Callers : call[c].pc = "send" => call[c].job \in Jobs
    BY DEF JobsInv, Exists
  <2> QED BY <1>1, <1>5, <2>1, <2>2 DEF JobsInv, Sections
<1>10. InTime'
  <2>1. status[j] = "queued" => silent[j] <= QueuedLimit
    <3>1. status[j] = "queued" => silent[j] <= sent[j]
      BY <1>1, <1>3 DEF JobsInv, InTime
    <3>2. silent[j] \in 0 .. SilentCap
      BY <1>3, TypeParts
    <3> QED BY <1>3, <3>1, <3>2, Constants
  <2>2. status[j] = "queued" => silent[j] <= sent[j]
    BY <1>1, <1>3 DEF JobsInv, InTime
  <2> QED BY <1>1, <1>4, <1>5, <2>1, <2>2 DEF JobsInv, InTime
<1>11. Single'
  <2>1. KindOf[j] = "heavy" => \A t \in Slots : exec[j][t] = "idle"
    BY <1>1 DEF JobsInv, Single
  <2>2. KindOf[j] = "detail" => \A i \in Jobs, t \in Slots : KindOf[i] = "detail" => exec[i][t] = "idle"
    BY <1>1 DEF Busy
  <2>3. 0 <= TimeLimit /\ KindOf[j] \in {"heavy", "detail"}
    BY Constants
  <2>4. ASSUME NEW i \in Jobs, NEW t \in Slots, KindOf[i] = "heavy", exec'[i][t] # "idle"
        PROVE  msg'[i] = "unacked" /\ holder'[i] = t /\ held'[i] = age'[i][t] /\ age'[i][t] <= TimeLimit
    <3>1. CASE i = j
      <4>1. t = s
        BY <1>4, <2>1, <2>4, <3>1
      <4> QED BY <1>4, <1>5, <2>3, <3>1, <4>1
    <3>2. CASE i # j
      <4>1. exec[i][t] # "idle" /\ age'[i][t] = age[i][t]
        BY <1>4, <2>4, <3>2
      <4> QED BY <1>5, <2>4, <3>2, <4>1 DEF JobsInv, Single
    <3> QED BY <3>1, <3>2
  <2>5. ASSUME NEW i \in Jobs, NEW k \in Jobs, NEW t \in Slots, NEW u \in Slots,
               KindOf[i] = "detail", KindOf[k] = "detail", exec'[i][t] # "idle", exec'[k][u] # "idle"
        PROVE  i = k /\ t = u
    <3>1. CASE KindOf[j] = "detail"
      BY <1>4, <2>2, <2>5, <3>1
    <3>2. CASE KindOf[j] # "detail"
      <4>1. exec[i][t] # "idle" /\ exec[k][u] # "idle"
        BY <1>4, <2>5, <3>2
      <4> QED BY <2>5, <4>1 DEF JobsInv, Single
    <3> QED BY <3>1, <3>2
  <2> QED BY <2>4, <2>5 DEF Single
<1>12. GivenUp'
  <2>1. j \notin dropped /\ dropped \in SUBSET Jobs
    BY <1>1, <1>3, TypeParts DEF JobsInv, GivenUp, Expired
  <2> QED BY <1>1, <1>4, <1>5, <2>1 DEF JobsInv, GivenUp
<1>13. Ordered'
  BY <1>1 DEF JobsInv, Ordered
<1> QED BY <1>6, <1>8, <1>9, <1>10, <1>11, <1>12, <1>13 DEF JobsInv

\* Time passes.
LEMMA TickKeeps ==
  ASSUME JobsInv, Tick
  PROVE  JobsInv'
<1>1. /\ UNCHANGED <<status, known, msg, holder, exec, call, outages, losses, ended, dropped>>
      /\ Quiet /\ mutex' = NoCaller /\ JobsTypeOK
      /\ silent' = [j \in Jobs |-> IF status[j] \in Active THEN Later(silent[j], SilentCap) ELSE silent[j]]
      /\ sent' = [j \in Jobs |-> IF msg[j] # "none" THEN Later(sent[j], Expiry + 1) ELSE sent[j]]
      /\ held' = [j \in Jobs |-> IF msg[j] = "unacked" THEN Later(held[j], AgeCap) ELSE held[j]]
      /\ age' = [j \in Jobs |-> [s \in Slots |->
                   IF KindOf[j] = "heavy" /\ exec[j][s] # "idle" THEN Later(age[j][s], AgeCap) ELSE age[j][s]]]
  BY DEF Tick, history, JobsInv
<1>2. /\ \A c \in Callers : call[c].pc = "idle"
      /\ \A j \in Jobs, s \in Slots : exec[j][s] # "taken"
      /\ \A j \in Jobs, s \in Slots : KindOf[j] = "heavy" /\ exec[j][s] # "idle" => age[j][s] < TimeLimit
  BY <1>1 DEF Quiet
<1>3. \A j \in Jobs : /\ silent[j] \in 0 .. SilentCap /\ sent[j] \in 0 .. Expiry + 1 /\ held[j] \in 0 .. AgeCap
                      /\ \A s \in Slots : age[j][s] \in 0 .. AgeCap
  BY <1>1, TypeParts
<1>4. \A m, n \in Nat : n <= m => Later(n, m) \in 0 .. m /\ n <= Later(n, m) /\ (n < m => Later(n, m) = n + 1)
  BY DEF Later
<1>5. silent' \in [Jobs -> 0 .. SilentCap]
  BY <1>1, <1>3, <1>4, Constants
<1>6. sent' \in [Jobs -> 0 .. Expiry + 1]
  <2>1. ASSUME NEW j \in Jobs PROVE Later(sent[j], Expiry + 1) \in 0 .. Expiry + 1
    BY <1>3, <2>1, Constants DEF Later
  <2> QED BY <1>1, <1>3, <2>1
<1>7. held' \in [Jobs -> 0 .. AgeCap]
  BY <1>1, <1>3, <1>4, Constants
<1>8. age' \in [Jobs -> [Slots -> 0 .. AgeCap]]
  <2>1. ASSUME NEW j \in Jobs, NEW s \in Slots PROVE Later(age[j][s], AgeCap) \in 0 .. AgeCap
    BY <1>3, <2>1, Constants DEF Later
  <2> QED BY <1>1, <1>3, <2>1
<1>9. JobsTypeOK'
  BY <1>1, <1>5, <1>6, <1>7, <1>8, TypeParts DEF JobsTypeOK, Steps, Calls
<1>10. Exists'
  BY <1>1 DEF JobsInv, Exists
<1>11. Sections'
  <2>1. \A c \in Callers : ~ Sending(c)' /\ call'[c].pc # "send"
    BY <1>1, <1>2 DEF Sending
  <2>2. ASSUME NEW c \in Callers, NEW j \in call[c].stale, status[j] = "queued"
        PROVE  silent'[j] > QueuedLimit
    <3>1. j \in Jobs /\ silent[j] > QueuedLimit
      BY <1>1, <2>2, TypeParts, CallParts DEF JobsInv, Sections
    <3>2. silent'[j] \in Nat /\ silent'[j] >= silent[j]
      <4>1. silent[j] <= Later(silent[j], SilentCap) /\ Later(silent[j], SilentCap) \in Nat
        BY <1>3, <1>4, <3>1, Constants
      <4> QED BY <1>1, <1>3, <3>1, <4>1
    <3> QED BY <1>3, <3>1, <3>2, Constants
  <2> QED BY <1>1, <2>1, <2>2 DEF Sections
<1>12. InTime'
  <2>1. ASSUME NEW j \in Jobs, status[j] = "queued", msg[j] # "none", sent'[j] <= Expiry
        PROVE  silent'[j] <= sent'[j]
    <3>1. sent'[j] = Later(sent[j], Expiry + 1) /\ silent'[j] = Later(silent[j], SilentCap)
      BY <1>1, <2>1 DEF Active
    <3>2. sent[j] <= Expiry /\ sent'[j] = sent[j] + 1
      BY <1>3, <2>1, <3>1, Constants DEF Later
    <3>3. silent[j] <= sent[j]
      BY <2>1, <3>2 DEF JobsInv, InTime
    <3> QED BY <1>3, <3>1, <3>2, <3>3, Constants DEF Later
  <2>2. \A j \in Jobs, s \in Slots : status[j] = "queued" => exec[j][s] = "idle"
    BY <1>2 DEF JobsInv, InTime
  <2> QED BY <1>1, <2>1, <2>2 DEF InTime
<1>13. Single'
  <2>1. ASSUME NEW j \in Jobs, NEW s \in Slots, KindOf[j] = "heavy", exec[j][s] # "idle"
        PROVE  msg[j] = "unacked" /\ holder[j] = s /\ held'[j] = age'[j][s] /\ age'[j][s] <= TimeLimit
    <3>1. msg[j] = "unacked" /\ holder[j] = s /\ held[j] = age[j][s] /\ age[j][s] < TimeLimit
      BY <1>2, <2>1 DEF JobsInv, Single
    <3>2. held'[j] = Later(held[j], AgeCap) /\ age'[j][s] = Later(age[j][s], AgeCap)
      BY <1>1, <2>1, <3>1
    <3>3. Later(age[j][s], AgeCap) = age[j][s] + 1
      BY <1>3, <3>1, Constants DEF Later
    <3> QED BY <1>3, <3>1, <3>2, <3>3, Constants
  <2> QED BY <1>1, <2>1 DEF JobsInv, Single
<1>14. GivenUp'
  <2>1. ASSUME NEW j \in dropped PROVE msg[j] = "none" \/ sent'[j] > Expiry
    <3>1. j \in Jobs /\ (msg[j] = "none" \/ sent[j] > Expiry)
      BY <1>1, TypeParts DEF JobsInv, GivenUp
    <3> QED BY <1>1, <1>3, <3>1, Constants DEF Later
  <2> QED BY <1>1, <2>1 DEF JobsInv, GivenUp
<1>15. Ordered'
  BY <1>1, <1>2 DEF JobsInv, Ordered
<1> QED BY <1>9, <1>10, <1>11, <1>12, <1>13, <1>14, <1>15 DEF JobsInv

\* Requests.  The variables of tasks and messages stay: what is to be shown when rows
\* are written and a request goes on or ends.
LEMMA QuietParts ==
  ASSUME JobsInv, UNCHANGED <<broker, tasks>>,
         outages' \in Nat, losses' \in Nat, outages' + losses' <= MaxFaults,
         status' \in [Jobs -> Statuses], silent' \in [Jobs -> 0 .. SilentCap], known' \in SUBSET Jobs,
         ended' \in SUBSET Jobs, dropped' \in SUBSET Jobs,
         call' \in [Callers -> Calls], mutex' \in Callers \cup {NoCaller, DeadCaller},
         \A j \in Jobs : status'[j] = "queued" =>
           \/ status[j] = "queued" /\ silent'[j] = silent[j]
           \/ status[j] = "none" /\ silent'[j] = 0
  PROVE  JobsTypeOK' /\ InTime' /\ Single'
<1>1. /\ UNCHANGED <<msg, sent, held, holder, exec, age>> /\ JobsTypeOK
  BY DEF broker, tasks, JobsInv
<1>2. JobsTypeOK'
  BY <1>1, TypeParts DEF JobsTypeOK, Steps, Calls
<1>3. Single'
  BY <1>1 DEF JobsInv, Single
<1>4. InTime'
  <2>1. \A j \in Jobs : sent[j] \in Nat
    BY <1>1, TypeParts
  <2>2. ASSUME NEW j \in Jobs, status'[j] = "queued", msg[j] # "none", sent[j] <= Expiry
        PROVE  silent'[j] <= sent[j]
    <3>1. status[j] = "queued"
      BY <2>2 DEF JobsInv, Exists
    <3>2. silent[j] <= sent[j]
      BY <2>2, <3>1 DEF JobsInv, InTime
    <3> QED BY <2>1, <2>2, <3>1, <3>2
  <2>3. ASSUME NEW j \in Jobs, NEW s \in Slots, status'[j] = "queued", exec[j][s] # "idle"
        PROVE  exec[j][s] = "taken" /\ silent'[j] <= QueuedLimit
    <3>1. status[j] = "queued"
      BY <2>3 DEF JobsInv, Exists
    <3>2. exec[j][s] = "taken" /\ silent[j] <= QueuedLimit
      BY <2>3, <3>1 DEF JobsInv, InTime
    <3> QED BY <2>3, <3>1, <3>2, Constants
  <2> QED BY <1>1, <2>2, <2>3 DEF InTime
<1> QED BY <1>2, <1>3, <1>4

\* A request takes a step that leaves messages and tasks alone.
LEMMA RequestKeeps ==
  ASSUME JobsInv, UNCHANGED <<broker, tasks>>,
         outages' \in Nat, losses' \in Nat, outages' + losses' <= MaxFaults,
         NEW c \in Callers, NEW k \in Calls, call' = [call EXCEPT ![c] = k],
         mutex' \in Callers \cup {NoCaller, DeadCaller},
         status' \in [Jobs -> Statuses], silent' \in [Jobs -> 0 .. SilentCap], known' \in SUBSET Jobs,
         ended' \in SUBSET Jobs, dropped' \in SUBSET Jobs,
         \A j \in Jobs : status[j] # "none" => status'[j] # "none",
         \A j \in Jobs : silent'[j] = silent[j] \/ silent'[j] = 0,
         \A j \in Jobs : status'[j] = "queued" =>
           \/ status[j] = "queued" /\ silent'[j] = silent[j]
           \/ status[j] = "none" /\ silent'[j] = 0,
         ended \subseteq ended', \A j \in Jobs : status'[j] \in Terminal => status[j] \in Terminal \/ j \in ended',
         \A j \in dropped' : j \in dropped \/ (status[j] = "queued" /\ silent[j] > QueuedLimit),
         \A j \in k.stale : status'[j] # "none" /\ (status'[j] = "queued" => silent'[j] > QueuedLimit),
         k.pc \in {"send", "note", "mark"} => k.job \in Jobs /\ status'[k.job] # "none",
         k.pc \in {"send", "note"} =>
           silent'[k.job] = 0 /\ \A d \in Callers : d # c /\ Sending(d) => call[d].job # k.job,
         k.pc = "send" => msg[k.job] = "none" /\ k.job \notin dropped'
  PROVE  JobsTypeOK' /\ Exists' /\ Sections' /\ InTime' /\ Single' /\ GivenUp'
<1>1. /\ UNCHANGED <<msg, sent, held, holder, exec, age>> /\ JobsTypeOK
  BY DEF broker, tasks, JobsInv
<1>2. /\ call' \in [Callers -> Calls] /\ call'[c] = k
      /\ \A d \in Callers : d # c => call'[d] = call[d]
  BY <1>1, CallChanged
<1>3. JobsTypeOK' /\ InTime' /\ Single'
  BY <1>2, QuietParts
<1>4. \A d \in Callers : call[d].stale \in SUBSET Jobs
  BY <1>1, TypeParts, CallParts
<1>5. k.stale \in SUBSET Jobs /\ dropped \in SUBSET Jobs
  BY <1>1, TypeParts, CallParts
<1>6. \A j \in dropped' : /\ \A s \in Slots : exec[j][s] = "idle"
                          /\ msg[j] = "none" \/ sent[j] > Expiry
                          /\ status[j] # "none"
                          /\ \A d \in Callers : call[d].pc = "send" => call[d].job # j
  <2> TAKE j \in dropped'
  <2>1. CASE j \in dropped
    BY <2>1 DEF JobsInv, GivenUp, Exists
  <2>2. CASE status[j] = "queued" /\ silent[j] > QueuedLimit
    <3>1. j \in Jobs /\ silent[j] \in Nat /\ sent[j] \in Nat
      BY <1>1, TypeParts
    <3>2. \A s \in Slots : exec[j][s] = "idle"
      BY <2>2, <3>1, Constants DEF JobsInv, InTime
    <3>3. msg[j] = "none" \/ sent[j] > Expiry
      BY <2>2, <3>1, Constants DEF JobsInv, InTime
    <3>4. \A d \in Callers : Sending(d) => call[d].job # j
      BY <2>2, <3>1, Constants DEF JobsInv, Sections
    <3> QED BY <2>2, <3>2, <3>3, <3>4 DEF Sending
  <2> QED BY <2>1, <2>2
<1>7. Exists'
  <2>1. \A j \in Jobs : msg'[j] # "none" => status'[j] # "none"
    BY <1>1 DEF JobsInv, Exists
  <2>2. \A j \in Jobs, s \in Slots : exec'[j][s] # "idle" => status'[j] # "none"
    BY <1>1 DEF JobsInv, Exists
  <2>3. \A j \in dropped' : status'[j] # "none"
    BY <1>6
  <2>4. \A d \in Callers : \A j \in call'[d].stale : status'[j] # "none"
    BY <1>2, <1>4 DEF JobsInv, Exists
  <2>5. \A d \in Callers : call'[d].pc \in {"send", "note", "mark"} =>
          call'[d].job \in Jobs /\ status'[call'[d].job] # "none"
    BY <1>2 DEF JobsInv, Exists
  <2>6. \A j \in Jobs : status'[j] \in Terminal => j \in ended'
    BY DEF JobsInv, Exists
  <2> QED BY <2>1, <2>2, <2>3, <2>4, <2>5, <2>6 DEF Exists
<1>8. Sections'
  <2>1. \A d \in Callers : d # c => (Sending(d)' <=> Sending(d))
    BY <1>2 DEF Sending
  <2>2. Sending(c)' <=> k.pc \in {"send", "note"}
    BY <1>2 DEF Sending
  <2>3. \A d \in Callers : Sending(d) => call[d].job \in Jobs
    BY DEF JobsInv, Exists, Sending
  <2>4. \A d \in Callers : Sending(d)' => silent'[call'[d].job] = 0
    BY <1>2, <2>1, <2>2, <2>3 DEF JobsInv, Sections
  <2>5. \A d \in Callers : call'[d].pc = "send" => msg'[call'[d].job] = "none"
    BY <1>1, <1>2 DEF JobsInv, Sections
  <2>6. \A d, e \in Callers : Sending(d)' /\ Sending(e)' /\ d # e => call'[d].job # call'[e].job
    BY <1>2, <2>1, <2>2 DEF JobsInv, Sections
  <2>7. \A d \in Callers : \A j \in call'[d].stale : status'[j] = "queued" => silent'[j] > QueuedLimit
    <3>1. ASSUME NEW d \in Callers, d # c, NEW j \in call[d].stale, status'[j] = "queued"
          PROVE  silent'[j] > QueuedLimit
      <4>1. j \in Jobs /\ status[j] # "none"
        BY <1>4, <3>1 DEF JobsInv, Exists
      <4>2. status[j] = "queued" /\ silent'[j] = silent[j]
        BY <3>1, <4>1
      <4> QED BY <3>1, <4>2 DEF JobsInv, Sections
    <3> QED BY <1>2, <3>1
  <2> QED BY <2>4, <2>5, <2>6, <2>7 DEF Sections
<1>9. GivenUp'
  <2>1. \A d \in Callers : call'[d].pc = "send" => call'[d].job \notin dropped'
    BY <1>2, <1>6
  <2> QED BY <1>1, <1>6, <2>1 DEF GivenUp
<1> QED BY <1>3, <1>7, <1>8, <1>9

\* A step of a request that creates no row keeps the order of the refreshes.
LEMMA OrderKeeps ==
  ASSUME JobsInv, JobsTypeOK', NEW c \in Callers, NEW k \in Calls, call' = [call EXCEPT ![c] = k],
         outages' = 0 => outages = 0,
         \A d \in Callers : d # c /\ mutex = d => mutex' = d,
         \A j \in Jobs : status'[j] # "none" => status[j] # "none",
         ended \subseteq ended',
         outages' = 0 /\ k.pc \in {"reconcile", "create"} /\ k.what = "detail" => mutex' = c,
         outages' = 0 /\ k.pc = "create" /\ k.what = "detail" =>
           \A j \in Jobs : KindOf[j] = "detail" /\ status'[j] # "none" => j \in ended'
  PROVE  Ordered'
<1>1. /\ call'[c] = k /\ \A d \in Callers : d # c => call'[d] = call[d]
  BY CallChanged DEF JobsInv
<1> SUFFICES ASSUME outages' = 0
             PROVE  /\ \A d \in Callers : call'[d].pc \in {"reconcile", "create"} /\ call'[d].what = "detail" => mutex' = d
                    /\ \A d \in Callers : call'[d].pc = "create" /\ call'[d].what = "detail" =>
                         \A j \in Jobs : KindOf[j] = "detail" /\ status'[j] # "none" => j \in ended'
                    /\ \A i, j \in Jobs :
                         KindOf[i] = "detail" /\ KindOf[j] = "detail" /\ status'[i] # "none" /\ status'[j] # "none"
                         => i = j \/ i \in ended' \/ j \in ended'
  BY DEF Ordered
<1>2. outages = 0
  OBVIOUS
<1>3. \A d \in Callers : call'[d].pc \in {"reconcile", "create"} /\ call'[d].what = "detail" => mutex' = d
  BY <1>1, <1>2 DEF JobsInv, Ordered
<1>4. \A d \in Callers : call'[d].pc = "create" /\ call'[d].what = "detail" =>
        \A j \in Jobs : KindOf[j] = "detail" /\ status'[j] # "none" => j \in ended'
  BY <1>1, <1>2 DEF JobsInv, Ordered
<1>5. \A i, j \in Jobs :
        KindOf[i] = "detail" /\ KindOf[j] = "detail" /\ status'[i] # "none" /\ status'[j] # "none"
        => i = j \/ i \in ended' \/ j \in ended'
  BY <1>2 DEF JobsInv, Ordered
<1> QED BY <1>3, <1>4, <1>5

\* A request asks.
LEMMA AskKeeps ==
  ASSUME JobsInv, NEW c \in Callers, NEW what \in Requests, Ask(c, what)
  PROVE  JobsInv'
<1> DEFINE S == {j \in Jobs : what # "beta" /\ Stale(j)}
           k == [Idle EXCEPT !.pc = "reconcile", !.what = Asked(what), !.stale = S]
<1>1. /\ call[c].pc = "idle" /\ call' = [call EXCEPT ![c] = k]
      /\ UNCHANGED <<status, silent, known, broker, tasks, losses, ended, dropped>>
      /\ \/ what \in {"list", "heavy"} /\ mutex' = mutex /\ outages' = outages
         \/ what \in {"detail", "beta"} /\ mutex = NoCaller /\ mutex' = c /\ outages' = outages
         \/ what = "detail" /\ outages + losses < MaxFaults /\ outages' = outages + 1 /\ mutex' = mutex
  BY DEF Ask, rows, history
<1>2. /\ status \in [Jobs -> Statuses] /\ silent \in [Jobs -> 0 .. SilentCap] /\ known \in SUBSET Jobs
      /\ ended \in SUBSET Jobs /\ dropped \in SUBSET Jobs /\ outages \in Nat /\ losses \in Nat
      /\ outages + losses <= MaxFaults /\ MaxFaults \in Nat /\ mutex \in Callers \cup {NoCaller, DeadCaller}
  BY TypeParts, Constants DEF JobsInv
<1>3. /\ outages' \in Nat /\ losses' \in Nat /\ outages' + losses' <= MaxFaults
      /\ mutex' \in Callers \cup {NoCaller, DeadCaller}
      /\ outages' = 0 => outages = 0
  BY <1>1, <1>2
<1>4. S \in SUBSET Jobs /\ \A j \in S : status[j] # "none" /\ (status[j] = "queued" => silent[j] > QueuedLimit)
  BY DEF Stale
<1>5. Asked(what) \in {"list", "heavy", "detail"}
  BY DEF Asked, Requests
<1> HIDE DEF S
<1>6. k \in Calls /\ k.pc = "reconcile" /\ k.what = Asked(what) /\ k.stale = S
  BY <1>4, <1>5, IdleParts DEF Calls
<1> HIDE DEF k
<1>7. JobsTypeOK' /\ Exists' /\ Sections' /\ InTime' /\ Single' /\ GivenUp'
  <2>1. \A j \in Jobs : status'[j] = "queued" =>
          \/ status[j] = "queued" /\ silent'[j] = silent[j]
          \/ status[j] = "none" /\ silent'[j] = 0
    BY <1>1
  <2> QED BY <1>1, <1>2, <1>3, <1>4, <1>6, <2>1, RequestKeeps
<1>8. Ordered'
  <2>1. outages' = 0 /\ k.what = "detail" => mutex' = c
    BY <1>1, <1>2, <1>6 DEF Asked
  <2>2. \A d \in Callers : d # c /\ mutex = d => mutex' = d
    BY <1>1, Constants
  <2> QED BY <1>1, <1>3, <1>6, <1>7, <2>1, <2>2, OrderKeeps
<1> QED BY <1>7, <1>8 DEF JobsInv

\* A request that ends: the lock it holds is free.
LEMMA LeaveParts ==
  ASSUME JobsTypeOK, NEW c \in Callers, Leave(c)
  PROVE  /\ call' = [call EXCEPT ![c] = Idle]
         /\ mutex' \in Callers \cup {NoCaller, DeadCaller}
         /\ \A d \in Callers : d # c /\ mutex = d => mutex' = d
BY TypeParts DEF Leave

\* The stale rows are failed and the active ones listed.
LEMMA ReconcileKeeps ==
  ASSUME JobsInv, NEW c \in Callers, Reconcile(c)
  PROVE  JobsInv'
<1> DEFINE S == call[c].stale
           active == ActiveOf("detail") \ S
<1>1. /\ call[c].pc = "reconcile" /\ Write(S, "over")
      /\ dropped' = dropped \cup {j \in S : status[j] = "queued"}
      /\ UNCHANGED <<broker, tasks, outages, losses>>
      /\ \/ Leave(c)
         \/ /\ call' = [call EXCEPT ![c] = [call[c] EXCEPT !.pc = "create", !.stale = {}]]
            /\ ~ (mutex = c /\ active # {}) /\ mutex' = mutex
  BY DEF Reconcile
<1>2. /\ outages \in Nat /\ losses \in Nat /\ outages + losses <= MaxFaults
      /\ mutex \in Callers \cup {NoCaller, DeadCaller} /\ call \in [Callers -> Calls]
      /\ call[c] \in Calls /\ S \in SUBSET Jobs /\ dropped \in SUBSET Jobs /\ JobsTypeOK
  BY TypeParts, CallParts DEF JobsInv
<1>3. /\ status' \in [Jobs -> Statuses] /\ silent' \in [Jobs -> 0 .. SilentCap]
      /\ known' \in SUBSET Jobs /\ ended' \in SUBSET Jobs
      /\ \A j \in Jobs : status'[j] = IF j \in S THEN "over" ELSE status[j]
      /\ \A j \in Jobs : silent'[j] = IF j \in S THEN 0 ELSE silent[j]
      /\ ended \subseteq ended' /\ S \subseteq ended'
  BY <1>1, <1>2, WriteParts DEF Statuses, Terminal
<1>4. /\ \A j \in S : status[j] # "none" /\ (status[j] = "queued" => silent[j] > QueuedLimit)
      /\ \A j \in Jobs : status[j] \in Terminal => j \in ended
  BY <1>2 DEF JobsInv, Exists, Sections
<1>5. /\ \A j \in Jobs : status[j] # "none" <=> status'[j] # "none"
      /\ \A j \in Jobs : silent'[j] = silent[j] \/ silent'[j] = 0
      /\ \A j \in Jobs : status'[j] = "queued" =>
           \/ status[j] = "queued" /\ silent'[j] = silent[j]
           \/ status[j] = "none" /\ silent'[j] = 0
      /\ \A j \in Jobs : status'[j] \in Terminal => status[j] \in Terminal \/ j \in ended'
  BY <1>2, <1>3, <1>4
<1>6. /\ dropped' \in SUBSET Jobs
      /\ \A j \in dropped' : j \in dropped \/ (status[j] = "queued" /\ silent[j] > QueuedLimit)
  BY <1>1, <1>2, <1>4
<1> HIDE DEF S
<1>7. CASE Leave(c)
  <2>1. JobsTypeOK' /\ Exists' /\ Sections' /\ InTime' /\ Single' /\ GivenUp'
    BY <1>1, <1>2, <1>3, <1>5, <1>6, <1>7, LeaveParts, IdleParts, RequestKeeps
  <2>2. Ordered'
    BY <1>1, <1>2, <1>3, <1>5, <1>7, <2>1, LeaveParts, IdleParts, OrderKeeps
  <2> QED BY <2>1, <2>2 DEF JobsInv
<1>8. CASE /\ call' = [call EXCEPT ![c] = [call[c] EXCEPT !.pc = "create", !.stale = {}]]
           /\ ~ (mutex = c /\ active # {}) /\ mutex' = mutex
  <2> DEFINE m == [call[c] EXCEPT !.pc = "create", !.stale = {}]
  <2>1. m \in Calls /\ m.pc = "create" /\ m.stale = {} /\ m.what = call[c].what
    BY <1>2 DEF Calls
  <2> HIDE DEF m
  <2>2. call' = [call EXCEPT ![c] = m]
    BY <1>8 DEF m
  <2>3. JobsTypeOK' /\ Exists' /\ Sections' /\ InTime' /\ Single' /\ GivenUp'
    <3>1. /\ UNCHANGED <<broker, tasks>> /\ mutex' \in Callers \cup {NoCaller, DeadCaller}
          /\ outages' \in Nat /\ losses' \in Nat /\ outages' + losses' <= MaxFaults
      BY <1>1, <1>2, <1>8
    <3>2. \A j \in m.stale : status'[j] # "none" /\ (status'[j] = "queued" => silent'[j] > QueuedLimit)
      BY <2>1
    <3>3. m.pc \notin {"send", "note", "mark"}
      BY <2>1
    <3> QED BY <1>3, <1>5, <1>6, <2>1, <2>2, <3>1, <3>2, <3>3, RequestKeeps
  <2>4. outages = 0 /\ m.what = "detail" =>
          mutex = c /\ \A j \in Jobs : KindOf[j] = "detail" /\ status'[j] # "none" => j \in ended'
    <3> SUFFICES ASSUME outages = 0, m.what = "detail"
                 PROVE  mutex = c /\ \A j \in Jobs : KindOf[j] = "detail" /\ status'[j] # "none" => j \in ended'
      OBVIOUS
    <3>1. mutex = c
      BY <1>1, <2>1 DEF JobsInv, Ordered
    <3>2. \A j \in Jobs : KindOf[j] = "detail" /\ status[j] \in Active => j \in S
      BY <1>8, <3>1 DEF ActiveOf
    <3>3. \A j \in Jobs : status[j] \in Statuses
      BY <1>2, TypeParts
    <3> QED BY <1>3, <1>4, <1>5, <3>1, <3>2, <3>3 DEF Statuses, Active, Terminal
  <2>5. Ordered'
    <3>1. outages' = outages /\ mutex' = mutex
      BY <1>1, <1>8
    <3> QED BY <1>3, <1>5, <2>1, <2>2, <2>3, <2>4, <3>1, OrderKeeps
  <2> QED BY <2>3, <2>5 DEF JobsInv
<1> QED BY <1>1, <1>7, <1>8

\* A queued row is created.
LEMMA CreateKeeps ==
  ASSUME JobsInv, NEW c \in Callers, CreateJob(c)
  PROVE  JobsInv'
<1> DEFINE unused == Unused(call[c].what)
           j == CHOOSE k \in unused : TRUE
           k == [Idle EXCEPT !.pc = "send", !.job = j]
<1>1. /\ call[c].pc = "create" /\ UNCHANGED <<broker, tasks, outages, losses, dropped>>
      /\ \/ Leave(c) /\ UNCHANGED <<status, silent, known, ended>>
         \/ /\ unused # {} /\ Write({j}, "queued") /\ call' = [call EXCEPT ![c] = k]
            /\ mutex' = mutex
  BY DEF CreateJob, rows
<1>2. /\ outages \in Nat /\ losses \in Nat /\ outages + losses <= MaxFaults
      /\ mutex \in Callers \cup {NoCaller, DeadCaller} /\ call \in [Callers -> Calls]
      /\ dropped \in SUBSET Jobs /\ JobsTypeOK
      /\ status \in [Jobs -> Statuses] /\ silent \in [Jobs -> 0 .. SilentCap] /\ known \in SUBSET Jobs
      /\ ended \in SUBSET Jobs
  BY TypeParts DEF JobsInv
<1>3. CASE Leave(c) /\ UNCHANGED <<status, silent, known, ended>>
  <2>1. JobsTypeOK' /\ Exists' /\ Sections' /\ InTime' /\ Single' /\ GivenUp'
    BY <1>1, <1>2, <1>3, LeaveParts, IdleParts, RequestKeeps
  <2>2. Ordered'
    BY <1>1, <1>2, <1>3, <2>1, LeaveParts, IdleParts, OrderKeeps
  <2> QED BY <2>1, <2>2 DEF JobsInv
<1>4. CASE /\ unused # {} /\ Write({j}, "queued") /\ call' = [call EXCEPT ![c] = k]
           /\ mutex' = mutex
  <2>1. j \in Jobs /\ status[j] = "none" /\ KindOf[j] = call[c].what
    <3>1. j \in unused
      BY <1>4, Chosen
    <3> QED BY <3>1 DEF Unused
  <2> HIDE DEF j
  <2>2. /\ status' \in [Jobs -> Statuses] /\ silent' \in [Jobs -> 0 .. SilentCap]
        /\ known' \in SUBSET Jobs /\ ended' \in SUBSET Jobs /\ ended \subseteq ended'
        /\ \A i \in Jobs : i # j => status'[i] = status[i] /\ silent'[i] = silent[i]
        /\ status'[j] = "queued" /\ silent'[j] = 0
    BY <1>2, <1>4, <2>1, WriteParts DEF Statuses
  <2>3. k \in Calls /\ k.pc = "send" /\ k.job = j /\ k.stale = {}
    BY <2>1, IdleParts DEF Calls
  <2> HIDE DEF k
  <2>4. /\ msg[j] = "none" /\ j \notin dropped
        /\ \A d \in Callers : Sending(d) => call[d].job # j
    BY <2>1 DEF JobsInv, Exists, Sending
  <2>5. JobsTypeOK' /\ Exists' /\ Sections' /\ InTime' /\ Single' /\ GivenUp'
    <3>1. /\ \A i \in Jobs : status[i] # "none" => status'[i] # "none"
          /\ \A i \in Jobs : silent'[i] = silent[i] \/ silent'[i] = 0
          /\ \A i \in Jobs : status'[i] \in Terminal => status[i] \in Terminal \/ i \in ended'
          /\ \A i \in Jobs : status'[i] = "queued" =>
               \/ status[i] = "queued" /\ silent'[i] = silent[i]
               \/ status[i] = "none" /\ silent'[i] = 0
      BY <2>1, <2>2 DEF Terminal
    <3> QED BY <1>1, <1>2, <1>4, <2>1, <2>2, <2>3, <2>4, <3>1, RequestKeeps
  <2>6. Ordered'
    <3>1. /\ call'[c] = k /\ \A d \in Callers : d # c => call'[d] = call[d]
      BY <1>2, <1>4, <2>3, CallChanged
    <3>2. CASE KindOf[j] = "detail"
      <4> SUFFICES ASSUME outages = 0 PROVE Ordered'
        BY <1>1 DEF Ordered
      <4>1. mutex = c /\ \A i \in Jobs : KindOf[i] = "detail" /\ status[i] # "none" => i \in ended
        BY <1>1, <2>1, <3>2 DEF JobsInv, Ordered
      <4>2. \A d \in Callers : call'[d].pc \in {"reconcile", "create"} => call'[d].what # "detail"
        BY <2>3, <3>1, <4>1 DEF JobsInv, Ordered
      <4>3. \A i \in Jobs : KindOf[i] = "detail" /\ status'[i] # "none" => i = j \/ i \in ended'
        BY <2>2, <4>1
      <4> QED BY <4>2, <4>3 DEF Ordered
    <3>3. CASE KindOf[j] # "detail"
      <4>1. \A i \in Jobs : KindOf[i] = "detail" /\ status'[i] # "none" => status[i] # "none"
        BY <2>2, <3>3
      <4>2. \A d \in Callers : call'[d].pc \in {"reconcile", "create"} => call'[d] = call[d]
        BY <2>3, <3>1
      <4> QED BY <1>1, <1>4, <2>2, <4>1, <4>2 DEF JobsInv, Ordered
    <3> QED BY <3>2, <3>3
  <2> QED BY <2>5, <2>6 DEF JobsInv
<1> QED BY <1>1, <1>3, <1>4

\* The message is sent, or the row is failed.
LEMMA SendKeeps ==
  ASSUME JobsInv, NEW c \in Callers, SendTask(c)
  PROVE  JobsInv'
<1> DEFINE j == call[c].job
           k == [Idle EXCEPT !.pc = "note", !.job = j]
<1>1. /\ call[c].pc = "send" /\ UNCHANGED <<tasks, losses, dropped>>
      /\ \/ /\ msg' = [msg EXCEPT ![j] = "waiting"] /\ sent' = [sent EXCEPT ![j] = 0]
            /\ call' = [call EXCEPT ![c] = k]
            /\ UNCHANGED <<status, silent, known, ended, mutex, held, holder, outages>>
         \/ /\ outages' = outages \/ (outages + losses < MaxFaults /\ outages' = outages + 1)
            /\ Write({j}, "over") /\ Leave(c) /\ UNCHANGED broker
  BY DEF SendTask, Goto, rows
<1>2. /\ outages \in Nat /\ losses \in Nat /\ outages + losses <= MaxFaults /\ MaxFaults \in Nat
      /\ mutex \in Callers \cup {NoCaller, DeadCaller} /\ call \in [Callers -> Calls]
      /\ dropped \in SUBSET Jobs /\ JobsTypeOK
  BY TypeParts, Constants DEF JobsInv
<1>3. j \in Jobs /\ status[j] # "none" /\ silent[j] = 0 /\ msg[j] = "none" /\ j \notin dropped
  BY <1>1 DEF JobsInv, Exists, Sections, Sending, GivenUp
<1>4. \A d \in Callers : d # c /\ Sending(d) => call[d].job # j
  BY <1>1 DEF JobsInv, Sections, Sending
<1> HIDE DEF j
<1>5. CASE /\ outages' = outages \/ (outages + losses < MaxFaults /\ outages' = outages + 1)
           /\ Write({j}, "over") /\ Leave(c) /\ UNCHANGED broker
  <2>1. /\ status' \in [Jobs -> Statuses] /\ silent' \in [Jobs -> 0 .. SilentCap]
        /\ known' \in SUBSET Jobs /\ ended' \in SUBSET Jobs /\ ended \subseteq ended' /\ j \in ended'
        /\ \A i \in Jobs : status'[i] = IF i \in {j} THEN "over" ELSE status[i]
        /\ \A i \in Jobs : silent'[i] = IF i \in {j} THEN 0 ELSE silent[i]
    BY <1>2, <1>3, <1>5, WriteParts DEF Statuses, Terminal
  <2>2. /\ outages' \in Nat /\ losses' \in Nat /\ outages' + losses' <= MaxFaults
        /\ outages' = 0 => outages = 0
    BY <1>1, <1>2, <1>5
  <2>3. /\ \A i \in Jobs : status[i] # "none" <=> status'[i] # "none"
        /\ \A i \in Jobs : silent'[i] = silent[i] \/ silent'[i] = 0
        /\ \A i \in Jobs : status'[i] \in Terminal => status[i] \in Terminal \/ i \in ended'
        /\ \A i \in Jobs : status'[i] = "queued" =>
             \/ status[i] = "queued" /\ silent'[i] = silent[i]
             \/ status[i] = "none" /\ silent'[i] = 0
    BY <1>3, <2>1
  <2>4. JobsTypeOK' /\ Exists' /\ Sections' /\ InTime' /\ Single' /\ GivenUp'
    BY <1>1, <1>2, <1>5, <2>1, <2>2, <2>3, LeaveParts, IdleParts, RequestKeeps
  <2>5. Ordered'
    BY <1>2, <1>5, <2>1, <2>2, <2>3, <2>4, LeaveParts, IdleParts, OrderKeeps
  <2> QED BY <2>4, <2>5 DEF JobsInv
<1>6. CASE /\ msg' = [msg EXCEPT ![j] = "waiting"] /\ sent' = [sent EXCEPT ![j] = 0]
           /\ call' = [call EXCEPT ![c] = k]
           /\ UNCHANGED <<status, silent, known, ended, mutex, held, holder, outages>>
  <2>1. k \in Calls /\ k.pc = "note" /\ k.job = j /\ k.stale = {}
    BY <1>3, IdleParts DEF Calls
  <2> HIDE DEF k
  <2>2. /\ call' \in [Callers -> Calls] /\ call'[c] = k
        /\ \A d \in Callers : d # c => call'[d] = call[d]
    BY <1>2, <1>6, <2>1, CallChanged
  <2>3. /\ msg' \in [Jobs -> {"none", "waiting", "unacked"}] /\ sent' \in [Jobs -> 0 .. Expiry + 1]
        /\ msg'[j] = "waiting" /\ sent'[j] = 0
        /\ \A i \in Jobs : i # j => msg'[i] = msg[i] /\ sent'[i] = sent[i]
    <3>1. 0 \in 0 .. Expiry + 1
      BY Constants
    <3> QED BY <1>2, <1>3, <1>6, <3>1, TypeParts
  <2>4. UNCHANGED <<exec, age>>
    BY <1>1 DEF tasks
  <2>5. JobsTypeOK'
    BY <1>1, <1>2, <1>6, <2>2, <2>3, <2>4, TypeParts DEF JobsTypeOK, Steps, Calls
  <2>6. Exists'
    BY <1>1, <1>3, <1>6, <2>1, <2>2, <2>3, <2>4 DEF JobsInv, Exists
  <2>7. Sections'
    <3>1. \A d \in Callers : Sending(d)' <=> Sending(d)
      BY <1>1, <2>1, <2>2 DEF Sending
    <3>2. \A d \in Callers : call'[d].job = call[d].job
      BY <2>1, <2>2 DEF j
    <3>3. \A d \in Callers : call'[d].pc = "send" => msg'[call'[d].job] = "none"
      <4> TAKE d \in Callers
      <4> HAVE call'[d].pc = "send"
      <4>1. d # c /\ call[d].pc = "send"
        BY <2>1, <2>2
      <4>2. call[d].job # j /\ call[d].job \in Jobs /\ msg[call[d].job] = "none"
        BY <1>4, <4>1 DEF JobsInv, Exists, Sections, Sending
      <4> QED BY <2>3, <3>2, <4>2
    <3>4. \A d \in Callers : \A i \in call'[d].stale : status'[i] = "queued" => silent'[i] > QueuedLimit
      BY <1>6, <2>1, <2>2 DEF JobsInv, Sections
    <3> QED BY <1>6, <3>1, <3>2, <3>3, <3>4 DEF JobsInv, Sections
  <2>8. InTime'
    BY <1>3, <1>6, <2>3, <2>4 DEF JobsInv, InTime
  <2>9. Single'
    <3>1. KindOf[j] = "heavy" => \A s \in Slots : exec[j][s] = "idle"
      BY <1>3 DEF JobsInv, Single
    <3> QED BY <1>6, <2>3, <2>4, <3>1 DEF JobsInv, Single
  <2>10. GivenUp'
    BY <1>1, <1>2, <1>3, <2>1, <2>2, <2>3, <2>4 DEF JobsInv, GivenUp
  <2>11. Ordered'
    BY <1>6, <2>1, <2>2 DEF JobsInv, Ordered
  <2> QED BY <2>5, <2>6, <2>7, <2>8, <2>9, <2>10, <2>11 DEF JobsInv
<1> QED BY <1>1, <1>5, <1>6

\* The task id is recorded.
LEMMA NoteKeeps ==
  ASSUME JobsInv, NEW c \in Callers, NoteTaskId(c)
  PROVE  JobsInv'
<1>1. /\ call[c].pc = "note" /\ known' = known \cup {call[c].job}
      /\ silent' = [silent EXCEPT ![call[c].job] = 0] /\ Leave(c)
      /\ UNCHANGED <<status, broker, tasks, outages, losses, ended, dropped>>
  BY DEF NoteTaskId, history
<1>2. /\ outages \in Nat /\ losses \in Nat /\ outages + losses <= MaxFaults
      /\ mutex \in Callers \cup {NoCaller, DeadCaller}
      /\ dropped \in SUBSET Jobs /\ ended \in SUBSET Jobs /\ known \in SUBSET Jobs /\ JobsTypeOK
      /\ status \in [Jobs -> Statuses] /\ silent \in [Jobs -> 0 .. SilentCap]
  BY TypeParts DEF JobsInv
<1>3. call[c].job \in Jobs /\ silent[call[c].job] = 0
  BY <1>1 DEF JobsInv, Exists, Sections, Sending
<1>4. silent' \in [Jobs -> 0 .. SilentCap] /\ known' \in SUBSET Jobs /\ \A i \in Jobs : silent'[i] = silent[i]
  <2>1. 0 \in 0 .. SilentCap
    BY Constants
  <2> QED BY <1>1, <1>2, <1>3, <2>1
<1>5. JobsTypeOK' /\ Exists' /\ Sections' /\ InTime' /\ Single' /\ GivenUp'
  BY <1>1, <1>2, <1>4, LeaveParts, IdleParts, RequestKeeps
<1>6. Ordered'
  BY <1>1, <1>2, <1>4, <1>5, LeaveParts, IdleParts, OrderKeeps
<1> QED BY <1>5, <1>6 DEF JobsInv

\* A cancelled row is marked.
LEMMA MarkKeeps ==
  ASSUME JobsInv, NEW c \in Callers, MarkCancelled(c)
  PROVE  JobsInv'
<1> DEFINE j == call[c].job
<1>1. /\ call[c].pc = "mark" /\ Write({j}, "cancelled") /\ Leave(c)
      /\ UNCHANGED <<broker, tasks, outages, losses, dropped>>
  BY DEF MarkCancelled
<1>2. /\ outages \in Nat /\ losses \in Nat /\ outages + losses <= MaxFaults
      /\ mutex \in Callers \cup {NoCaller, DeadCaller} /\ dropped \in SUBSET Jobs /\ JobsTypeOK
  BY TypeParts DEF JobsInv
<1>3. j \in Jobs /\ status[j] # "none"
  BY <1>1 DEF JobsInv, Exists
<1> HIDE DEF j
<1>4. /\ status' \in [Jobs -> Statuses] /\ silent' \in [Jobs -> 0 .. SilentCap]
      /\ known' \in SUBSET Jobs /\ ended' \in SUBSET Jobs /\ ended \subseteq ended' /\ j \in ended'
      /\ \A i \in Jobs : status'[i] = IF i \in {j} THEN "cancelled" ELSE status[i]
      /\ \A i \in Jobs : silent'[i] = IF i \in {j} THEN 0 ELSE silent[i]
  BY <1>1, <1>2, <1>3, WriteParts DEF Statuses, Terminal
<1>5. /\ \A i \in Jobs : status[i] # "none" <=> status'[i] # "none"
      /\ \A i \in Jobs : silent'[i] = silent[i] \/ silent'[i] = 0
      /\ \A i \in Jobs : status'[i] \in Terminal => status[i] \in Terminal \/ i \in ended'
      /\ \A i \in Jobs : status'[i] = "queued" =>
           \/ status[i] = "queued" /\ silent'[i] = silent[i]
           \/ status[i] = "none" /\ silent'[i] = 0
  BY <1>3, <1>4
<1>6. JobsTypeOK' /\ Exists' /\ Sections' /\ InTime' /\ Single' /\ GivenUp'
  BY <1>1, <1>2, <1>4, <1>5, LeaveParts, IdleParts, RequestKeeps
<1>7. Ordered'
  BY <1>1, <1>2, <1>4, <1>5, <1>6, LeaveParts, IdleParts, OrderKeeps
<1> QED BY <1>6, <1>7 DEF JobsInv

\* A request dies; its lock stays for a while.
LEMMA DiesKeeps ==
  ASSUME JobsInv, NEW c \in Callers, CallerDies(c)
  PROVE  JobsInv'
<1>1. /\ outages + losses < MaxFaults /\ losses' = losses + 1 /\ call' = [call EXCEPT ![c] = Idle]
      /\ mutex' = (IF mutex = c THEN DeadCaller ELSE mutex)
      /\ UNCHANGED <<status, silent, known, broker, tasks, outages, ended, dropped>>
  BY DEF CallerDies, rows, history
<1>2. /\ outages \in Nat /\ losses \in Nat /\ MaxFaults \in Nat
      /\ mutex \in Callers \cup {NoCaller, DeadCaller}
      /\ dropped \in SUBSET Jobs /\ ended \in SUBSET Jobs /\ known \in SUBSET Jobs
      /\ status \in [Jobs -> Statuses] /\ silent \in [Jobs -> 0 .. SilentCap]
  BY TypeParts, Constants DEF JobsInv
<1>3. /\ outages' \in Nat /\ losses' \in Nat /\ outages' + losses' <= MaxFaults
      /\ mutex' \in Callers \cup {NoCaller, DeadCaller} /\ \A d \in Callers : d # c /\ mutex = d => mutex' = d
  BY <1>1, <1>2
<1>4. JobsTypeOK' /\ Exists' /\ Sections' /\ InTime' /\ Single' /\ GivenUp'
  BY <1>1, <1>2, <1>3, IdleParts, RequestKeeps
<1>5. Ordered'
  BY <1>1, <1>3, <1>4, IdleParts, OrderKeeps
<1> QED BY <1>4, <1>5 DEF JobsInv

\* A job is to be cancelled: its message and its process may be revoked.
LEMMA CancelKeeps ==
  ASSUME JobsInv, NEW c \in Callers, NEW j \in Jobs, Cancel(c, j)
  PROVE  JobsInv'
<1> DEFINE k == [Idle EXCEPT !.pc = "mark", !.job = j]
<1>1. /\ call[c].pc = "idle" /\ status[j] \in Active /\ call' = [call EXCEPT ![c] = k]
      /\ UNCHANGED <<status, silent, known, mutex, outages, losses, ended, dropped>>
      /\ \/ /\ msg' = [msg EXCEPT ![j] = "none"] /\ sent' = [sent EXCEPT ![j] = 0]
            /\ held' = [held EXCEPT ![j] = 0] /\ exec' = [exec EXCEPT ![j] = [s \in Slots |-> "idle"]]
            /\ age' = [age EXCEPT ![j] = [s \in Slots |-> 0]] /\ holder' = holder
         \/ UNCHANGED <<broker, tasks>>
  BY DEF Cancel, rows, history
<1>2. /\ outages \in Nat /\ losses \in Nat /\ outages + losses <= MaxFaults
      /\ mutex \in Callers \cup {NoCaller, DeadCaller} /\ JobsTypeOK
      /\ dropped \in SUBSET Jobs /\ ended \in SUBSET Jobs /\ known \in SUBSET Jobs
      /\ status \in [Jobs -> Statuses] /\ silent \in [Jobs -> 0 .. SilentCap]
  BY TypeParts DEF JobsInv
<1>3. status[j] # "none"
  BY <1>1 DEF Active
<1>4. k \in Calls /\ k.pc = "mark" /\ k.job = j /\ k.stale = {}
  BY IdleParts DEF Calls
<1> HIDE DEF k
<1>5. CASE UNCHANGED <<broker, tasks>>
  <2>1. JobsTypeOK' /\ Exists' /\ Sections' /\ InTime' /\ Single' /\ GivenUp'
    BY <1>1, <1>2, <1>3, <1>4, <1>5, RequestKeeps
  <2>2. Ordered'
    BY <1>1, <1>4, <2>1, OrderKeeps
  <2> QED BY <2>1, <2>2 DEF JobsInv
<1>6. CASE /\ msg' = [msg EXCEPT ![j] = "none"] /\ sent' = [sent EXCEPT ![j] = 0]
           /\ held' = [held EXCEPT ![j] = 0] /\ exec' = [exec EXCEPT ![j] = [s \in Slots |-> "idle"]]
           /\ age' = [age EXCEPT ![j] = [s \in Slots |-> 0]] /\ holder' = holder
  <2>1. /\ call' \in [Callers -> Calls] /\ call'[c] = k
        /\ \A d \in Callers : d # c => call'[d] = call[d]
    BY <1>1, <1>2, <1>4, CallChanged
  <2>2. /\ msg' \in [Jobs -> {"none", "waiting", "unacked"}] /\ sent' \in [Jobs -> 0 .. Expiry + 1]
        /\ held' \in [Jobs -> 0 .. AgeCap] /\ msg'[j] = "none"
        /\ \A i \in Jobs : i # j => msg'[i] = msg[i] /\ sent'[i] = sent[i] /\ held'[i] = held[i]
    <3>1. 0 \in 0 .. Expiry + 1 /\ 0 \in 0 .. AgeCap
      BY Constants
    <3> QED BY <1>2, <1>6, <3>1, TypeParts
  <2>3. /\ exec' \in [Jobs -> [Slots -> Steps]] /\ age' \in [Jobs -> [Slots -> 0 .. AgeCap]]
        /\ \A s \in Slots : exec'[j][s] = "idle"
        /\ \A i \in Jobs : i # j => exec'[i] = exec[i] /\ age'[i] = age[i]
    <3>1. [s \in Slots |-> "idle"] \in [Slots -> Steps] /\ [s \in Slots |-> 0] \in [Slots -> 0 .. AgeCap]
      BY Constants DEF Steps
    <3> QED BY <1>2, <1>6, <3>1, TypeParts
  <2>4. JobsTypeOK'
    BY <1>1, <1>2, <1>6, <2>1, <2>2, <2>3, TypeParts DEF JobsTypeOK, Steps, Calls
  <2>5. Exists'
    <3>1. \A i \in Jobs, s \in Slots : exec'[i][s] # "idle" => exec[i][s] # "idle"
      BY <2>3
    <3>2. \A i \in Jobs : msg'[i] # "none" => msg[i] # "none"
      BY <2>2
    <3>3. /\ \A d \in Callers : \A i \in call'[d].stale : status[i] # "none"
          /\ \A d \in Callers : call'[d].pc \in {"send", "note", "mark"} =>
               call'[d].job \in Jobs /\ status[call'[d].job] # "none"
      BY <1>3, <1>4, <2>1 DEF JobsInv, Exists
    <3> QED BY <1>1, <3>1, <3>2, <3>3 DEF JobsInv, Exists
  <2>6. Sections'
    <3>1. \A d \in Callers : Sending(d)' => d # c /\ Sending(d) /\ call'[d] = call[d] /\ call[d].job \in Jobs
      BY <1>4, <2>1 DEF JobsInv, Exists, Sending
    <3>2. \A d \in Callers : call'[d].pc = "send" => msg'[call'[d].job] = "none"
      BY <2>2, <3>1 DEF JobsInv, Sections, Sending
    <3>3. \A d \in Callers : \A i \in call'[d].stale : status'[i] = "queued" => silent'[i] > QueuedLimit
      BY <1>1, <1>4, <2>1 DEF JobsInv, Sections
    <3> QED BY <1>1, <3>1, <3>2, <3>3 DEF JobsInv, Sections
  <2>7. InTime'
    <3>1. \A i \in Jobs, s \in Slots : exec'[i][s] # "idle" => exec'[i][s] = exec[i][s]
      BY <2>3
    <3>2. \A i \in Jobs : msg'[i] # "none" => msg[i] # "none" /\ sent'[i] = sent[i]
      BY <2>2
    <3> QED BY <1>1, <3>1, <3>2 DEF JobsInv, InTime
  <2>8. Single'
    <3>1. ASSUME NEW i \in Jobs, NEW s \in Slots, exec'[i][s] # "idle"
          PROVE  i # j /\ exec[i][s] = exec'[i][s]
      BY <2>3, <3>1
    <3>2. ASSUME NEW i \in Jobs, NEW s \in Slots, KindOf[i] = "heavy", exec'[i][s] # "idle"
          PROVE  msg'[i] = "unacked" /\ holder'[i] = s /\ held'[i] = age'[i][s] /\ age'[i][s] <= TimeLimit
      BY <1>6, <2>2, <2>3, <3>1, <3>2 DEF JobsInv, Single
    <3> QED BY <3>1, <3>2 DEF JobsInv, Single
  <2>9. GivenUp'
    <3>1. \A i \in dropped : msg'[i] = "none" \/ sent'[i] > Expiry
      BY <1>2, <2>2 DEF JobsInv, GivenUp
    <3>2. \A i \in dropped, s \in Slots : exec'[i][s] = "idle"
      BY <1>2, <2>3 DEF JobsInv, GivenUp
    <3> QED BY <1>1, <1>4, <2>1, <3>1, <3>2 DEF JobsInv, GivenUp
  <2>10. Ordered'
    BY <1>1, <1>4, <2>1 DEF JobsInv, Ordered
  <2> QED BY <2>4, <2>5, <2>6, <2>7, <2>8, <2>9, <2>10 DEF JobsInv
<1> QED BY <1>1, <1>5, <1>6

\* A task goes on.
LEMMA TaskWorks ==
  ASSUME JobsInv, NEW j \in Jobs, NEW s \in Slots,
         Begin(j, s) \/ CheckCancelled(j, s) \/ Progress(j, s) \/ EndTask(j, s)
  PROVE  JobsInv'
<1>1. CASE Begin(j, s)
  BY <1>1, WorkKeeps DEF Begin
<1>2. CASE CheckCancelled(j, s)
  <2>1. CASE status[j] = "cancelled"
    BY <1>2, <2>1, WorkKeeps DEF CheckCancelled
  <2>2. CASE status[j] # "cancelled"
    BY <1>2, <2>2, WorkKeeps DEF CheckCancelled
  <2> QED BY <2>1, <2>2
<1>3. CASE Progress(j, s)
  BY <1>3, WorkKeeps DEF Progress
<1>4. CASE EndTask(j, s)
  BY <1>4, WorkKeeps DEF EndTask
<1> QED BY <1>1, <1>2, <1>3, <1>4

\* A task leaves.
LEMMA TaskLeaves ==
  ASSUME JobsInv, NEW j \in Jobs, NEW s \in Slots,
         Return(j, s) \/ TimeOut(j, s) \/ WorkerLost(j, s)
  PROVE  JobsInv'
<1>1. outages \in Nat /\ losses \in Nat /\ outages + losses <= MaxFaults /\ MaxFaults \in Nat
  BY TypeParts, Constants DEF JobsInv
<1>2. CASE Return(j, s) \/ TimeOut(j, s)
  <2>1. /\ exec[j][s] # "idle" /\ Release(j, s) /\ Acknowledge(j, s)
        /\ UNCHANGED <<rows, call, mutex, outages, losses, history>>
    BY <1>2 DEF Return, TimeOut
  <2>2. CASE msg[j] = "unacked" /\ holder[j] = s
    BY <1>1, <2>1, <2>2, LeaveKeeps DEF Acknowledge
  <2>3. CASE ~ (msg[j] = "unacked" /\ holder[j] = s)
    BY <1>1, <2>1, <2>3, LeaveKeeps DEF Acknowledge
  <2> QED BY <2>2, <2>3
<1>3. CASE WorkerLost(j, s)
  <2>1. /\ exec[j][s] # "idle" /\ Release(j, s) /\ outages + losses < MaxFaults /\ losses' = losses + 1
        /\ UNCHANGED <<rows, call, mutex, outages, history, holder>>
        /\ \/ UNCHANGED <<msg, sent, held>>
           \/ /\ msg' = [msg EXCEPT ![j] = "waiting"] /\ sent' = sent
              /\ held' = [held EXCEPT ![j] = 0] /\ msg[j] = "unacked"
    BY <1>3 DEF WorkerLost, broker
  <2>2. losses' \in Nat /\ outages + losses' <= MaxFaults
    BY <1>1, <2>1
  <2> QED BY <2>1, <2>2, LeaveKeeps
<1> QED BY <1>2, <1>3

\* The first state.
LEMMA JobsInitial == JobsInit => JobsInv
<1> SUFFICES ASSUME JobsInit PROVE JobsInv
  OBVIOUS
<1> DEFINE first == CHOOSE s \in Slots : TRUE
<1>1. /\ status = [j \in Jobs |-> "none"] /\ silent = [j \in Jobs |-> 0] /\ known = {}
      /\ msg = [j \in Jobs |-> "none"] /\ sent = [j \in Jobs |-> 0] /\ held = [j \in Jobs |-> 0]
      /\ holder = [j \in Jobs |-> first] /\ exec = [j \in Jobs |-> [s \in Slots |-> "idle"]]
      /\ age = [j \in Jobs |-> [s \in Slots |-> 0]] /\ call = [c \in Callers |-> Idle]
      /\ mutex = NoCaller /\ outages = 0 /\ losses = 0 /\ ended = {} /\ dropped = {}
  BY DEF JobsInit
<1>2. first \in Slots
  BY Chosen, Constants
<1> HIDE DEF first
<1>3. JobsTypeOK
  <2>1. /\ 0 \in 0 .. SilentCap /\ 0 \in 0 .. Expiry + 1 /\ 0 \in 0 .. AgeCap /\ 0 + 0 <= MaxFaults
        /\ "none" \in Statuses /\ "idle" \in Steps
    BY Constants DEF Statuses, Steps
  <2>2. /\ status \in [Jobs -> Statuses] /\ silent \in [Jobs -> 0 .. SilentCap]
        /\ msg \in [Jobs -> {"none", "waiting", "unacked"}] /\ sent \in [Jobs -> 0 .. Expiry + 1]
        /\ held \in [Jobs -> 0 .. AgeCap] /\ holder \in [Jobs -> Slots]
    BY <1>1, <1>2, <2>1
  <2>3. exec \in [Jobs -> [Slots -> Steps]] /\ age \in [Jobs -> [Slots -> 0 .. AgeCap]]
    BY <1>1, <2>1
  <2>4. call \in [Callers -> Calls]
    BY <1>1, IdleParts
  <2> QED BY <1>1, <2>1, <2>2, <2>3, <2>4, TypeParts
<1>4. \A c \in Callers : call[c].pc = "idle" /\ call[c].stale = {}
  BY <1>1, IdleParts
<1>5. Exists /\ Sections /\ GivenUp
  BY <1>1, <1>4 DEF Exists, Sections, GivenUp, Sending, Terminal
<1>6. InTime /\ Single /\ Ordered
  BY <1>1, <1>4 DEF InTime, Single, Ordered
<1> QED BY <1>3, <1>5, <1>6 DEF JobsInv

\* A step that changes nothing.
LEMMA Stutter == JobsInv /\ UNCHANGED jobVars => JobsInv'
<1> SUFFICES ASSUME JobsInv, UNCHANGED jobVars PROVE JobsInv'
  OBVIOUS
<1>1. UNCHANGED <<status, silent, known, msg, sent, held, holder, exec, age, call, mutex, outages, losses,
                  ended, dropped>>
  BY DEF jobVars, rows, broker, tasks, history
<1>2. JobsTypeOK'
  BY <1>1 DEF JobsInv, JobsTypeOK
<1>3. Exists' /\ Sections'
  BY <1>1 DEF JobsInv, Exists, Sections, Sending
<1>4. InTime' /\ Single' /\ GivenUp' /\ Ordered'
  BY <1>1 DEF JobsInv, InTime, Single, GivenUp, Ordered
<1> QED BY <1>2, <1>3, <1>4 DEF JobsInv

\* Every step keeps the invariant.
LEMMA JobsStep == JobsInv /\ [JobsNext]_jobVars => JobsInv'
<1> SUFFICES ASSUME JobsInv, [JobsNext]_jobVars PROVE JobsInv'
  OBVIOUS
<1>1. ASSUME NEW c \in Callers, NEW what \in Requests, Ask(c, what) PROVE JobsInv'
  BY <1>1, AskKeeps
<1>2. ASSUME NEW c \in Callers,
             \/ Reconcile(c) \/ CreateJob(c) \/ SendTask(c) \/ NoteTaskId(c)
             \/ MarkCancelled(c) \/ CallerDies(c)
      PROVE  JobsInv'
  BY <1>2, ReconcileKeeps, CreateKeeps, SendKeeps, NoteKeeps, MarkKeeps, DiesKeeps
<1>3. ASSUME NEW c \in Callers, NEW j \in Jobs, Cancel(c, j) PROVE JobsInv'
  BY <1>3, CancelKeeps
<1>4. ASSUME NEW j \in Jobs, Discard(j) \/ Deliver(j) \/ Restore(j) PROVE JobsInv'
  BY <1>4, MessageKeeps, DeliverKeeps
<1>5. ASSUME NEW j \in Jobs, NEW s \in Slots,
             \/ Begin(j, s) \/ CheckCancelled(j, s) \/ Progress(j, s) \/ EndTask(j, s)
             \/ Return(j, s) \/ TimeOut(j, s) \/ WorkerLost(j, s)
      PROVE  JobsInv'
  BY <1>5, TaskWorks, TaskLeaves
<1>6. CASE Tick
  BY <1>6, TickKeeps
<1>7. CASE UNCHANGED jobVars
  BY <1>7, Stutter
<1> QED BY <1>1, <1>2, <1>3, <1>4, <1>5, <1>6, <1>7 DEF JobsNext

\* The invariant gives the properties.
LEMMA InvSuffices == JobsInv => JobsTypeOK /\ OneExecution /\ DroppedNeverRuns /\ OneRefreshPerStock
<1> SUFFICES ASSUME JobsInv PROVE JobsTypeOK /\ OneExecution /\ DroppedNeverRuns /\ OneRefreshPerStock
  OBVIOUS
<1>1. OneExecution
  <2> SUFFICES ASSUME NEW i \in Jobs, NEW j \in Jobs, NEW s \in Slots, NEW t \in Slots,
                      exec[i][s] # "idle", exec[j][t] # "idle",
                      i = j \/ (KindOf[i] = "detail" /\ KindOf[j] = "detail")
               PROVE  i = j /\ s = t
    BY DEF OneExecution
  <2>1. KindOf[i] \in {"heavy", "detail"} /\ KindOf[j] \in {"heavy", "detail"}
    BY Constants
  <2>2. CASE KindOf[i] = "detail" /\ KindOf[j] = "detail"
    BY <2>2 DEF JobsInv, Single
  <2>3. CASE i = j /\ KindOf[i] = "heavy"
    <3>1. holder[i] = s /\ holder[i] = t
      BY <2>3 DEF JobsInv, Single
    <3> QED BY <2>3, <3>1
  <2> QED BY <2>1, <2>2, <2>3
<1>2. DroppedNeverRuns
  BY DEF JobsInv, GivenUp, DroppedNeverRuns
<1>3. OneRefreshPerStock
  BY DEF JobsInv, Ordered, OneRefreshPerStock
<1> QED BY <1>1, <1>2, <1>3 DEF JobsInv

\* Rows, messages, tasks and requests stay in the relation JobsInv states.
THEOREM Invariance == JobsSpec => []JobsInv
BY JobsInitial, JobsStep, PTL DEF JobsSpec

\* Every variable keeps its type.
THEOREM TypeCorrect == JobsSpec => []JobsTypeOK
BY Invariance, InvSuffices, PTL

\* No job is executed twice at the same time, whoever redelivers its message.
THEOREM OneExecutionCorrect == JobsSpec => []OneExecution
BY Invariance, InvSuffices, PTL

\* A job that reconcile_stale_jobs gave up while it was queued never starts.
THEOREM DroppedCorrect == JobsSpec => []DroppedNeverRuns
BY Invariance, InvSuffices, PTL

\* While Redis answers there is one refresh of the stock at a time (start_job).
THEOREM OneRefreshCorrect == JobsSpec => []OneRefreshPerStock
BY Invariance, InvSuffices, PTL
=============================================================================
