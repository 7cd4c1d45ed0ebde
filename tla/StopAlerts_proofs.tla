-------------------------- MODULE StopAlerts_proofs --------------------------
(***************************************************************************)
(* Proofs about the stop alert.  The invariant relates the saved latch, the *)
(* copy a cycle works on and the history: the age of a recovery never runs   *)
(* ahead of the calm that was recorded (Waited), a copy is closed only if    *)
(* the saved latch is, and more messages than failed cycles mean a closed    *)
(* latch (Counted).                                                         *)
(***************************************************************************)
EXTENDS StopAlerts, TLAPS

Answers == {"none", "sent", "queued", "refused"}
Cycles  == [pc : {"idle", "dispatch", "save"}, latch : Latches, quote : 0 .. Fresh + 1,
            rearmed : BOOLEAN, answer : Answers, repeated : BOOLEAN]

Accepted == cycle.answer \in {"sent", "queued"}

\* A recovery has not lasted longer than the calm, up to the age of a quote.
Waited(latch) == latch.since >= 0 => latch.since <= latch.calm + Gap

\* A closed latch does not hold what a rearm by hand leaves.
Sane(latch) == latch.latched = TRUE => latch.since # Void

\* The copy of a cycle against the saved latch.
CopyInv ==
  /\ cycle.latch.latched = TRUE => saved.latched = TRUE
  /\ cycle.rearmed = FALSE /\ saved.latched = TRUE => cycle.latch.latched = TRUE
  /\ policy = "recovery" /\ saved.latched = TRUE /\ cycle.latch.latched = FALSE
       /\ saved.stop = cycle.latch.stop => cycle.latch.calm + Gap >= Recovery

\* A cycle that announces works on an open latch without a recovery.
AlertInv ==
  /\ cycle.pc = "dispatch" => cycle.latch.latched = FALSE /\ cycle.answer = "none"
  /\ cycle.pc = "dispatch" \/ Accepted => cycle.latch.since = Absent
  /\ Accepted => cycle.pc = "save"

Counted ==
  /\ told <= 1 + lost
  /\ Accepted \/ told <= lost \/ saved.latched = TRUE

StopInv ==
  /\ StopTypeOK
  /\ Waited(saved) /\ Waited(cycle.latch)
  /\ Sane(saved) /\ Sane(cycle.latch)
  /\ asked = TRUE => saved.latched = FALSE
  /\ cycle.pc # "idle" => CopyInv
  /\ AlertInv
  /\ Counted

\* The type, with named sets, and the constants.
LEMMA TypeParts ==
  /\ StopTypeOK <=> /\ policy \in {"recovery", "period"} /\ stop \in Stops
                    /\ saved \in Latches /\ cycle \in Cycles
                    /\ lastId \in [gen : Nat, quote : 0 .. Fresh + 1]
                    /\ faults \in 0 .. MaxFailures /\ changes \in 0 .. MaxChanges
                    /\ below \in BOOLEAN /\ told \in Nat /\ lost \in Nat /\ asked \in BOOLEAN
  /\ Gap \in Nat /\ Fresh \in Nat /\ Recovery \in Nat /\ Retry \in Nat
  /\ MaxFailures \in Nat /\ MaxChanges \in Nat /\ Gap <= Fresh /\ NoStop \notin Stops
BY StopAssumption DEF StopTypeOK, Cycles, Answers, StopAssumption

\* The fields of a latch.
LEMMA LatchParts ==
  ASSUME NEW x \in Latches
  PROVE  /\ x.stop \in Stops \cup {NoStop} /\ x.latched \in BOOLEAN /\ x.gen \in Nat
         /\ x.since \in {Absent, Void} \cup 0 .. SinceCap /\ x.seen \in 0 .. Gap + 1
         /\ x.retry \in 0 .. Retry /\ x.elapsed \in BOOLEAN /\ x.calm \in 0 .. Recovery
BY DEF Latches

\* An open latch.
LEMMA UnlatchedParts ==
  ASSUME NEW s \in Stops \cup {NoStop}, NEW gen \in Nat
  PROVE  /\ Unlatched(s, gen) \in Latches
         /\ Unlatched(s, gen).stop = s /\ Unlatched(s, gen).latched = FALSE
         /\ Unlatched(s, gen).since = Absent
<1>1. /\ Absent \in {Absent, Void} \cup 0 .. SinceCap /\ Gap + 1 \in 0 .. Gap + 1
      /\ 0 \in 0 .. Retry /\ 0 \in 0 .. Recovery /\ FALSE \in BOOLEAN
  BY TypeParts
<1> QED BY <1>1 DEF Unlatched, Latches

\* recovery_since after an observation.
LEMMA SinceParts ==
  ASSUME NEW x \in Latches, Waited(x), NEW price \in Prices, NEW q \in 0 .. Fresh + 1
  PROVE  /\ Since(x, price, q) \in {Absent, Void} \cup 0 .. SinceCap
         /\ ~ Recovering(price, q) => Since(x, price, q) = Absent
         /\ x.since # Void => Since(x, price, q) # Void
         /\ Since(x, price, q) >= 0 =>
              Since(x, price, q) <= (IF Recovering(price, q) /\ x.seen <= Gap THEN x.calm ELSE 0) + Gap
<1>1. /\ x.since \in {Absent, Void} \cup 0 .. SinceCap /\ x.calm \in 0 .. Recovery /\ x.seen \in 0 .. Gap + 1
      /\ x.since >= 0 => x.since <= x.calm + Gap
      /\ Gap \in Nat /\ Fresh \in Nat /\ Recovery \in Nat
  BY LatchParts, TypeParts DEF Waited
<1>2. CASE ~ Recovering(price, q)
  BY <1>1, <1>2 DEF Since, Absent, Void
<1>3. CASE Recovering(price, q) /\ (x.seen > Gap \/ x.since = Absent)
  <2>1. Since(x, price, q) = q
    BY <1>3 DEF Since
  <2>2. q <= Gap /\ q \in Nat
    BY <1>1, <1>3 DEF Recovering
  <2>3. q \in 0 .. SinceCap /\ q # Void /\ q # Absent
    BY <1>1, <2>2 DEF SinceCap, Void, Absent
  <2> QED BY <1>1, <1>3, <2>1, <2>2, <2>3
<1>4. CASE Recovering(price, q) /\ ~ (x.seen > Gap \/ x.since = Absent)
  <2>1. Since(x, price, q) = x.since /\ x.seen <= Gap
    BY <1>1, <1>4 DEF Since
  <2> QED BY <1>1, <1>4, <2>1
<1> QED BY <1>2, <1>3, <1>4

\* What an observation does to a latch.
LEMMA ObservedParts ==
  ASSUME NEW x \in Latches, Waited(x), Sane(x), policy \in {"recovery", "period"},
         NEW price \in Prices, NEW q \in 0 .. Fresh + 1
  PROVE  /\ Observed(x, price, q) \in Latches
         /\ Observed(x, price, q).stop = x.stop
         /\ Observed(x, price, q).latched = TRUE => x.latched = TRUE
         /\ Observed(x, price, q).since = Since(x, price, q)
         /\ Waited(Observed(x, price, q))
         /\ Sane(Observed(x, price, q))
         /\ policy = "recovery" /\ x.latched = TRUE /\ Observed(x, price, q).latched = FALSE
              => Observed(x, price, q).calm + Gap >= Recovery
<1> DEFINE back == Recovered(x, price, q)
           over == policy = "period" /\ x.elapsed
           latched == x.latched /\ ~ back /\ ~ over
           retry == IF back THEN 0 ELSE x.retry
           calm == IF Recovering(price, q) /\ x.seen <= Gap THEN x.calm ELSE 0
           y == Observed(x, price, q)
<1>1. y = [x EXCEPT !.latched = latched, !.since = Since(x, price, q), !.seen = 0, !.retry = retry,
                    !.calm = calm]
  BY DEF Observed
<1>2. /\ latched \in BOOLEAN /\ retry \in 0 .. Retry /\ calm \in 0 .. Recovery /\ 0 \in 0 .. Gap + 1
  BY LatchParts, TypeParts
<1>3. latched = TRUE => x.latched = TRUE
  BY LatchParts
<1>4. policy = "recovery" /\ x.latched = TRUE /\ latched = FALSE => back
  BY LatchParts
<1> HIDE DEF latched, retry, calm, y
<1>5. y \in Latches
  BY <1>1, <1>2, SinceParts DEF Latches
<1>6. /\ y.stop = x.stop /\ y.latched = latched /\ y.since = Since(x, price, q) /\ y.calm = calm
  BY <1>1 DEF Latches
<1>7. y.since >= 0 => y.since <= y.calm + Gap
  BY <1>6, SinceParts DEF calm
<1>8. back => y.calm + Gap >= Recovery
  <2> SUFFICES ASSUME back PROVE y.calm + Gap >= Recovery
    OBVIOUS
  <2>1. Since(x, price, q) # Void /\ Since(x, price, q) - q >= Recovery
    BY DEF Recovered
  <2>2. Since(x, price, q) \in Int /\ Recovery \in Nat /\ q \in Nat /\ Gap \in Nat /\ y.calm \in Nat
    BY <1>2, <1>6, SinceParts, TypeParts DEF Absent, Void
  <2> QED BY <1>6, <1>7, <2>1, <2>2
<1>9. y.latched = TRUE => y.since # Void
  BY <1>3, <1>6, SinceParts DEF Sane
<1> QED BY <1>3, <1>4, <1>5, <1>6, <1>7, <1>8, <1>9 DEF Waited, Sane, y

\* The latch an observation is applied to.
LEMMA AtStopParts ==
  ASSUME StopInv
  PROVE  /\ AtStop(saved) \in Latches /\ Waited(AtStop(saved)) /\ Sane(AtStop(saved))
         /\ AtStop(saved).stop = stop
         /\ AtStop(saved).latched = TRUE => saved.latched = TRUE
         /\ saved.stop = stop => AtStop(saved) = saved
<1>1. saved \in Latches /\ stop \in Stops /\ Waited(saved) /\ Sane(saved) /\ saved.gen + 1 \in Nat
  BY TypeParts, LatchParts DEF StopInv
<1>2. CASE saved.stop = stop
  BY <1>1, <1>2 DEF AtStop
<1>3. CASE saved.stop # stop
  <2> DEFINE u == Unlatched(stop, saved.gen + 1)
  <2>1. AtStop(saved) = u
    BY <1>3 DEF AtStop
  <2>2. u \in Latches /\ u.stop = stop /\ u.latched = FALSE /\ u.since = Absent
    BY <1>1, UnlatchedParts
  <2> HIDE DEF u
  <2>3. Waited(u) /\ Sane(u)
    BY <2>2 DEF Waited, Sane, Absent
  <2> QED BY <1>3, <2>1, <2>2, <2>3
<1> QED BY <1>2, <1>3

\* The copy of the latch after the observation of a cycle, before an alert.
Copy(price, q) == IF price = "none" THEN saved
                  ELSE IF q > Fresh THEN [saved EXCEPT !.since = Absent, !.calm = 0]
                  ELSE Observed(AtStop(saved), price, q)
Usable(price, q) == price # "none" /\ q <= Fresh

\* What is known of the copy.
LEMMA CopyParts ==
  ASSUME StopInv, NEW price \in Prices, NEW q \in 0 .. Fresh + 1
  PROVE  /\ Copy(price, q) \in Latches /\ Waited(Copy(price, q)) /\ Sane(Copy(price, q))
         /\ Copy(price, q).latched = TRUE => saved.latched = TRUE
         /\ ~ Usable(price, q) => Copy(price, q).latched = saved.latched
         /\ Usable(price, q) /\ price = "below" => Copy(price, q).since = Absent
         /\ policy = "recovery" /\ saved.latched = TRUE /\ Copy(price, q).latched = FALSE
              /\ saved.stop = Copy(price, q).stop => Copy(price, q).calm + Gap >= Recovery
<1>1. saved \in Latches /\ Waited(saved) /\ Sane(saved) /\ policy \in {"recovery", "period"}
  BY TypeParts DEF StopInv
<1>2. CASE price = "none"
  BY <1>1, <1>2 DEF Copy, Usable
<1>3. CASE price # "none" /\ q > Fresh
  <2> DEFINE y == [saved EXCEPT !.since = Absent, !.calm = 0]
  <2>1. 0 \in 0 .. Recovery /\ Absent \in {Absent, Void} \cup 0 .. SinceCap
    BY TypeParts
  <2>2. /\ y \in Latches /\ y.since = Absent /\ y.latched = saved.latched
    BY <1>1, <2>1 DEF Latches
  <2>3. Copy(price, q) = y /\ ~ Usable(price, q)
    BY <1>3, q \in Nat, TypeParts DEF Copy, Usable
  <2> HIDE DEF y
  <2>4. Waited(y) /\ Sane(y)
    BY <2>2 DEF Waited, Sane, Absent, Void
  <2> QED BY <2>2, <2>3, <2>4
<1>4. CASE price # "none" /\ ~ q > Fresh
  <2> DEFINE x == AtStop(saved)
             y == Observed(x, price, q)
  <2>1. Copy(price, q) = y /\ Usable(price, q)
    BY <1>4, q \in Nat, TypeParts DEF Copy, Usable
  <2>2. /\ x \in Latches /\ Waited(x) /\ Sane(x) /\ x.stop = stop
        /\ x.latched = TRUE => saved.latched = TRUE
        /\ saved.stop = stop => x = saved
    BY AtStopParts
  <2> HIDE DEF x
  <2>3. /\ y \in Latches /\ y.stop = x.stop
        /\ y.latched = TRUE => x.latched = TRUE
        /\ y.since = Since(x, price, q) /\ Waited(y) /\ Sane(y)
        /\ policy = "recovery" /\ x.latched = TRUE /\ y.latched = FALSE => y.calm + Gap >= Recovery
    BY <1>1, <2>2, ObservedParts
  <2>4. price = "below" => y.since = Absent
    BY <2>2, <2>3, SinceParts DEF Recovering
  <2> HIDE DEF y
  <2> QED BY <2>1, <2>2, <2>3, <2>4
<1> QED BY <1>2, <1>3, <1>4

\* A cycle begins.
LEMMA CheckKeeps ==
  ASSUME StopInv, NEW price \in Prices, NEW q \in 0 .. Fresh + 1, Check(price, q)
  PROVE  StopInv'
<1> DEFINE y == Copy(price, q)
           alert == Usable(price, q) /\ Due(y, price)
           z == IF alert THEN [y EXCEPT !.retry = Retry] ELSE y
           rearmed == Usable(price, q) /\ (saved.stop # stop \/ (saved.latched /\ ~ y.latched))
           k == [pc |-> IF alert THEN "dispatch" ELSE "save", latch |-> z,
                 quote |-> IF alert THEN q ELSE 0, rearmed |-> rearmed, answer |-> "none",
                 repeated |-> alert /\ lastId = [gen |-> y.gen, quote |-> q]]
<1>1. /\ cycle' = k /\ cycle.pc = "idle" /\ below' = (Usable(price, q) /\ price = "below")
      /\ UNCHANGED <<policy, stop, saved, lastId, faults, changes, told, lost, asked>>
  BY DEF Check, Copy, Usable
<1>2. /\ y \in Latches /\ Waited(y) /\ Sane(y)
      /\ y.latched = TRUE => saved.latched = TRUE
      /\ ~ Usable(price, q) => y.latched = saved.latched
      /\ Usable(price, q) /\ price = "below" => y.since = Absent
      /\ policy = "recovery" /\ saved.latched = TRUE /\ y.latched = FALSE
           /\ saved.stop = y.stop => y.calm + Gap >= Recovery
  BY CopyParts
<1>3. y.latched \in BOOLEAN /\ saved.latched \in BOOLEAN /\ saved \in Latches
  BY <1>2, LatchParts, TypeParts DEF StopInv
<1>4. alert => y.latched = FALSE /\ y.since = Absent
  BY <1>2, <1>3 DEF Due
<1>5. rearmed = FALSE /\ saved.latched = TRUE => y.latched = TRUE
  BY <1>2, <1>3
<1> HIDE DEF y, alert, rearmed
<1>6. /\ z \in Latches /\ z.stop = y.stop /\ z.latched = y.latched /\ z.since = y.since /\ z.calm = y.calm
  <2>1. Retry \in 0 .. Retry
    BY TypeParts
  <2> QED BY <1>2, <2>1 DEF Latches
<1> HIDE DEF z
<1>7. k \in Cycles
  <2>1. (IF alert THEN q ELSE 0) \in 0 .. Fresh + 1 /\ "none" \in Answers
        /\ (IF alert THEN "dispatch" ELSE "save") \in {"idle", "dispatch", "save"}
    BY TypeParts DEF Answers
  <2>2. rearmed \in BOOLEAN /\ (alert /\ lastId = [gen |-> y.gen, quote |-> q]) \in BOOLEAN
    BY DEF rearmed
  <2> QED BY <1>6, <2>1, <2>2 DEF Cycles
<1>8. /\ k.pc = "dispatch" <=> alert
      /\ k.latch = z /\ k.rearmed = rearmed /\ k.answer = "none"
  OBVIOUS
<1> HIDE DEF k
<1>9. StopTypeOK'
  BY <1>1, <1>7, TypeParts DEF StopInv, StopTypeOK, Cycles, Answers
<1>10. /\ Waited(saved)' /\ Sane(saved)' /\ (asked = TRUE => saved.latched = FALSE)'
       /\ Waited(cycle.latch)' /\ Sane(cycle.latch)'
  BY <1>1, <1>2, <1>6, <1>8 DEF StopInv, Waited, Sane
<1>11. (cycle.pc # "idle" => CopyInv)'
  BY <1>1, <1>2, <1>3, <1>5, <1>6, <1>8 DEF CopyInv
<1>12. AlertInv'
  BY <1>1, <1>4, <1>6, <1>8 DEF AlertInv, Accepted
<1>13. Counted'
  <2>1. ~ Accepted
    BY <1>1 DEF StopInv, AlertInv
  <2> QED BY <1>1, <2>1 DEF StopInv, Counted, Accepted
<1> QED BY <1>9, <1>10, <1>11, <1>12, <1>13 DEF StopInv

\* The fields of a cycle.
LEMMA CycleParts ==
  ASSUME NEW k \in Cycles
  PROVE  /\ k.pc \in {"idle", "dispatch", "save"} /\ k.latch \in Latches /\ k.quote \in 0 .. Fresh + 1
         /\ k.rearmed \in BOOLEAN /\ k.answer \in Answers /\ k.repeated \in BOOLEAN
BY DEF Cycles

\* A latch in which an accepted alert was recorded.
LEMMA ClosedParts ==
  ASSUME NEW x \in Latches, NEW answer \in Answers, Waited(x), Sane(x),
         answer \in {"sent", "queued"} => x.since = Absent
  PROVE  /\ Closed(x, answer) \in Latches /\ Waited(Closed(x, answer)) /\ Sane(Closed(x, answer))
         /\ answer \in {"sent", "queued"} => Closed(x, answer).latched = TRUE
         /\ answer \notin {"sent", "queued"} => Closed(x, answer) = x
<1>1. CASE answer \in {"sent", "queued"}
  <2> DEFINE y == [x EXCEPT !.latched = TRUE, !.retry = 0, !.elapsed = FALSE]
  <2>1. 0 \in 0 .. Retry /\ TRUE \in BOOLEAN /\ FALSE \in BOOLEAN
    BY TypeParts
  <2>2. y \in Latches /\ y.latched = TRUE /\ y.since = x.since /\ y.calm = x.calm
    BY <2>1 DEF Latches
  <2>3. Closed(x, answer) = y
    BY <1>1 DEF Closed
  <2> HIDE DEF y
  <2> QED BY <1>1, <2>2, <2>3 DEF Waited, Sane, Absent, Void
<1>2. CASE answer \notin {"sent", "queued"}
  BY <1>2 DEF Closed
<1> QED BY <1>1, <1>2

\* The dispatcher answers.
LEMMA DispatchKeeps ==
  ASSUME StopInv, NEW answer \in {"sent", "queued", "refused"}, Dispatch(answer)
  PROVE  StopInv'
<1> DEFINE accepted == answer # "refused"
           k == [cycle EXCEPT !.pc = "save", !.answer = answer, !.quote = 0, !.repeated = FALSE]
<1>1. /\ cycle.pc = "dispatch" /\ cycle' = k
      /\ UNCHANGED <<policy, stop, saved, faults, changes, below, asked>>
      /\ lastId' = IF accepted THEN [gen |-> cycle.latch.gen, quote |-> cycle.quote] ELSE lastId
      /\ told' = (IF ~ accepted THEN told ELSE IF cycle.rearmed THEN 1
                  ELSE IF cycle.repeated /\ told > 0 THEN told ELSE told + 1)
      /\ lost' = IF accepted /\ cycle.rearmed THEN 0 ELSE lost
  BY DEF Dispatch
<1>2. cycle \in Cycles /\ saved \in Latches /\ told \in Nat /\ lost \in Nat
  BY TypeParts DEF StopInv
<1>3. /\ k \in Cycles /\ k.latch = cycle.latch /\ k.rearmed = cycle.rearmed
      /\ k.answer = answer /\ k.pc = "save"
  <2>1. answer \in Answers /\ 0 \in 0 .. Fresh + 1 /\ FALSE \in BOOLEAN
    BY TypeParts DEF Answers
  <2> QED BY <1>2, <2>1 DEF Cycles
<1> HIDE DEF k
<1>4. /\ cycle.latch \in Latches /\ cycle.latch.gen \in Nat /\ cycle.quote \in 0 .. Fresh + 1
      /\ cycle.rearmed \in BOOLEAN /\ cycle.repeated \in BOOLEAN
      /\ saved.latched \in BOOLEAN /\ cycle.latch.latched \in BOOLEAN
  BY <1>2, CycleParts, LatchParts
<1>5. StopTypeOK'
  <2>1. lastId' \in [gen : Nat, quote : 0 .. Fresh + 1]
    BY <1>1, <1>4, TypeParts DEF StopInv
  <2>2. told' \in Nat /\ lost' \in Nat
    BY <1>1, <1>2
  <2> QED BY <1>1, <1>3, <2>1, <2>2, TypeParts DEF StopInv, StopTypeOK, Cycles, Answers
<1>6. CopyInv /\ CopyInv'
  BY <1>1, <1>3 DEF StopInv, CopyInv
<1>7. cycle.latch.latched = FALSE /\ cycle.latch.since = Absent
  BY <1>1 DEF StopInv, AlertInv
<1>8. AlertInv'
  BY <1>1, <1>3, <1>7 DEF AlertInv, Accepted
<1>9. Counted'
  <2>1. ~ Accepted
    BY <1>1 DEF StopInv, AlertInv, Accepted
  <2>2. cycle.rearmed = FALSE => saved.latched = FALSE
    BY <1>4, <1>6, <1>7 DEF CopyInv
  <2>3. told <= 1 + lost /\ (told <= lost \/ saved.latched = TRUE)
    BY <2>1 DEF StopInv, Counted
  <2>4. Accepted' <=> accepted
    BY <1>1, <1>3 DEF Accepted
  <2>5. CASE ~ accepted
    BY <1>1, <2>3, <2>5 DEF Counted
  <2>6. CASE accepted /\ cycle.rearmed = TRUE
    BY <1>1, <2>4, <2>6 DEF Counted
  <2>7. CASE accepted /\ cycle.rearmed = FALSE
    <3>1. told <= lost
      BY <2>2, <2>3, <2>7
    <3>2. lost' = lost /\ (told' = told \/ told' = told + 1)
      BY <1>1, <2>7
    <3> QED BY <1>2, <2>4, <2>7, <3>1, <3>2 DEF Counted
  <2> QED BY <1>4, <2>5, <2>6, <2>7
<1>10. /\ Waited(saved)' /\ Sane(saved)' /\ (asked = TRUE => saved.latched = FALSE)'
       /\ Waited(cycle.latch)' /\ Sane(cycle.latch)'
  BY <1>1, <1>3 DEF StopInv, Waited, Sane
<1> QED BY <1>5, <1>6, <1>8, <1>9, <1>10 DEF StopInv

\* The fields of a monitor without a cycle.
LEMMA NoCycleParts ==
  /\ NoCycle \in Cycles /\ NoCycle.pc = "idle" /\ NoCycle.answer = "none"
  /\ Waited(NoCycle.latch) /\ Sane(NoCycle.latch)
<1> DEFINE u == Unlatched(NoStop, 0)
<1>1. u \in Latches /\ u.latched = FALSE /\ u.since = Absent
  BY UnlatchedParts
<1>2. /\ NoCycle = [pc |-> "idle", latch |-> u, quote |-> 0, rearmed |-> FALSE, answer |-> "none",
                    repeated |-> FALSE]
  BY DEF NoCycle
<1> HIDE DEF u
<1>3. Waited(u) /\ Sane(u)
  BY <1>1 DEF Waited, Sane, Absent
<1>4. 0 \in 0 .. Fresh + 1 /\ "none" \in Answers /\ FALSE \in BOOLEAN
  BY TypeParts DEF Answers
<1>5. NoCycle \in Cycles
  BY <1>1, <1>2, <1>4 DEF Cycles
<1> QED BY <1>2, <1>3, <1>5

\* What holds once no cycle is under way.
LEMMA IdleParts ==
  ASSUME cycle' = NoCycle
  PROVE  /\ Waited(cycle.latch)' /\ Sane(cycle.latch)'
         /\ (cycle.pc # "idle" => CopyInv)' /\ AlertInv' /\ ~ Accepted'
BY NoCycleParts DEF Waited, Sane, AlertInv, Accepted

\* The latch is saved.
LEMMA SaveKeeps ==
  ASSUME StopInv, Save
  PROVE  StopInv'
<1> DEFINE accepted == cycle.answer \in {"sent", "queued"}
           y == Closed(cycle.latch, cycle.answer)
<1>1. /\ cycle.pc = "save" /\ cycle' = NoCycle /\ saved' = y
      /\ told' = (IF cycle.rearmed /\ ~ accepted THEN 0 ELSE told)
      /\ lost' = (IF cycle.rearmed /\ ~ accepted THEN 0 ELSE lost)
      /\ asked' = (asked /\ ~ accepted)
      /\ UNCHANGED <<policy, stop, lastId, faults, changes, below>>
  BY DEF Save
<1>2. /\ cycle \in Cycles /\ saved \in Latches /\ told \in Nat /\ lost \in Nat
      /\ asked \in BOOLEAN /\ Waited(cycle.latch) /\ Sane(cycle.latch)
  BY TypeParts DEF StopInv
<1>3. /\ cycle.latch \in Latches /\ cycle.answer \in Answers /\ cycle.rearmed \in BOOLEAN
      /\ saved.latched \in BOOLEAN /\ cycle.latch.latched \in BOOLEAN
  BY <1>2, CycleParts, LatchParts
<1>4. accepted => cycle.latch.since = Absent
  BY DEF StopInv, AlertInv, Accepted
<1>5. /\ y \in Latches /\ Waited(y) /\ Sane(y)
      /\ accepted => y.latched = TRUE
      /\ ~ accepted => y = cycle.latch
  BY <1>2, <1>3, <1>4, ClosedParts
<1> HIDE DEF y
<1>6. CopyInv
  BY <1>1 DEF StopInv
<1>7. asked' = TRUE => saved'.latched = FALSE
  <2> SUFFICES ASSUME asked' = TRUE PROVE y.latched = FALSE
    BY <1>1
  <2>1. asked = TRUE /\ ~ accepted
    BY <1>1, <1>2
  <2> QED BY <1>3, <1>5, <1>6, <2>1 DEF StopInv, CopyInv
<1>8. StopTypeOK'
  <2>1. told' \in Nat /\ lost' \in Nat /\ asked' \in BOOLEAN
    BY <1>1, <1>2
  <2>2. cycle' \in Cycles
    BY <1>1, NoCycleParts
  <2> QED BY <1>1, <1>5, <2>1, <2>2, TypeParts DEF StopInv, StopTypeOK, Cycles, Answers
<1>9. Counted'
  <2>1. told <= 1 + lost /\ (accepted \/ told <= lost \/ saved.latched = TRUE)
    BY DEF StopInv, Counted, Accepted
  <2>2. CASE accepted
    <3>1. told' = told /\ lost' = lost /\ saved'.latched = TRUE
      BY <1>1, <1>5, <2>2
    <3> QED BY <2>1, <3>1 DEF Counted
  <2>3. CASE ~ accepted /\ cycle.rearmed = TRUE
    <3>1. told' = 0 /\ lost' = 0
      BY <1>1, <2>3
    <3> QED BY <3>1 DEF Counted
  <2>4. CASE ~ accepted /\ cycle.rearmed = FALSE
    <3>1. told' = told /\ lost' = lost
      BY <1>1, <2>4
    <3>2. saved.latched = TRUE => saved'.latched = TRUE
      BY <1>1, <1>5, <1>6, <2>4 DEF CopyInv
    <3> QED BY <2>1, <2>4, <3>1, <3>2 DEF Counted
  <2> QED BY <1>3, <2>2, <2>3, <2>4
<1>10. /\ Waited(cycle.latch)' /\ Sane(cycle.latch)' /\ (cycle.pc # "idle" => CopyInv)' /\ AlertInv'
  BY <1>1, IdleParts
<1> QED BY <1>1, <1>5, <1>7, <1>8, <1>9, <1>10 DEF StopInv, Waited, Sane

\* A cycle fails.
LEMMA FailKeeps ==
  ASSUME StopInv, FailCycle
  PROVE  StopInv'
<1>1. /\ cycle' = NoCycle /\ faults < MaxFailures /\ faults' = faults + 1
      /\ lost' = (IF Accepted THEN lost + 1 ELSE lost)
      /\ UNCHANGED <<policy, stop, saved, lastId, changes, below, told, asked>>
  BY DEF FailCycle, Accepted
<1>2. StopTypeOK'
  <2>1. lost' \in Nat /\ faults' \in 0 .. MaxFailures /\ cycle' \in Cycles
    BY <1>1, NoCycleParts, TypeParts DEF StopInv
  <2> QED BY <1>1, <2>1, TypeParts DEF StopInv, StopTypeOK, Cycles, Answers
<1>3. Counted'
  <2>1. told \in Nat /\ lost \in Nat
    BY TypeParts DEF StopInv
  <2>2. told <= 1 + lost /\ (Accepted \/ told <= lost \/ saved.latched = TRUE)
    BY DEF StopInv, Counted
  <2>3. CASE Accepted
    <3>1. lost' = lost + 1 /\ told' = told
      BY <1>1, <2>3
    <3> QED BY <2>1, <2>2, <3>1 DEF Counted
  <2>4. CASE ~ Accepted
    BY <1>1, <2>2, <2>4 DEF Counted
  <2> QED BY <2>3, <2>4
<1>4. /\ Waited(saved)' /\ Sane(saved)' /\ (asked = TRUE => saved.latched = FALSE)'
  BY <1>1 DEF StopInv, Waited, Sane
<1> QED BY <1>1, <1>2, <1>3, <1>4, IdleParts DEF StopInv

\* The stop is moved.
LEMMA MoveStopKeeps ==
  ASSUME StopInv, MoveStop
  PROVE  StopInv'
<1>1. /\ stop' \in Stops /\ changes < MaxChanges /\ changes' = changes + 1
      /\ UNCHANGED <<policy, saved, cycle, lastId, faults, below, told, lost, asked>>
  BY DEF MoveStop, Change
<1>2. changes' \in 0 .. MaxChanges
  BY <1>1, TypeParts DEF StopInv
<1>3. StopTypeOK'
  BY <1>1, <1>2, TypeParts DEF StopInv, StopTypeOK, Cycles, Answers
<1> QED BY <1>1, <1>3 DEF StopInv, Waited, Sane, CopyInv, AlertInv, Accepted, Counted

\* The latch is opened by hand.
LEMMA RearmKeeps ==
  ASSUME StopInv, Rearm
  PROVE  StopInv'
<1> DEFINE y == Rearmed
<1>1. /\ cycle.pc = "idle" /\ changes < MaxChanges /\ changes' = changes + 1
      /\ saved' = y /\ told' = 0 /\ lost' = 0 /\ asked' = TRUE
      /\ UNCHANGED <<policy, stop, cycle, lastId, faults, below>>
  BY DEF Rearm, Change
<1>2. y \in Latches /\ y.latched = FALSE /\ y.since = Void
  <2>1. saved \in Latches /\ saved.gen + 1 \in Nat /\ 0 \in 0 .. Retry /\ FALSE \in BOOLEAN
        /\ Void \in {Absent, Void} \cup 0 .. SinceCap
    BY TypeParts, LatchParts DEF StopInv
  <2> QED BY <2>1 DEF Rearmed, Latches
<1> HIDE DEF y
<1>3. changes' \in 0 .. MaxChanges /\ told' \in Nat /\ lost' \in Nat /\ asked' \in BOOLEAN
  BY <1>1, TypeParts DEF StopInv
<1>4. StopTypeOK'
  BY <1>1, <1>2, <1>3, TypeParts DEF StopInv, StopTypeOK, Cycles, Answers
<1>5. Waited(saved)' /\ Sane(saved)' /\ (asked = TRUE => saved.latched = FALSE)'
  BY <1>1, <1>2 DEF Waited, Sane, Void
<1>6. Counted'
  BY <1>1 DEF Counted
<1> QED BY <1>1, <1>4, <1>5, <1>6 DEF StopInv, Waited, Sane, AlertInv, Accepted

\* A latch one tick later.
LEMMA AgedParts ==
  ASSUME NEW x \in Latches, NEW over \in BOOLEAN, Waited(x), Sane(x)
  PROVE  /\ Aged(x, over) \in Latches /\ Waited(Aged(x, over)) /\ Sane(Aged(x, over))
         /\ Aged(x, over).stop = x.stop /\ Aged(x, over).latched = x.latched
         /\ x.since = Absent => Aged(x, over).since = Absent
         /\ Aged(x, over).calm >= x.calm
<1> DEFINE since == IF x.since < 0 THEN x.since ELSE Up(x.since, SinceCap)
           seen == Up(x.seen, Gap + 1)
           retry == IF x.retry > 0 THEN x.retry - 1 ELSE 0
           elapsed == x.elapsed \/ (over /\ policy = "period" /\ x.latched)
           calm == Up(x.calm, Recovery)
           y == Aged(x, over)
<1>1. y = [x EXCEPT !.since = since, !.seen = seen, !.retry = retry, !.elapsed = elapsed, !.calm = calm]
  BY DEF Aged
<1>2. /\ x.since \in {Absent, Void} \cup 0 .. SinceCap /\ x.calm \in 0 .. Recovery
      /\ x.seen \in 0 .. Gap + 1 /\ x.retry \in 0 .. Retry /\ x.elapsed \in BOOLEAN
      /\ x.latched \in BOOLEAN /\ SinceCap = Recovery + Gap
      /\ Gap \in Nat /\ Recovery \in Nat /\ Retry \in Nat
  BY LatchParts, TypeParts DEF SinceCap
<1>3. since \in {Absent, Void} \cup 0 .. SinceCap
  <2>1. CASE x.since < 0
    BY <1>2, <2>1
  <2>2. CASE ~ x.since < 0
    BY <1>2, <2>2 DEF Up, Absent, Void
  <2> QED BY <2>1, <2>2
<1>4. seen \in 0 .. Gap + 1 /\ calm \in 0 .. Recovery /\ calm >= x.calm
  BY <1>2 DEF Up
<1>5. retry \in 0 .. Retry /\ elapsed \in BOOLEAN
  BY <1>2
<1>6. since >= 0 => since <= calm + Gap
  <2> SUFFICES ASSUME since >= 0 PROVE since <= calm + Gap
    OBVIOUS
  <2>1. x.since >= 0 /\ since = Up(x.since, SinceCap) /\ x.since \in Nat
    BY <1>2 DEF Absent, Void
  <2>2. x.since <= x.calm + Gap
    BY <2>1 DEF Waited
  <2> HIDE DEF since
  <2> QED BY <1>2, <2>1, <2>2 DEF Up
<1>7. /\ x.since = Absent => since = Absent
      /\ since = Void => x.since = Void
  BY <1>2 DEF Absent, Void, Up
<1> HIDE DEF since, seen, retry, elapsed, calm, y
<1>8. y \in Latches
  BY <1>1, <1>3, <1>4, <1>5 DEF Latches
<1>9. y.since = since /\ y.calm = calm /\ y.stop = x.stop /\ y.latched = x.latched
  BY <1>1 DEF Latches
<1> QED BY <1>4, <1>6, <1>7, <1>8, <1>9 DEF Waited, Sane, y

\* A tick passes.
LEMMA PassKeeps ==
  ASSUME StopInv, NEW over \in BOOLEAN, Pass(over)
  PROVE  StopInv'
<1> DEFINE y == Aged(saved, over)
           z == Aged(cycle.latch, over)
           quote == IF cycle.pc = "dispatch" THEN Up(cycle.quote, Fresh + 1) ELSE 0
           k == [cycle EXCEPT !.latch = z, !.quote = quote]
           id == [lastId EXCEPT !.quote = Up(@, Fresh + 1)]
<1>1. /\ saved' = y /\ lastId' = id /\ cycle' = (IF cycle.pc = "idle" THEN cycle ELSE k)
      /\ UNCHANGED <<policy, stop, faults, changes, below, told, lost, asked>>
  BY DEF Pass
<1>2. /\ saved \in Latches /\ cycle \in Cycles /\ lastId \in [gen : Nat, quote : 0 .. Fresh + 1]
      /\ Waited(saved) /\ Sane(saved) /\ Waited(cycle.latch) /\ Sane(cycle.latch)
  BY TypeParts DEF StopInv
<1>3. cycle.latch \in Latches /\ cycle.quote \in 0 .. Fresh + 1 /\ cycle.pc \in {"idle", "dispatch", "save"}
  BY <1>2, CycleParts
<1>4. /\ y \in Latches /\ Waited(y) /\ Sane(y) /\ y.stop = saved.stop /\ y.latched = saved.latched
  BY <1>2, AgedParts
<1>5. /\ z \in Latches /\ Waited(z) /\ Sane(z) /\ z.stop = cycle.latch.stop
      /\ z.latched = cycle.latch.latched /\ z.calm >= cycle.latch.calm
      /\ cycle.latch.since = Absent => z.since = Absent
  BY <1>2, <1>3, AgedParts
<1>6. quote \in 0 .. Fresh + 1 /\ id \in [gen : Nat, quote : 0 .. Fresh + 1]
  <2>1. lastId.quote \in 0 .. Fresh + 1
    BY <1>2
  <2>2. Up(lastId.quote, Fresh + 1) \in 0 .. Fresh + 1 /\ Up(cycle.quote, Fresh + 1) \in 0 .. Fresh + 1
    BY <1>3, <2>1, TypeParts DEF Up
  <2>3. 0 \in 0 .. Fresh + 1
    BY TypeParts
  <2> QED BY <1>2, <2>2, <2>3
<1> HIDE DEF y, z, quote, id
<1>7. /\ k \in Cycles /\ k.latch = z /\ k.pc = cycle.pc /\ k.answer = cycle.answer
      /\ k.rearmed = cycle.rearmed
  BY <1>2, <1>5, <1>6 DEF Cycles
<1> HIDE DEF k
<1>8. StopTypeOK'
  <2>1. cycle' \in Cycles
    BY <1>1, <1>2, <1>7
  <2> QED BY <1>1, <1>4, <1>6, <2>1, TypeParts DEF StopInv, StopTypeOK, Cycles, Answers
<1>9. /\ Waited(saved)' /\ Sane(saved)' /\ (asked = TRUE => saved.latched = FALSE)'
  BY <1>1, <1>4 DEF StopInv, Waited, Sane
<1>10. Waited(cycle.latch)' /\ Sane(cycle.latch)'
  BY <1>1, <1>2, <1>5, <1>7 DEF Waited, Sane
<1>11. (cycle.pc # "idle" => CopyInv)'
  <2> SUFFICES ASSUME cycle'.pc # "idle" PROVE CopyInv'
    OBVIOUS
  <2>1. cycle' = k /\ CopyInv
    BY <1>1, <1>7 DEF StopInv
  <2>2. z.calm \in Nat /\ cycle.latch.calm \in Nat /\ Gap \in Nat /\ Recovery \in Nat
    BY <1>3, <1>5, LatchParts, TypeParts
  <2>3. cycle.latch.calm + Gap >= Recovery => z.calm + Gap >= Recovery
    BY <1>5, <2>2
  <2> QED BY <1>1, <1>4, <1>5, <1>7, <2>1, <2>3 DEF CopyInv
<1>12. AlertInv'
  BY <1>1, <1>5, <1>7 DEF StopInv, AlertInv, Accepted
<1>13. Counted'
  BY <1>1, <1>4, <1>7 DEF StopInv, Counted, Accepted
<1> QED BY <1>8, <1>9, <1>10, <1>11, <1>12, <1>13 DEF StopInv

\* The first state.
LEMMA StopInitial == StopInit => StopInv
<1> SUFFICES ASSUME StopInit PROVE StopInv
  OBVIOUS
<1> DEFINE u == Unlatched(NoStop, 0)
<1>1. /\ policy \in {"recovery", "period"} /\ stop \in Stops /\ saved = u /\ cycle = NoCycle
      /\ lastId = [gen |-> 0, quote |-> Fresh + 1] /\ faults = 0 /\ changes = 0
      /\ below = FALSE /\ told = 0 /\ lost = 0 /\ asked = FALSE
  BY DEF StopInit
<1>2. u \in Latches /\ u.latched = FALSE /\ u.since = Absent
  BY UnlatchedParts
<1> HIDE DEF u
<1>3. StopTypeOK
  <2>1. 0 \in 0 .. MaxFailures /\ 0 \in 0 .. MaxChanges /\ Fresh + 1 \in 0 .. Fresh + 1 /\ 0 \in Nat
    BY TypeParts
  <2> QED BY <1>1, <1>2, <2>1, NoCycleParts, TypeParts
<1>4. Waited(saved) /\ Sane(saved)
  BY <1>1, <1>2 DEF Waited, Sane, Absent
<1>5. /\ Waited(cycle.latch) /\ Sane(cycle.latch) /\ cycle.pc = "idle" /\ ~ Accepted
  BY <1>1, NoCycleParts DEF Accepted
<1>6. AlertInv /\ Counted
  BY <1>1, <1>5 DEF AlertInv, Counted
<1> QED BY <1>1, <1>3, <1>4, <1>5, <1>6 DEF StopInv

\* Every step keeps the invariant.
LEMMA StopStep == StopInv /\ [StopNext]_stopVars => StopInv'
<1> SUFFICES ASSUME StopInv, [StopNext]_stopVars PROVE StopInv'
  OBVIOUS
<1>1. CASE Observe
  BY <1>1, CheckKeeps DEF Observe
<1>2. CASE \E answer \in {"sent", "queued", "refused"} : Dispatch(answer)
  BY <1>2, DispatchKeeps
<1>3. CASE Save
  BY <1>3, SaveKeeps
<1>4. CASE FailCycle
  BY <1>4, FailKeeps
<1>5. CASE MoveStop
  BY <1>5, MoveStopKeeps
<1>6. CASE Rearm
  BY <1>6, RearmKeeps
<1>7. CASE \E over \in BOOLEAN : Pass(over)
  BY <1>7, PassKeeps
<1>8. CASE UNCHANGED stopVars
  BY <1>8 DEF stopVars, StopInv, StopTypeOK, Waited, Sane, CopyInv, AlertInv, Accepted, Counted
<1> QED BY <1>1, <1>2, <1>3, <1>4, <1>5, <1>6, <1>7, <1>8 DEF StopNext

\* The invariant gives the properties.
LEMMA InvSuffices == StopInv => StopTypeOK /\ RecoveryIsReal /\ OneMessagePerCrossing /\ RearmStands
<1> SUFFICES ASSUME StopInv PROVE StopTypeOK /\ RecoveryIsReal /\ OneMessagePerCrossing /\ RearmStands
  OBVIOUS
<1>1. saved.latched \in BOOLEAN /\ cycle.latch.latched \in BOOLEAN /\ asked \in BOOLEAN
  BY TypeParts, CycleParts, LatchParts DEF StopInv
<1>2. RecoveryIsReal
  BY <1>1 DEF StopInv, CopyInv, RecoveryIsReal
<1>3. OneMessagePerCrossing
  BY DEF StopInv, Counted, OneMessagePerCrossing
<1>4. RearmStands
  BY <1>1 DEF StopInv, Sane, RearmStands
<1> QED BY <1>2, <1>3, <1>4 DEF StopInv

\* The saved latch, the copy and the history stay in the relation StopInv states.
THEOREM Invariance == StopSpec => []StopInv
BY StopInitial, StopStep, PTL DEF StopSpec

\* Every variable keeps its type.
THEOREM TypeCorrect == StopSpec => []StopTypeOK
BY Invariance, InvSuffices, PTL

\* A latch opened by recovery has seen one (stop_transition in stop_alerts.py).
THEOREM RecoveryCorrect == StopSpec => []RecoveryIsReal
BY Invariance, InvSuffices, PTL

\* A crossing is announced once, and once more for each cycle that failed in between.
THEOREM OneMessageCorrect == StopSpec => []OneMessagePerCrossing
BY Invariance, InvSuffices, PTL

\* A rearm by hand stands until the next alert is recorded (rearm_stop_alerts).
THEOREM RearmCorrect == StopSpec => []RearmStands
BY Invariance, InvSuffices, PTL
=============================================================================
