--------------------------- MODULE RevisionLedger ---------------------------
(***************************************************************************)
(* What the work queue promises, without leases, tokens, clocks or threads. *)
(* For every key the ledger knows the newest revision asked for, the        *)
(* revision from which the one attempt that counts began, and the newest    *)
(* revision that was checked.  Attempts may be lost, handed back or taken   *)
(* over at any time; what they may not do is to settle a key for a revision *)
(* that was asked for after they began.                                     *)
(***************************************************************************)
EXTENDS Integers

CONSTANTS
  Keys,
  Revisions   \* naturals

None == -1

VARIABLES want, began, done

vars == <<want, began, done>>

Init ==
  /\ want  = [k \in Keys |-> None]
  /\ began = [k \in Keys |-> None]
  /\ done  = [k \in Keys |-> None]

\* Requests only ever move the wanted revision forward.
Ask(k) ==
  /\ \E r \in Revisions : r > want[k] /\ want' = [want EXCEPT ![k] = r]
  /\ UNCHANGED <<began, done>>

\* An attempt starts for each key of S; it replaces any earlier attempt.
Begin(S) ==
  /\ \A k \in S : want[k] # None
  /\ began' = [k \in Keys |-> IF k \in S THEN want[k] ELSE began[k]]
  /\ UNCHANGED <<want, done>>

\* The attempts for S are lost or handed back without a verdict.
Drop(S) ==
  /\ began' = [k \in Keys |-> IF k \in S THEN None ELSE began[k]]
  /\ UNCHANGED <<want, done>>

\* The attempt settles the key, for the revision that is still wanted.
Settle(k) ==
  /\ began[k] # None
  /\ began[k] = want[k]
  /\ done'  = [done EXCEPT ![k] = began[k]]
  /\ began' = [began EXCEPT ![k] = None]
  /\ UNCHANGED want

Next ==
  \/ \E k \in Keys : Ask(k) \/ Settle(k)
  \/ \E S \in SUBSET Keys : Begin(S) \/ Drop(S)

Spec == Init /\ [][Next]_vars
=============================================================================
