---------------------------- MODULE MCMachines ----------------------------
(***************************************************************************)
(* The components that share no state with others, checked side by side:    *)
(* a behaviour is one of a single component, chosen at the beginning, while *)
(* the others stay as they begin.  The states are the disjoint union of     *)
(* theirs; nothing is composed.                                             *)
(***************************************************************************)
EXTENDS Jobs, StopAlerts, MarketAmpel, TradeLedger

CONSTANTS c1, c2, d1, d2, h1, s1, s2, p1, p2

MCKindOf  == [j \in Jobs |-> IF j = h1 THEN "heavy" ELSE "detail"]
MCBatches == {{d1, d2}, {h1}}
MCOffset  == [l \in Logics |-> IF l = "ibd" THEN 3 ELSE 5]

VARIABLE part

machineVars == <<part, jobVars, stopVars, ampelVars, ledgerVars>>

MachinesInit ==
  /\ part \in {"jobs", "stop", "light", "ledger"}
  /\ JobsInit /\ StopInit /\ AmpelInit /\ LedgerInit
  /\ part # "stop" => policy = "recovery" /\ stop = p1
  /\ part # "light" => logic = "current" /\ before = 1

JobsStep   == part = "jobs" /\ JobsNext /\ UNCHANGED <<part, stopVars, ampelVars, ledgerVars>>
StopStep   == part = "stop" /\ StopNext /\ UNCHANGED <<part, jobVars, ampelVars, ledgerVars>>
AmpelStep  == part = "light" /\ AmpelNext /\ UNCHANGED <<part, jobVars, stopVars, ledgerVars>>
LedgerStep == part = "ledger" /\ LedgerNext /\ UNCHANGED <<part, jobVars, stopVars, ampelVars>>

MachinesNext == JobsStep \/ StopStep \/ AmpelStep \/ LedgerStep

\* JobsFairness and StopFairness, each for the behaviours of its component.
MachinesFairness ==
  /\ []<>(part = "jobs" => Quiet)
  /\ SF_jobVars(part = "jobs" /\ Tick) /\ SF_jobVars(part = "jobs" /\ ListJobs)
  /\ WF_jobVars(part = "jobs" /\ DetailEnds)
  /\ WF_stopVars(part = "stop" /\ MonitorStep) /\ SF_stopVars(part = "stop" /\ Accept)
  /\ WF_stopVars(part = "stop" /\ \E over \in BOOLEAN : Pass(over))

MachinesSpec == MachinesInit /\ [][MachinesNext]_machineVars /\ MachinesFairness
=============================================================================
