---------------------------- MODULE MCLeaseAlertsGate ----------------------------
(***************************************************************************)
(* One run for three parts with liveness properties and small state spaces:  *)
(* WriterLease, VisibilityAlerts and, with two requests for one slot,         *)
(* LodestoneGate.  part says which of them a behavior is about; the others    *)
(* stay in one initial state.                                                *)
(***************************************************************************)
EXTENDS WriterLease, Integers, Sequences, FiniteSets, TLC

CONSTANTS AlertChanges, Horizon   \* bounds of VisibilityAlerts and of LodestoneGate

VARIABLES
  part,
  missing, channel, active, episode, open, alert, ended, recovery, recent, known, streak, looked,
  pass, spent, told,
  now, req, slots, waiting, line, lastStart, coolUntil, strikes, failing

alertVars == <<missing, channel, active, episode, open, alert, ended, recovery, recent, known,
               streak, looked, pass, spent, told>>
gateVars == <<now, req, slots, waiting, line, lastStart, coolUntil, strikes, failing>>

allVars == <<part, vars, alertVars, gateVars>>

\* Two releases of the bot and the newer one's migration.
MCBuild == "old" :> 1 @@ "new" :> 2 @@ "migration" :> 2

\* The officer channel is never unset and set again between two passes.
Alerts == INSTANCE VisibilityAlerts WITH MaxChanges <- AlertChanges, Blips <- FALSE

Calls == {"r1", "r2"}
Gate == INSTANCE LodestoneGate WITH
  Requests <- Calls, Concurrency <- 1, Attempts <- 2, Spacing <- 2, CooldownBase <- 1,
  CooldownMax <- 2, RetryAfterMax <- 3, Hints <- {0, 4}, active <- slots
ASSUME GateAssumption == Gate!ConstantsOK

-----------------------------------------------------------------------------
PartsInit ==
  /\ part \in {"lease", "alerts", "gate"}
  /\ Init /\ (part = "lease" \/ head = 1)
  /\ Alerts!Init /\ (part = "alerts" \/ channel)
  /\ Gate!Init

InLease(A) == part = "lease" /\ A /\ UNCHANGED <<part, alertVars, gateVars>>
InAlerts(A) == part = "alerts" /\ A /\ UNCHANGED <<part, vars, gateVars>>
InGate(A) == part = "gate" /\ A /\ UNCHANGED <<part, vars, alertVars>>
\* The requests come to an end; the others never rest and are checked for deadlocks.
Rest == part = "gate" /\ UNCHANGED allVars
PartsNext == InLease(Next) \/ InAlerts(Alerts!Next) \/ InGate(Gate!Next) \/ Rest

\* Each part's own fairness, while it moves.
PartsFairness ==
  /\ \A b \in Bots : /\ WF_allVars(InLease(Waits(b))) /\ WF_allVars(InLease(CheckFails(b)))
                     /\ WF_allVars(InLease(FailedStops(b))) /\ WF_allVars(InLease(ShutDown(b)))
  /\ WF_allVars(InLease(ServerEndsSession))
  /\ \A m \in Migrators : WF_allVars(InLease(Finishes(m)))
  /\ WF_allVars(InAlerts(Alerts!PassReads)) /\ WF_allVars(InAlerts(Alerts!Step))
  /\ WF_allVars(InAlerts(Alerts!ClaimAlert)) /\ WF_allVars(InAlerts(Alerts!AlertEnds))
  /\ WF_allVars(InAlerts(Alerts!ClaimRecovery)) /\ WF_allVars(InAlerts(Alerts!RecoveryEnds))
  /\ WF_allVars(InAlerts(Alerts!WindowEnds))
  /\ \A r \in Calls : /\ WF_allVars(InGate(Gate!Resume(r))) /\ WF_allVars(InGate(Gate!Gate(r)))
                      /\ WF_allVars(InGate(Gate!Fetch(r))) /\ WF_allVars(InGate(Gate!AbortBackoff(r)))
PartsSpec == PartsInit /\ [][PartsNext]_allVars /\ PartsFairness

-----------------------------------------------------------------------------
\* A writer whose session died stops, and the lock of a bot that is gone is freed
\* (WriterLease).
LeaseIsGivenUp == LostWriterStops /\ AbandonedLockIsFreed
\* The officers are told of an episode that lasts, and no "complete again" waits while
\* one is open (VisibilityAlerts).
EpisodeIsTold == []Alerts!NoFalseAllClear /\ (part = "alerts" => Alerts!EpisodeIsTold)
\* Every request ends (LodestoneGate).
EveryRequestEnds == Gate!EveryRequestEnds
=============================================================================
