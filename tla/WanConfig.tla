----------------------------- MODULE WanConfig ------------------------------
(* The configuration object Device.X_RDK_WanManager (Enable, Policy,         *)
(* IdleTimeout), the policy the controller runs and the reboot by which a    *)
(* new policy takes effect.  One mutex guards the object: the setter of      *)
(* Policy keeps it for the half a minute before it asks for the reboot.      *)
EXTENDS Integers

CONSTANTS Runnable,       \* the policies that have a state machine
          OtherPolicies,  \* MULTIWAN_MODE and any other number
          MaxPowerLosses  \* bound: boots nobody asked for

Policies == Runnable \union OtherPolicies
\* A parameter that has no record, and the main thread outside every policy.
Missing == -1
NoPolicy == -2

ASSUME ConfigAssumption ==
  Policies \subseteq Nat /\ Runnable \intersect OtherPolicies = {}

VARIABLES config,     \* what the getters show
          stored,     \* the records of the persistent store
          policyRuns, \* the policy whose loop the main thread is in
          stage,      \* of the main thread
          waiting,    \* who waits before it asks for a reboot
          asked,      \* has a reboot been asked for?
          powerLosses

configVars == <<config, stored, policyRuns, stage, waiting, asked, powerLosses>>

Configs == [Enable : {0, 1}, Policy : Policies, IdleTimeout : {0, 1}]
Records == [Enable : {0, 1}, Policy : Policies \union {Missing},
            IdleTimeout : {0, Missing}]

\* A value without a record is an uninitialised variable.
WanMgr_WanConfInit(records) ==
  {c \in Configs : \A p \in DOMAIN c : records[p] \in {c[p], Missing}}

Restarted(records) ==
  /\ config' \in WanMgr_WanConfInit(records)
  /\ policyRuns' = NoPolicy
  /\ stage' = "starting"
  /\ waiting' = {}
  /\ asked' = FALSE

ConfigInit ==
  /\ stored \in Records
  /\ config \in WanMgr_WanConfInit(stored)
  /\ policyRuns = NoPolicy
  /\ stage = "starting"
  /\ waiting = {}
  /\ asked = FALSE
  /\ powerLosses = 0

\* The setter of the policy holds the mutex while it waits.
WanMgr_GetConfigData_locked == "setter" \notin waiting

(***************************************************************************)
(* The agent's calls.                                                      *)
(***************************************************************************)
WanManager_GetParamUlongValue == [Policy |-> config.Policy,
                                  IdleTimeout |-> config.IdleTimeout]

\* Mutant: the policy changes without a reboot.
ChangesOnTheFly(p) ==
  /\ WanMgr_GetConfigData_locked
  /\ stored' = [stored EXCEPT !.Policy = p]
  /\ config' = [config EXCEPT !.Policy = p]
  /\ UNCHANGED <<policyRuns, stage, waiting, asked, powerLosses>>

SetPolicy(p) ==
  /\ WanMgr_GetConfigData_locked
  /\ stored' = [stored EXCEPT !.Policy = p]
  /\ config' = [config EXCEPT !.Policy = p]
  /\ waiting' = waiting \union {"setter"}
  /\ UNCHANGED <<policyRuns, stage, asked, powerLosses>>

\* Neither Enable nor IdleTimeout is stored.
SetInMemory(p, v) ==
  /\ WanMgr_GetConfigData_locked
  /\ config' = [config EXCEPT ![p] = v]
  /\ UNCHANGED <<stored, policyRuns, stage, waiting, asked, powerLosses>>
WanManager_SetParamBoolValue(v) == SetInMemory("Enable", v)
SetIdleTimeout(v) == SetInMemory("IdleTimeout", v)

(***************************************************************************)
(* The main thread.                                                        *)
(***************************************************************************)
\* Without a record of the policy the controller does not start, and nothing
\* else starts it.
WanController_Init_StateMachine ==
  /\ stage = "starting"
  /\ stage' = IF stored.Policy = Missing THEN "idle" ELSE "choosing"
  /\ UNCHANGED <<config, stored, policyRuns, waiting, asked, powerLosses>>

\* A policy's loop does not return; without one the box is to reboot.
WanController_Start_StateMachine ==
  /\ stage = "choosing" /\ WanMgr_GetConfigData_locked
  /\ IF config.Policy \in Runnable
     THEN policyRuns' = config.Policy /\ UNCHANGED waiting
     ELSE waiting' = waiting \union {"main"} /\ UNCHANGED policyRuns
  /\ stage' = "idle"
  /\ UNCHANGED <<config, stored, asked, powerLosses>>

\* Half a minute later the script that reboots the box is called.
WanController_Policy_Change(who) ==
  /\ who \in waiting
  /\ waiting' = waiting \ {who}
  /\ asked' = TRUE
  /\ UNCHANGED <<config, stored, policyRuns, stage, powerLosses>>

Reboot == asked /\ Restarted(stored) /\ UNCHANGED <<stored, powerLosses>>
PowerLoss == /\ powerLosses < MaxPowerLosses
             /\ powerLosses' = powerLosses + 1
             /\ Restarted(stored) /\ UNCHANGED stored

MainStep == WanController_Init_StateMachine \/ WanController_Start_StateMachine
Ask == \E who \in {"setter", "main"} : WanController_Policy_Change(who)
ConfigNext ==
  \/ \E p \in Policies : SetPolicy(p)
  \/ \E v \in {0, 1} : WanManager_SetParamBoolValue(v) \/ SetIdleTimeout(v)
  \/ MainStep \/ Ask \/ Reboot \/ PowerLoss

\* The threads run, and the script reboots the box.
ConfigSpec == /\ ConfigInit /\ [][ConfigNext]_configVars
              /\ WF_configVars(MainStep) /\ WF_configVars(Ask)
              /\ WF_configVars(Reboot)

(***************************************************************************)
(* Properties.                                                             *)
(***************************************************************************)
\* While a policy other than the one the agent is shown runs, a reboot is on
\* its way: the policy is changed in memory at once, and read by the main
\* thread once, at a moment of its own.
RunsShownPolicy ==
  policyRuns # NoPolicy /\ waiting = {} /\ ~asked =>
    policyRuns = WanManager_GetParamUlongValue.Policy

\* Once the agent sets no more policies, the one that is stored runs for good,
\* if it is one that has a state machine.
PolicyTakesEffect ==
  <>[][\A p \in Policies : ~SetPolicy(p)]_configVars =>
    \A p \in Runnable : <>[](stored.Policy = p) => <>[](policyRuns = p)
=============================================================================
