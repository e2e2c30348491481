----------------------------- MODULE DeployProofs ----------------------------
(* What a deployment that reports success has running, for any commits,     *)
(* failures and kills: proofs about Deploy.                                 *)
EXTENDS Deploy, TLAPS

(* While the script is under way it goes from one commit to another and has *)
(* no outcome.  Once it has reset the checkout, that is at its target, and  *)
(* once it has restarted the service, that was started from the checkout:   *)
(* systemd, too, starts it from there.                                      *)
UnderWay ==
    script.at # "idle" =>
        script.outcome = "none" /\ script.from \in Commit /\ script.to \in Commit
AtTarget ==
    /\ script.at \in {"install", "build", "restart", "health"} /\ "reset" \notin stepFailed
            => head = script.to
    /\ script.at = "health" /\ "restart" \notin stepFailed => running.commit = head

DeployInv == DeployTypeOK /\ UnderWay /\ AtTarget

LEMMA Bounds ==
  ASSUME DeployConstantsOK
  PROVE  /\ 0 \in 0..MaxCommits /\ 1 \in Commit /\ Commit \subseteq 0..MaxCommits
         /\ Partial \in 0..Partial /\ 0 \in 0..Partial /\ Commit \subseteq 0..Partial
  BY DEF DeployConstantsOK, Commit, Partial

LEMMA OneMore ==
  ASSUME DeployConstantsOK
  PROVE  /\ \A c \in Commit : c < MaxCommits => c + 1 \in Commit
         /\ \A k \in 0..MaxKills : k < MaxKills => k + 1 \in 0..MaxKills
  BY DEF DeployConstantsOK, Commit

ScriptType ==
    [at : {"idle", "reset", "install", "build", "restart", "health"},
     rollback : BOOLEAN, from : 0..MaxCommits, to : 0..MaxCommits,
     outcome : {"none", "deployed", "rolled back", "rollback failed"}]

LEMMA IdleScript ==
  ASSUME DeployConstantsOK, NEW o \in {"none", "deployed", "rolled back", "rollback failed"}
  PROVE  /\ Idle(o) \in ScriptType
         /\ Idle(o).at = "idle" /\ Idle(o).outcome = o
<1>1. 0 \in 0..MaxCommits
  BY Bounds
<1>2. QED
  BY <1>1 DEF Idle, None, ScriptType

LEMMA ApplyScript ==
  ASSUME DeployConstantsOK, NEW rollback \in BOOLEAN, NEW from \in Commit, NEW to \in Commit,
         Apply(rollback, from, to)
  PROVE  stepFailed' = {} /\ script' \in ScriptType /\ script'.at = "reset" /\ script'.outcome = "none"
         /\ script'.from = from /\ script'.to = to
  BY Bounds DEF Apply, ScriptType

LEMMA StartedAfresh ==
  ASSUME NEW C, NEW c \in C, NEW d \in C, NEW r, r = [commit |-> c, deps |-> d]
  PROVE  r \in [commit : C, deps : C] /\ r.commit = c
  OBVIOUS

(* What is running, restarted from the checkout or brought down.            *)
RunningType == [commit : 0..MaxCommits, deps : 0..MaxCommits]

LEMMA Restarted ==
  ASSUME DeployConstantsOK, DeployTypeOK, running' = [commit |-> head, deps |-> deps]
  PROVE  running' \in RunningType /\ running'.commit = head
<1>1. head \in 0..MaxCommits /\ deps \in 0..MaxCommits
  BY Bounds DEF DeployTypeOK
<1>2. QED
  BY <1>1, StartedAfresh DEF RunningType

LEMMA BroughtDown == ASSUME DeployConstantsOK PROVE Down \in RunningType
<1>1. 0 \in 0..MaxCommits
  BY Bounds
<1>2. QED
  BY <1>1 DEF Down, None, RunningType

LEMMA DeployInitially == ASSUME DeployConstantsOK PROVE DeployInit => DeployInv
<1> SUFFICES ASSUME DeployInit PROVE DeployInv
  OBVIOUS
<1>1. DeployTypeOK
  <2>1. 0 \in 0..MaxKills /\ 1 \in 0..MaxCommits
    BY Bounds DEF DeployConstantsOK
  <2>2. running \in RunningType
    BY <2>1, StartedAfresh DEF DeployInit, RunningType
  <2>3. QED
    BY <2>1, <2>2, Bounds, IdleScript
    DEF DeployInit, DeployTypeOK, None, ScriptType, RunningType
<1>2. QED
  BY <1>1, IdleScript DEF DeployInit, DeployInv, UnderWay, AtTarget

LEMMA DeployStep == ASSUME DeployConstantsOK PROVE DeployInv /\ [DeployNext]_deployVars => DeployInv'
<1> SUFFICES ASSUME DeployInv, [DeployNext]_deployVars PROVE DeployInv'
  OBVIOUS
<1> USE Bounds DEF DeployInv, DeployTypeOK, UnderWay, AtTarget
<1>1. CASE Push
  BY <1>1, OneMore DEF Push
<1>2. CASE Start
  <2>1. stepFailed' = {} /\ script' \in ScriptType
        /\ script'.at = "reset" /\ script'.outcome = "none"
        /\ script'.from = head /\ script'.to = origin
    BY <1>2, ApplyScript DEF Start
  <2>2. QED
    BY <1>2, <2>1 DEF Start, ScriptType
<1>3. CASE Reset
  BY <1>3 DEF Reset, To
<1>4. CASE ResetFails
  BY <1>4 DEF ResetFails, To, Fails, Command
<1>5. CASE Install
  BY <1>5 DEF Install, To, Fails, Command
<1>6. CASE Build
  BY <1>6 DEF Build, To, Fails, Command, None
<1>7. CASE Restart
  <2>1. running' \in RunningType /\ running'.commit = head
    BY <1>7, Restarted DEF Restart
  <2>2. QED
    BY <1>7, <2>1 DEF Restart, To, RunningType
<1>8. CASE RestartFails
  <2>1. running' \in RunningType
    BY <1>8, BroughtDown DEF RestartFails, RunningType
  <2>2. QED
    BY <1>8, <2>1 DEF RestartFails, To, Fails, Command, RunningType
<1>9. CASE Healthy
  BY <1>9, IdleScript DEF Healthy, None, ScriptType
<1>10. CASE Unhealthy
  <2>1. CASE script.rollback
    BY <1>10, <2>1, IdleScript DEF Unhealthy, ScriptType
  <2>2. CASE ~script.rollback
    <3>1. stepFailed' = {} /\ script' \in ScriptType
          /\ script'.at = "reset" /\ script'.outcome = "none"
          /\ script'.from = script.to /\ script'.to = script.from
      BY <1>10, <2>2, ApplyScript DEF Unhealthy
    <3>2. QED
      BY <1>10, <2>2, <3>1 DEF Unhealthy, ScriptType
  <2>3. QED
    BY <2>1, <2>2
<1>11. CASE MarkFails
  BY <1>11, IdleScript DEF MarkFails, None, ScriptType
<1>12. CASE Kill
  <2>1. kills' \in 0..MaxKills
    BY <1>12, OneMore DEF Kill
  <2>2. \/ script' = Idle("none")
        \/ UNCHANGED script
    BY <1>12 DEF Kill
  <2>3. running' \in RunningType /\ (running'.commit = head \/ UNCHANGED running)
    <3>1. running' = running \/ running' = [commit |-> head, deps |-> deps]
      BY <1>12 DEF Kill
    <3>2. CASE running' = running
      BY <3>2 DEF RunningType
    <3>3. CASE running' = [commit |-> head, deps |-> deps]
      BY <3>3, Restarted
    <3>4. QED
      BY <3>1, <3>2, <3>3
  <2>4. script' \in ScriptType
        /\ (script'.at = "idle" \/ (UNCHANGED script /\ (running' = [commit |-> head, deps |-> deps])))
    BY <1>12, <2>2, IdleScript DEF Kill, ScriptType
  <2>5. QED
    BY <1>12, <2>1, <2>3, <2>4 DEF Kill, ScriptType, RunningType
<1>13. CASE UNCHANGED deployVars
  BY <1>13 DEF deployVars
<1>14. QED
  BY <1>1, <1>2, <1>3, <1>4, <1>5, <1>6, <1>7, <1>8, <1>9, <1>10, <1>11, <1>12, <1>13
  DEF DeployNext

LEMMA DeployInvariant == ASSUME DeployConstantsOK PROVE DeploySpec => []DeployInv
<1>1. DeployInit => DeployInv
  BY DeployInitially
<1>2. DeployInv /\ [DeployNext]_deployVars => DeployInv'
  BY DeployStep
<1>3. QED
  BY <1>1, <1>2, PTL DEF DeploySpec

(* The checkout, what is installed, built and running, and the script are   *)
(* of their types.                                                          *)
THEOREM DeployTypeCorrect == ASSUME DeployConstantsOK PROVE DeploySpec => []DeployTypeOK
<1>1. DeployInv => DeployTypeOK
  BY DEF DeployInv
<1>2. QED
  BY <1>1, DeployInvariant, PTL

(* SaysWhatRuns.  Only Healthy reports success; between a reset and the     *)
(* answer no step moves the checkout, and between a restart and the answer  *)
(* none changes the service, though a kill may have it started again.       *)
THEOREM ReportsWhatRuns == ASSUME DeployConstantsOK PROVE DeploySpec => SaysWhatRuns
<1>1. DeployInv /\ [DeployNext]_deployVars =>
        [script.at # "idle" /\ script'.outcome \in {"deployed", "rolled back"} =>
           /\ Serves(running')
           /\ "restart" \notin stepFailed => running'.commit = head'
           /\ "reset" \notin stepFailed => head' = script.to]_deployVars
  <2> SUFFICES ASSUME DeployInv, DeployNext, script.at # "idle",
                      script'.outcome \in {"deployed", "rolled back"}
               PROVE  /\ Serves(running')
                      /\ "restart" \notin stepFailed => running'.commit = head'
                      /\ "reset" \notin stepFailed => head' = script.to
    BY DEF DeployInv, UnderWay
  <2>1. Healthy
    <3>1. script.outcome = "none"
      BY DEF DeployInv, UnderWay
    <3>2. ~(Push \/ Reset \/ ResetFails \/ Install \/ Build \/ Restart \/ RestartFails)
      BY <3>1 DEF Push, Reset, ResetFails, Install, Build, Restart, RestartFails, To,
                  DeployInv, DeployTypeOK
    <3>3. ~Start
      BY DEF Start
    <3>4. ~Unhealthy
      <4>1. Idle("rollback failed").outcome = "rollback failed"
        BY DEF Idle
      <4>2. script' # Idle("rollback failed")
        BY <4>1
      <4>3. ~Apply(TRUE, script.to, script.from)
        BY ApplyScript DEF DeployInv, UnderWay
      <4>4. QED
        BY <4>2, <4>3 DEF Unhealthy
    <3>5. ~(Kill \/ MarkFails)
      BY <3>1, IdleScript DEF Kill, MarkFails
    <3>6. QED
      BY <3>2, <3>3, <3>4, <3>5 DEF DeployNext
  <2>2. script.at = "health" /\ Serves(running) /\ UNCHANGED <<head, running>>
    BY <2>1 DEF Healthy
  <2>3. QED
    BY <2>2 DEF DeployInv, AtTarget
<1>2. QED
  BY <1>1, DeployInvariant, PTL DEF DeploySpec, SaysWhatRuns
=============================================================================
