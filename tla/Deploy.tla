------------------------------- MODULE Deploy -------------------------------
(***************************************************************************)
(* deploy/auto-deploy.sh, run every minute by systemd: when origin/master  *)
(* moved, bring the checkout, the dependencies and the dashboard to it,    *)
(* restart the service, ask for its health, and roll back when it does not *)
(* answer.  The shell ignores errexit inside apply, called as a condition: *)
(* a command that fails there does not end it, and the next one runs on    *)
(* what it left.  Outside apply, a command that fails ends the script.     *)
(*                                                                         *)
(* A commit is its number on master.  The refusals of a modified checkout  *)
(* and of a rewritten master, which change nothing, are left out.          *)
(***************************************************************************)
EXTENDS Naturals

CONSTANTS
    TouchesDeps,    \* commits that change package.json or bun.lock
    TouchesUi,      \* commits that change src/ui
    Sound,          \* commits that answer /health with their dependencies
    MaxCommits,     \* bound: commits pushed
    MaxKills        \* bound: kills of the script, reboots and crashes of the service

(* What a model's values of the constants satisfy.                          *)
DeployConstantsOK ==
    MaxCommits \in Nat \ {0} /\ MaxKills \in Nat /\ Sound \subseteq 1..MaxCommits

VARIABLES
    origin,         \* origin/master
    head,           \* the checkout
    deps, dist,     \* the commits node_modules and src/ui/dist are of
    running,        \* the service process: its commit and dependencies; None, down
    failed,         \* FAILED_FILE; None, no such file
    script,         \* the script: where it is, and the arguments of apply
    stepFailed,     \* history: the commands of this apply that failed
    kills           \* kills so far

deployVars == <<origin, head, deps, dist, running, failed, script, stepFailed, kills>>

Commit == 1..MaxCommits
None == 0
Down == [commit |-> None, deps |-> None]
Command == {"reset", "install", "build", "restart"}
Partial == MaxCommits + 1               \* a build that broke off
Idle(outcome) == [at |-> "idle", rollback |-> FALSE, from |-> None, to |-> None,
                  outcome |-> outcome]

DeployInit ==
    /\ origin = 1 /\ head = 1 /\ deps = 1 /\ dist = 1
    /\ running = [commit |-> 1, deps |-> 1]
    /\ failed = None /\ script = Idle("none") /\ stepFailed = {} /\ kills = 0

(* git diff between two commits, over the paths that paths' commits touch.  *)
Changed(a, b, paths) ==
    \E c \in paths : (a < c /\ c <= b) \/ (b < c /\ c <= a)

(* The process starts and finds the packages it imports.                    *)
Serves(process) ==
    process.commit \in Sound /\ ~Changed(process.deps, process.commit, TouchesDeps)

To(at) == script' = [script EXCEPT !.at = at]
Fails(command) == stepFailed' = stepFailed \union {command}

----------------------------------------------------------------------------
Push ==
    /\ origin < MaxCommits
    /\ origin' = origin + 1
    /\ UNCHANGED <<head, deps, dist, running, failed, script, stepFailed, kills>>

Apply(rollback, from, to) ==
    /\ script' = [at |-> "reset", rollback |-> rollback, from |-> from, to |-> to,
                  outcome |-> "none"]
    /\ stepFailed' = {}

(* The timer: nothing to do when the checkout is at origin/master, or that  *)
(* commit has failed before.                                                *)
Start ==
    /\ script.at = "idle" /\ head # origin /\ failed # origin
    /\ Apply(FALSE, head, origin)
    /\ UNCHANGED <<origin, head, deps, dist, running, failed, kills>>

Reset ==
    /\ script.at = "reset"
    /\ head' = script.to /\ To("install")
    /\ UNCHANGED <<origin, deps, dist, running, failed, stepFailed, kills>>

(* git leaves HEAD and the files where they were.                           *)
ResetFails ==
    /\ script.at = "reset" /\ To("install") /\ Fails("reset")
    /\ UNCHANGED <<origin, head, deps, dist, running, failed, kills>>

Install ==
    /\ script.at = "install" /\ To("build")
    /\ IF Changed(script.from, script.to, TouchesDeps)
       THEN \/ deps' = head /\ UNCHANGED stepFailed
            \/ deps' = deps /\ Fails("install")
       ELSE UNCHANGED <<deps, stepFailed>>
    /\ UNCHANGED <<origin, head, dist, running, failed, kills>>

(* build_ui: dist makes place for dist.next, whatever became of dist.next.  *)
Build ==
    /\ script.at = "build" /\ To("restart")
    /\ IF Changed(script.from, script.to, TouchesUi) \/ dist = None
       THEN \/ dist' = head /\ UNCHANGED stepFailed
            \/ dist' \in {head, None, Partial} /\ Fails("build")
       ELSE UNCHANGED <<dist, stepFailed>>
    /\ UNCHANGED <<origin, head, deps, running, failed, kills>>

\* Mutant of Restart: the service is left running.
RestartNothing ==
    /\ script.at = "restart" /\ To("health")
    /\ UNCHANGED <<origin, head, deps, dist, running, failed, stepFailed, kills>>

Restart ==
    /\ script.at = "restart" /\ To("health")
    /\ running' = [commit |-> head, deps |-> deps]
    /\ UNCHANGED <<origin, head, deps, dist, failed, stepFailed, kills>>

(* systemctl gives up before or after it stopped the old process.           *)
RestartFails ==
    /\ script.at = "restart" /\ To("health") /\ Fails("restart")
    /\ running' \in {running, Down}
    /\ UNCHANGED <<origin, head, deps, dist, failed, kills>>

(* The old process answers /health, too.  The script has said deployed when *)
(* it removes the mark, and ends there if that fails.                       *)
Healthy ==
    /\ script.at = "health" /\ Serves(running)
    /\ IF script.rollback
       THEN script' = Idle("rolled back") /\ UNCHANGED failed
       ELSE script' = Idle("deployed") /\ failed' \in {None, failed}
    /\ UNCHANGED <<origin, head, deps, dist, running, stepFailed, kills>>

\* Mutant of Unhealthy: the commit that failed is not remembered.
UnhealthyForgets ==
    /\ script.at = "health"
    /\ IF script.rollback
       THEN script' = Idle("rollback failed") /\ UNCHANGED stepFailed
       ELSE Apply(TRUE, script.to, script.from)
    /\ UNCHANGED <<origin, head, deps, dist, running, failed, kills>>

(* Thirty seconds without an answer, which a sound service may miss, too.   *)
Unhealthy ==
    /\ script.at = "health"
    /\ IF script.rollback
       THEN script' = Idle("rollback failed") /\ UNCHANGED <<failed, stepFailed>>
       ELSE Apply(TRUE, script.to, script.from) /\ failed' = script.to
    /\ UNCHANGED <<origin, head, deps, dist, running, kills>>

(* The mark cannot be written (its file may be left empty), and errexit,    *)
(* on again outside apply, ends the script before it rolls back.            *)
MarkFails ==
    /\ script.at = "health" /\ ~script.rollback
    /\ script' = Idle("none") /\ failed' \in {None, failed}
    /\ UNCHANGED <<origin, head, deps, dist, running, stepFailed, kills>>

(* TimeoutStartSec, a reboot, or an exit of the service, which systemd      *)
(* starts again from what the checkout holds.                               *)
Kill ==
    /\ kills < MaxKills /\ kills' = kills + 1
    /\ \/ script' = Idle("none") /\ script.at # "idle" /\ UNCHANGED running
       \/ script' = Idle("none") /\ running' = [commit |-> head, deps |-> deps]
       \/ UNCHANGED script /\ running' = [commit |-> head, deps |-> deps]
    /\ UNCHANGED <<origin, head, deps, dist, failed, stepFailed>>

DeployNext ==
    \/ Push \/ Start \/ Reset \/ ResetFails \/ Install \/ Build
    \/ Restart \/ RestartFails \/ Healthy \/ Unhealthy \/ MarkFails \/ Kill

(* The timer fires and the script's commands return, failed or not.         *)
Step ==
    \/ Start \/ Reset \/ ResetFails \/ Install \/ Build
    \/ Restart \/ RestartFails \/ Healthy \/ Unhealthy \/ MarkFails

DeploySpec == DeployInit /\ [][DeployNext]_deployVars /\ WF_deployVars(Step)

----------------------------------------------------------------------------
DeployTypeOK ==
    /\ {origin, head, deps} \subseteq Commit
    /\ dist \in 0..Partial /\ failed \in 0..MaxCommits
    /\ running \in [commit : 0..MaxCommits, deps : 0..MaxCommits]
    /\ script \in [at : {"idle", "reset", "install", "build", "restart", "health"},
                   rollback : BOOLEAN, from : 0..MaxCommits, to : 0..MaxCommits,
                   outcome : {"none", "deployed", "rolled back", "rollback failed"}]
    /\ stepFailed \subseteq Command /\ kills \in 0..MaxKills

(* A run of the script that says deployed, or rolled back, leaves a service *)
(* that answers, whatever failed.  It runs the checkout unless systemctl    *)
(* could not restart it, and the checkout is the commit the script names    *)
(* unless git could not reset it.                                           *)
SaysWhatRuns ==
    [][script.at # "idle" /\ script'.outcome \in {"deployed", "rolled back"} =>
          /\ Serves(running')
          /\ "restart" \notin stepFailed => running'.commit = head'
          /\ "reset" \notin stepFailed => head' = script.to]_deployVars

(* Once master rests, so does the script, unless resets or marks go on      *)
(* failing: no commit is deployed, and the service bounced, again and again. *)
(* If nothing was killed and the last restart succeeded, the service then   *)
(* runs master's commit, or that commit is marked failed.                   *)
ComesToRest ==
    <>[][~ResetFails /\ ~MarkFails]_deployVars =>
    <>[](/\ script.at = "idle"
         /\ kills = 0 /\ "restart" \notin stepFailed =>
                running.commit = origin \/ failed = origin)

(* deploy/README.md lines 23-24, "If any step fails it rolls back to the    *)
(* previous commit", and auto-deploy.sh line 6.                             *)
FailureRollsBack == script.outcome = "deployed" => stepFailed = {}
=============================================================================
