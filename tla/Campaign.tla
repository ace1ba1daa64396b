------------------------------ MODULE Campaign ------------------------------
(***************************************************************************)
(* The driver of the native assembly campaign (src/tools/a2-campaign/      *)
(* driver.py): it runs the calibrations and then every case in workers of  *)
(* an external runner, inspects the control groups the workers leave, and  *)
(* writes one of two receipts.  Termination signals arrive at any time,    *)
(* the runner loses, repeats or abandons workers, and the pathname of a    *)
(* removed control group is taken by a stranger.                           *)
(*                                                                         *)
(* A control group is identified by its generation: the worker that it was *)
(* made for, or "stranger"; its scope is part of the pathname.  Exceptions *)
(* enter their handler and set TERMINATING in one step: the interpreter    *)
(* the driver needs (tomllib) looks for signals at calls and loops only.   *)
(* The specification's own names carry the module's, so that a module of   *)
(* theorems can extend it next to another.                                 *)
(***************************************************************************)
EXTENDS Integers, FiniteSets

CONSTANTS
  Cases,              \* the campaign's inputs, k for seed k-1; calibrations are 0
  Workers             \* worker processes the runner may start

ASSUME CampaignAssumption ==
  Cases \subseteq Nat \ {0} /\ {"stranger", "none"} \cap Workers = {}

Seeds == Cases \cup {0}
Nobody == "none"

VARIABLES
  pc, phase,          \* the driver: its statement and phase
  terminating,        \* TERMINATING
  runner,             \* the runner: "none", "running", "zero", "nonzero"
  report,             \* its receipt, runner.command.json
  faults,             \* stop_process: a signal or wait has failed
  todo, fd, record,   \* inspect_leftovers: receipts left, open group, records
  seed, at,           \* per worker: its seed, and where it is
  group,              \* per seed: the generation at its group's pathname
  live, dying,        \* generations that hold processes; that were killed
  launch,             \* per seed: the generation in its launch receipt
  executed,           \* per seed: native executions
  calibrated,         \* calibrations-passed.json exists
  complete, failed    \* complete.json and failed-incomplete.json exist

driver == <<pc, phase, terminating, todo, fd, record, complete, failed>>
command == <<runner, report, faults>>
workers == <<seed, at, launch, executed, calibrated>>
groups == <<group, live, dying>>
campaignVars == <<driver, command, workers, groups>>

CampaignInit ==
  /\ pc = "phase" /\ phase = "calibrations" /\ terminating = FALSE
  /\ runner = "none" /\ report = "none" /\ faults = FALSE
  /\ todo = {} /\ fd = Nobody /\ record = [s \in Seeds |-> "none"]
  /\ seed = [w \in Workers |-> 0] /\ at = [w \in Workers |-> "unborn"]
  /\ group = [s \in Seeds |-> Nobody] /\ live = {} /\ dying = {}
  /\ launch = [s \in Seeds |-> Nobody]
  /\ executed = [s \in Seeds |-> 0]
  /\ calibrated = FALSE /\ complete = FALSE /\ failed = FALSE

-----------------------------------------------------------------------------
(* The runner and its workers.                                             *)

SeedsOf(ph) == IF ph = "calibrations" THEN {0} ELSE Cases

Spawn(w, s) ==
  /\ runner = "running" /\ at[w] = "unborn"
  /\ s \in SeedsOf(phase) /\ group[s] = Nobody
  /\ seed' = [seed EXCEPT ![w] = s] /\ at' = [at EXCEPT ![w] = "spawned"]
  /\ group' = [group EXCEPT ![s] = w] /\ live' = live \cup {w}
  /\ UNCHANGED <<driver, command, launch, executed, calibrated, dying>>

\* The runner returns when its workers have; or it crashes, or leaves them
\* behind when it is told to terminate.
Busy == \E w \in Workers : at[w] \in {"spawned", "launched", "running"}
RunnerEnds ==
  /\ runner = "running"
  /\ runner' \in IF Busy THEN {"nonzero"} ELSE {"zero", "nonzero"}
  /\ UNCHANGED <<driver, report, faults, workers, groups>>

\* A worker that fails ends its processes.
WorkerFails(w) ==
  /\ at' = [at EXCEPT ![w] = "failed"] /\ live' = live \ {w}
  /\ UNCHANGED <<driver, command, seed, group, dying, launch, executed, calibrated>>

\* The launch receipt is written before native code runs, and only once; the
\* frozen identity or the box may be refused.
Launch(w) ==
  /\ at[w] = "spawned"
  /\ \/ /\ launch[seed[w]] = Nobody
        /\ launch' = [launch EXCEPT ![seed[w]] = w]
        /\ at' = [at EXCEPT ![w] = "launched"]
        /\ UNCHANGED <<driver, command, groups, seed, executed, calibrated>>
     \/ WorkerFails(w)

\* The case is executed, if it has no results yet, or the calibrations are.
Execute(w) ==
  /\ at[w] = "launched"
  /\ \/ /\ executed[seed[w]] = 0
        /\ executed' = [executed EXCEPT ![seed[w]] = @ + 1]
        /\ at' = [at EXCEPT ![w] = "running"]
        /\ UNCHANGED <<driver, command, groups, seed, launch, calibrated>>
     \/ WorkerFails(w)

\* The worker ends, well or not, and perhaps leaves descendants in its group.
Finish(w) ==
  /\ at[w] = "running"
  /\ at' \in {[at EXCEPT ![w] = "ok"], [at EXCEPT ![w] = "failed"]}
  /\ calibrated' = (calibrated \/ (seed[w] = 0 /\ at'[w] = "ok"))
  /\ live' \in {live, live \ {w}}
  /\ UNCHANGED <<driver, command, seed, group, dying, launch, executed>>

\* The processes of a generation end: descendants by themselves, or all of
\* them after cgroup.kill.
Drains(g) ==
  /\ g \in live
  /\ g \in dying \/ (g \in Workers /\ at[g] \in {"ok", "failed"})
  /\ live' = live \ {g}
  /\ at' = IF g \in Workers /\ at[g] \notin {"ok", "failed"}
           THEN [at EXCEPT ![g] = "failed"] ELSE at
  /\ UNCHANGED <<driver, command, seed, launch, executed, calibrated, group, dying>>

\* An empty group is removed; a stranger makes another under a name that a
\* receipt holds.
Remove(s) ==
  /\ group[s] \in Workers \ live
  /\ group' = [group EXCEPT ![s] = Nobody]
  /\ UNCHANGED <<driver, command, workers, live, dying>>
Reuse(s) ==
  /\ group[s] = Nobody /\ launch[s] # Nobody /\ "stranger" \notin live
  /\ group' = [group EXCEPT ![s] = "stranger"] /\ live' = live \cup {"stranger"}
  /\ UNCHANGED <<driver, command, workers, dying>>

-----------------------------------------------------------------------------
(* The driver.                                                             *)

Goto(where) ==
  /\ pc' = where
  /\ UNCHANGED <<phase, terminating, todo, fd, record, complete, failed>>
Elsewhere == UNCHANGED <<command, workers, groups>>

\* inspect_leftovers lists the receipts first.
Listing == {s \in Seeds : launch[s] # Nobody}
List(where) ==
  /\ pc' = where /\ todo' = Listing /\ fd' = Nobody
  /\ record' = [s \in Seeds |-> IF s \in Listing THEN "listed" ELSE "none"]

\* The finally clause of run: later signals wait.
Fail ==
  /\ List("cleanup") /\ terminating' = TRUE
  /\ UNCHANGED <<phase, complete, failed>>

\* Calibrations first, then the frozen identity and the time left.
BeginPhase ==
  /\ pc = "phase"
  /\ \/ (phase = "case" => calibrated) /\ Goto("spawn")
     \/ Fail
  /\ Elsewhere

\* command: the receipt is begun and the runner is started with the signals
\* blocked; or one of the two cannot be.
StartRunner ==
  /\ pc = "spawn"
  /\ \/ Goto("wait") /\ runner' = "running" /\ report' = "incomplete"
     \/ Fail /\ report' \in {report, "incomplete", "stopped"} /\ UNCHANGED runner
  /\ UNCHANGED <<faults, workers, groups>>

\* wait returns; the receipt is written and the report can be parsed, or not.
RunnerReturned ==
  /\ pc = "wait" /\ runner \in {"zero", "nonzero"}
  /\ \/ /\ List("inspect") /\ report' = "exited"
        /\ UNCHANGED <<phase, terminating, complete, failed>>
     \/ Fail /\ report' \in {"exited", "incomplete"}
  /\ UNCHANGED <<runner, faults, workers, groups>>

\* The except clause of command, after the timeout or a signal.
Stop ==
  /\ pc' = "stop" /\ terminating' = TRUE
  /\ UNCHANGED <<phase, todo, fd, record, complete, failed>>
TimedOut == pc = "wait" /\ Stop /\ Elsewhere

\* The receipt says how stopping went, unless it cannot be written; the error
\* that stopped the wait goes on to run.
Reraised(failing) ==
  /\ Fail /\ report' \in {IF failing THEN "errors" ELSE "stopped", "incomplete"}
  /\ faults' = FALSE /\ UNCHANGED <<runner, workers, groups>>

\* killpg: a group that is gone is no error, another failure is recorded.  The
\* runner ends in its own time, if it does, and may start workers until then.
Signalled(next) ==
  /\ Goto(next) /\ faults' \in {faults, TRUE}
  /\ UNCHANGED <<runner, report, workers, groups>>

\* stop_process: nothing is left to do, or SIGTERM is sent.
SendTerm ==
  /\ pc = "stop"
  /\ IF runner = "running" THEN Signalled("term") ELSE Reraised(faults)

\* The runner exits, or the wait for it fails, or it expires and SIGKILL is sent.
AwaitTerm ==
  /\ pc = "term"
  /\ \/ runner # "running" /\ Reraised(faults)
     \/ Reraised(TRUE)
     \/ runner = "running" /\ Signalled("kill")

\* Mutation of AwaitKill: a final wait that fails is not recorded.
AwaitKillAnyway == pc = "kill" /\ Reraised(faults)
\* The runner has ended, or the final wait fails or expires.
AwaitKill ==
  /\ pc = "kill"
  /\ \/ runner # "running" /\ Reraised(faults)
     \/ Reraised(TRUE)

\* cancellation: the first signal unwinds from where the driver is.
Interruptible == pc \in {"phase", "wait", "inspect", "verdict", "final", "finish"}
Cancelled ==
  /\ Interruptible /\ ~terminating
  /\ IF pc = "wait" THEN Stop ELSE Fail
  /\ Elsewhere

-----------------------------------------------------------------------------
(* inspect_leftovers.                                                      *)

Inspecting == pc \in {"inspect", "cleanup"}
Next1 == CHOOSE s \in todo : \A t \in todo : s <= t

\* Mutation of Recorded: an error ends the inspection.
RecordedOrAborted(s, what) ==
  /\ record' = [record EXCEPT ![s] = what]
  /\ todo' = IF what = "error" THEN {} ELSE todo \ {s}
  /\ fd' = Nobody
  /\ UNCHANGED <<pc, phase, terminating, complete, failed>>
Recorded(s, what) ==
  /\ record' = [record EXCEPT ![s] = what] /\ todo' = todo \ {s} /\ fd' = Nobody
  /\ UNCHANGED <<pc, phase, terminating, complete, failed>>

\* Mutation of Authentic: the pathname is trusted.
AnyGeneration(s) == TRUE
\* The directory that was opened is the one in the receipt.
Authentic(s) == group[s] = launch[s]

OpenGroup ==
  /\ Inspecting /\ todo # {} /\ fd = Nobody
  /\ \/ group[Next1] = Nobody /\ Recorded(Next1, "absent")
     \/ group[Next1] # Nobody /\ ~Authentic(Next1) /\ Recorded(Next1, "error")
     \/ /\ group[Next1] # Nobody /\ Authentic(Next1) /\ fd' = group[Next1]
        /\ UNCHANGED <<pc, phase, terminating, todo, record, complete, failed>>
  /\ Elsewhere

\* populated_at, and the kill through the open directory.
KillGroup ==
  /\ Inspecting /\ fd # Nobody /\ record[Next1] = "listed"
  /\ IF fd \notin live THEN Recorded(Next1, "empty") /\ UNCHANGED dying
     ELSE /\ record' = [record EXCEPT ![Next1] = "killed"]
          /\ dying' = dying \cup {fd}
          /\ UNCHANGED <<pc, phase, terminating, todo, fd, complete, failed>>
  /\ UNCHANGED <<command, workers, group, live>>

\* The group drains, or the wait for it expires.
AwaitDrain ==
  /\ Inspecting /\ fd # Nobody /\ record[Next1] = "killed"
  /\ \/ fd \notin live /\ Recorded(Next1, "killed")
     \/ fd \in live /\ Recorded(Next1, "error")
  /\ Elsewhere

-----------------------------------------------------------------------------
(* The verdict.                                                            *)

Inspected ==
  /\ pc = "inspect" /\ todo = {} /\ Goto("verdict") /\ Elsewhere

\* Mutation of Clean: the records are not looked at.
CleanAnyway == TRUE
\* No group was populated and every one was authenticated.
Clean == \A s \in Seeds : record[s] \notin {"killed", "error"}

\* audit_sweep: the report names every input once, and it succeeded.
Audited ==
  \A s \in SeedsOf(phase) :
    \E w \in Workers : /\ seed[w] = s /\ at[w] = "ok"
                       /\ \A v \in Workers : at[v] # "unborn" /\ seed[v] = s => v = w

Judge ==
  /\ pc = "verdict"
  /\ IF Clean /\ runner = "zero" /\ Audited
     THEN /\ pc' = IF phase = "calibrations" THEN "phase" ELSE "final"
          /\ phase' = "case"
          /\ UNCHANGED <<terminating, todo, fd, record, complete, failed>>
     ELSE Fail
  /\ Elsewhere

\* The final audit of the results and their inventory.
FinalAudit ==
  /\ pc = "final"
  /\ \/ (\A s \in Cases : executed[s] > 0) /\ Goto("finish")
     \/ Fail
  /\ Elsewhere

\* complete.json is written; a signal may still come before the call returns.
Complete ==
  /\ pc = "finish" /\ complete' = TRUE
  /\ \/ pc' = "exit" /\ UNCHANGED <<terminating, todo, fd, record>>
     \/ List("cleanup") /\ ~terminating /\ terminating' = TRUE
  /\ UNCHANGED <<phase, failed>> /\ Elsewhere

CleanedUp ==
  /\ pc = "cleanup" /\ todo = {} /\ pc' = "exit" /\ failed' = TRUE
  /\ UNCHANGED <<phase, terminating, todo, fd, record, complete>> /\ Elsewhere

Driver ==
  \/ BeginPhase \/ StartRunner \/ RunnerReturned \/ TimedOut \/ Cancelled
  \/ SendTerm \/ AwaitTerm \/ AwaitKill
  \/ OpenGroup \/ KillGroup \/ AwaitDrain \/ Inspected
  \/ Judge \/ FinalAudit \/ Complete \/ CleanedUp

CampaignNext ==
  \/ Driver \/ RunnerEnds
  \/ \E w \in Workers :
       \/ \E s \in Seeds : Spawn(w, s)
       \/ Launch(w) \/ Execute(w) \/ Finish(w)
  \/ \E g \in live : Drains(g)
  \/ \E s \in Seeds : Remove(s) \/ Reuse(s)

CampaignSpec == CampaignInit /\ [][CampaignNext]_campaignVars

-----------------------------------------------------------------------------
(* Properties.                                                             *)

CampaignTypeOK ==
  /\ pc \in {"phase", "spawn", "wait", "stop", "term", "kill", "inspect", "verdict",
             "final", "finish", "cleanup", "exit"}
  /\ phase \in {"calibrations", "case"}
  /\ terminating \in BOOLEAN /\ calibrated \in BOOLEAN
  /\ complete \in BOOLEAN /\ failed \in BOOLEAN
  /\ runner \in {"none", "running", "zero", "nonzero"} /\ faults \in BOOLEAN
  /\ report \in {"none", "incomplete", "exited", "stopped", "errors"}
  /\ todo \subseteq Seeds /\ fd \in Workers \cup {"stranger", Nobody}
  /\ record \in [Seeds -> {"none", "listed", "absent", "empty", "killed", "error"}]
  /\ seed \in [Workers -> Seeds]
  /\ at \in [Workers -> {"unborn", "spawned", "launched", "running", "ok", "failed"}]
  /\ group \in [Seeds -> Workers \cup {"stranger", Nobody}]
  /\ live \subseteq Workers \cup {"stranger"} /\ dying \subseteq Workers \cup {"stranger"}
  /\ launch \in [Seeds -> Workers \cup {Nobody}]
  /\ executed \in [Seeds -> Nat]

\* No input is executed before the calibrations have passed, and none twice,
\* whatever the runner repeats (worker, the exclusive receipts).
InputsOnce ==
  \A s \in Cases : executed[s] > 0 => calibrated /\ executed[s] = 1

\* When complete.json exists every input was executed and its worker succeeded,
\* the runner succeeded, and no process of a worker is left, even if a late
\* signal adds the receipt of a failure.
CompleteIsTrue ==
  complete =>
    /\ runner = "zero" /\ live \cap Workers = {}
    /\ \A s \in Cases : executed[s] = 1
                        /\ \E w \in Workers : seed[w] = s /\ at[w] = "ok"

\* The receipts mean what they say.
VerdictInv == CampaignTypeOK /\ InputsOnce /\ CompleteIsTrue

\* The runner outlives command only with a receipt that was not completed or
\* that names what failed, and a failed campaign leaves no worker whose receipt
\* existed at the cleanup, unless the record of that very group says why not,
\* even when a surviving runner goes on (stop_process, inspect_leftovers).
TornDown ==
  /\ report \in {"exited", "stopped"} => runner # "running"
  /\ pc = "exit" /\ ~complete =>
       \A s \in Seeds : record[s] \notin {"none", "error"} => launch[s] \notin live

\* cgroup.kill only ever reaches generations the launch receipts name, however
\* often a pathname is reused between the steps of the inspection.
OnlyOwnKilled ==
  [][dying' \ dying \subseteq {launch[s] : s \in Seeds}]_campaignVars
=============================================================================
