--------------------------- MODULE SignalRouter ---------------------------
(***************************************************************************)
(* Installation of the process-wide SIGTRAP router and its delegation of   *)
(* traps that are not guards: prepare, prepare_with_signal_runtime,        *)
(* install_handler, handle_trap and chain_previous in src/src/trap.rs.     *)
(*                                                                         *)
(* Threads start one after the other, prepare live patching in either mode *)
(* and meet SIGTRAPs: the guards of live patches, once one preparation has *)
(* succeeded, and signals of other origin at any time.  The application    *)
(* changes the disposition with its own sigaction calls, never once the    *)
(* router is installed.  AppRaces says whether it also does so while an    *)
(* installation runs in another thread.                                    *)
(***************************************************************************)
EXTENDS Integers, FiniteSets

CONSTANTS Threads, AppRaces

ASSUME AppRacesAssumption == AppRaces \in BOOLEAN

VARIABLES
  mode, result, previous,  \* INSTALL_MODE, INSTALL_RESULT, PREVIOUS_ACTION
  kernel,                  \* the SIGTRAP disposition in force
  replaced,                \* the disposition in force when the router came
  started, blocked,        \* threads running; threads with SIGTRAP blocked
  call, want, seen,        \* preparation in progress: its step, its mode,
  answer,                  \*   the action it was told; the last result
  trap,                    \* the SIGTRAP each thread has to take
  fate                     \* what ended the process, if anything

once   == <<mode, result, previous>>
local  == <<call, want, seen, answer>>
sigs   == <<started, blocked, trap>>
vars   == <<once, kernel, replaced, local, sigs, fate>>

Sentinels == {"default", "ignore"}
Running   == {"query", "install", "hostInstall", "publish", "restoreMask"}

Init ==
  /\ mode = "unset" /\ result = "unset" /\ previous = "unset"
  /\ kernel \in Sentinels \cup {"custom"} /\ replaced = "none"
  /\ started \in {{t} : t \in Threads} /\ blocked = {}
  /\ call = [t \in Threads |-> "idle"] /\ want = [t \in Threads |-> "none"]
  /\ seen = [t \in Threads |-> "none"] /\ answer = [t \in Threads |-> "none"]
  /\ trap = [t \in Threads |-> "none"]
  /\ fate = "alive"

\* A thread runs its own code: it is not inside a signal handler.  A trap that
\* is merely pending does not stop it.
Runs(t) == fate = "alive" /\ t \in started /\ trap[t] \in {"none", "other"}

Installing == \E t \in Threads : call[t] \in Running

\* The host prepares its runtime before it has a second thread.
HostPreparing == \E t \in Threads : want[t] = "Runtime" /\ call[t] # "idle"

-----------------------------------------------------------------------------
(* prepare and prepare_with_signal_runtime.                                *)

Return(t, what) ==
  /\ answer' = [answer EXCEPT ![t] = what]
  /\ call' = [call EXCEPT ![t] = "idle"]

\* INSTALL_MODE is set by the first call; a second standalone call joins it.
Joins(m) == mode = "unset" \/ (m = "Standalone" /\ mode = m)

Prepare(t, m) ==
  /\ Runs(t) /\ call[t] = "idle"
  /\ m = "Runtime" => started = {t}
  /\ want' = [want EXCEPT ![t] = m]
  /\ IF Joins(m)
     THEN /\ mode' = IF mode = "unset" THEN m ELSE mode
          /\ call' = [call EXCEPT ![t] = "once"]
          /\ UNCHANGED answer
     ELSE Return(t, "EALREADY") /\ UNCHANGED mode
  /\ UNCHANGED <<result, previous, kernel, replaced, seen, sigs, fate>>

FirstCall(t) ==
  /\ result = "unset"
  /\ result' = "running"
  /\ call' = [call EXCEPT ![t] = IF mode = "Runtime" THEN "hostInstall" ELSE "query"]
  /\ UNCHANGED answer

\* Mutation of Once: a caller does not wait for the one that installs.
OnceUnwaited(t) ==
  /\ Runs(t) /\ call[t] = "once"
  /\ \/ FirstCall(t)
     \/ result \in {"running", "ok"} /\ Return(t, "ok") /\ UNCHANGED result
  /\ UNCHANGED <<mode, previous, kernel, replaced, want, seen, sigs, fate>>
\* get_or_init: one caller installs, in the mode that was set, the others
\* wait for its result.
Once(t) ==
  /\ Runs(t) /\ call[t] = "once"
  /\ \/ FirstCall(t)
     \/ result \notin {"unset", "running"} /\ Return(t, result) /\ UNCHANGED result
  /\ UNCHANGED <<mode, previous, kernel, replaced, want, seen, sigs, fate>>

-----------------------------------------------------------------------------
(* install_handler.                                                        *)

\* Mutation of Admitted: a custom handler is taken over.
AdmitAll(action) == action # "router"
Admitted(action) == action \in Sentinels

\* Mutation of Finish: a refusal leaves the once cell empty-handed.
FinishOk(t, what) ==
  /\ result' = IF what = "ok" THEN what ELSE result
  /\ Return(t, what)
Finish(t, what) == result' = what /\ Return(t, what)

\* Mutation of Query: the previous action is taken to be the default.
QueryAssumesDefault(t) ==
  /\ Runs(t) /\ call[t] = "query"
  /\ \/ /\ Admitted(kernel) /\ previous' = "default"
        /\ call' = [call EXCEPT ![t] = "install"]
        /\ UNCHANGED <<result, answer>>
     \/ ~Admitted(kernel) /\ Finish(t, "EPERM") /\ UNCHANGED previous
     \/ Finish(t, "errno") /\ UNCHANGED previous
  /\ UNCHANGED <<mode, kernel, replaced, want, seen, sigs, fate>>
\* Standalone: the first sigaction call only asks, or fails; the previous action
\* is published before the router can be entered.
Query(t) ==
  /\ Runs(t) /\ call[t] = "query"
  /\ \/ /\ Admitted(kernel) /\ previous' = kernel
        /\ call' = [call EXCEPT ![t] = "install"]
        /\ UNCHANGED <<result, answer>>
     \/ ~Admitted(kernel) /\ Finish(t, "EPERM") /\ UNCHANGED previous
     \/ Finish(t, "errno") /\ UNCHANGED previous
  /\ UNCHANGED <<mode, kernel, replaced, want, seen, sigs, fate>>

\* The second sigaction call installs the router over what is there by now, or
\* fails.
Install(t) ==
  /\ Runs(t) /\ call[t] = "install"
  /\ \/ kernel' = "router" /\ replaced' = kernel /\ Finish(t, "ok")
     \/ UNCHANGED <<kernel, replaced>> /\ Finish(t, "errno")
  /\ UNCHANGED <<mode, previous, want, seen, sigs, fate>>

\* Mutation of MaskDuring: the host callback returns with SIGTRAP unblocked.
MaskNothing(t) == blocked
MaskDuring(t)  == blocked \cup {t}

\* Runtime: the host blocks SIGTRAP in the caller and installs, or reports an
\* error.  Refusing a custom handler is its duty, and the code does not rely
\* on it.
HostInstall(t) ==
  /\ Runs(t) /\ call[t] = "hostInstall"
  /\ \/ /\ seen' = [seen EXCEPT ![t] = kernel]
        /\ kernel' = "router" /\ replaced' = kernel
        /\ blocked' = MaskDuring(t)
        /\ call' = [call EXCEPT ![t] = "publish"]
        /\ UNCHANGED <<result, answer>>
     \/ Finish(t, "errno") /\ UNCHANGED <<seen, kernel, replaced, blocked>>
  /\ UNCHANGED <<mode, previous, want, started, trap, fate>>

\* The action the host reported becomes visible to the router, unless it is a
\* custom handler: then the mask is restored, as far as the host can, and the
\* caller is refused although the router stays.
Publish(t) ==
  /\ Runs(t) /\ call[t] = "publish"
  /\ IF Admitted(seen[t])
     THEN /\ previous' = seen[t]
          /\ call' = [call EXCEPT ![t] = "restoreMask"]
          /\ UNCHANGED <<result, answer, blocked>>
     ELSE /\ blocked' \in {blocked, blocked \ {t}}
          /\ Finish(t, "EPERM") /\ UNCHANGED previous
  /\ UNCHANGED <<mode, kernel, replaced, want, seen, started, trap, fate>>

\* The host restores the mask, which may fail: the caller is told, although
\* the router stays.
RestoreMask(t) ==
  /\ Runs(t) /\ call[t] = "restoreMask"
  /\ \/ blocked' = blocked \ {t} /\ Finish(t, "ok")
     \/ UNCHANGED blocked /\ Finish(t, "errno")
  /\ UNCHANGED <<mode, previous, kernel, replaced, want, seen, started, trap, fate>>

-----------------------------------------------------------------------------
(* The process.                                                            *)

Start(t) ==
  /\ fate = "alive" /\ t \notin started /\ ~HostPreparing
  /\ started' = started \cup {t}
  /\ UNCHANGED <<once, kernel, replaced, local, blocked, trap, fate>>

GivingUp == \E t \in Threads : trap[t] = "raised"

\* sigaction by the application.
SetAction(action) ==
  /\ fate = "alive" /\ kernel # "router" /\ action # kernel
  /\ ~GivingUp /\ ~HostPreparing
  /\ Installing => AppRaces
  /\ kernel' = action
  /\ UNCHANGED <<once, replaced, local, sigs, fate>>

\* A SIGTRAP that no guard raised.
OtherTrap(t) ==
  /\ fate = "alive" /\ t \in started /\ trap[t] = "none"
  /\ trap' = [trap EXCEPT ![t] = "other"]
  /\ UNCHANGED <<once, kernel, replaced, local, started, blocked, fate>>

\* Live patches exist once a preparation has succeeded; any thread that runs
\* application code may meet a guard of theirs.
GuardTrap(t) ==
  /\ Runs(t) /\ trap[t] = "none" /\ call[t] = "idle"
  /\ \E u \in Threads : answer[u] = "ok"
  /\ trap' = [trap EXCEPT ![t] = "guard"]
  /\ UNCHANGED <<once, kernel, replaced, local, started, blocked, fate>>

Dies(why) == fate' = why /\ UNCHANGED trap

\* The kernel delivers a trap.  A guard is a synchronous exception: blocked or
\* ignored, it kills.
Deliver(t) ==
  /\ fate = "alive"
  /\ \/ /\ trap[t] = "guard"
        /\ IF kernel = "router" /\ t \notin blocked
           THEN trap' = [trap EXCEPT ![t] = "none"] /\ UNCHANGED fate
           ELSE Dies(IF GivingUp THEN "default" ELSE "guard")
     \/ /\ trap[t] = "other" /\ t \notin blocked
        /\ IF kernel = "default"
           THEN Dies("default")
           ELSE /\ trap' = [trap EXCEPT ![t] = IF kernel = "router" THEN "chain" ELSE "none"]
                /\ UNCHANGED fate
     \/ /\ trap[t] = "raised" /\ Dies("default")
  /\ UNCHANGED <<once, kernel, replaced, local, started, blocked>>

\* chain_previous: an ignored action returns, a default one is put back and
\* raised, which the callback of a host may fail to do; anything else exits.
Chain(t) ==
  /\ fate = "alive" /\ trap[t] = "chain"
  /\ \/ /\ previous = "ignore"
        /\ trap' = [trap EXCEPT ![t] = "none"] /\ UNCHANGED <<kernel, fate>>
     \/ /\ previous = "default"
        /\ kernel' = "default"
        /\ trap' = [trap EXCEPT ![t] = "raised"] /\ UNCHANGED fate
     \/ /\ previous = "default" /\ mode = "Runtime"
        /\ Dies("hostFailed") /\ UNCHANGED kernel
     \/ /\ previous \notin Sentinels
        /\ Dies("exit") /\ UNCHANGED kernel
  /\ UNCHANGED <<once, replaced, local, started, blocked>>

-----------------------------------------------------------------------------
Preparation(t) ==
  \/ Once(t) \/ Query(t) \/ Install(t)
  \/ HostInstall(t) \/ Publish(t) \/ RestoreMask(t)

Next ==
  \/ \E t \in Threads :
       \/ \E m \in {"Standalone", "Runtime"} : Prepare(t, m)
       \/ Preparation(t)
       \/ Start(t) \/ OtherTrap(t) \/ GuardTrap(t) \/ Deliver(t) \/ Chain(t)
  \/ \E action \in Sentinels \cup {"custom"} : SetAction(action)

Spec == Init /\ [][Next]_vars

\* Threads are scheduled and the kernel delivers what is not blocked.  Strong
\* fairness of a preparation: a signal may interrupt each of its steps, but
\* not for ever.
Fairness == \A t \in Threads :
  SF_vars(Preparation(t)) /\ WF_vars(Deliver(t)) /\ WF_vars(Chain(t))

FairSpec == Spec /\ Fairness

-----------------------------------------------------------------------------
(* Properties.                                                             *)

Actions == Sentinels \cup {"custom"}
Results == {"ok", "EPERM", "errno"}

\* Every variable keeps its type; in particular the previous action is never
\* the router itself, to which it would delegate for ever.
TypeOK ==
  /\ mode \in {"unset", "Standalone", "Runtime"}
  /\ result \in Results \cup {"unset", "running"}
  /\ previous \in Actions \cup {"unset"}
  /\ kernel \in Actions \cup {"router"} /\ replaced \in Actions \cup {"none", "router"}
  /\ started \subseteq Threads /\ blocked \subseteq Threads
  /\ call \in [Threads -> Running \cup {"idle", "once"}]
  /\ want \in [Threads -> {"none", "Standalone", "Runtime"}]
  /\ seen \in [Threads -> Actions \cup {"none"}]
  /\ answer \in [Threads -> Results \cup {"none", "EALREADY"}]
  /\ trap \in [Threads -> {"none", "guard", "other", "chain", "raised"}]
  /\ fate \in {"alive", "default", "guard", "exit", "hostFailed"}

\* Once any preparation has reported success, no guard kills the process or
\* reaches a handler that does not know it, in whichever thread it is met.
NoGuardLost == fate # "guard"

\* The router never meets a foreign trap before the previous action is
\* published: the fail-closed exit of chain_previous is for hosts that replaced
\* a custom handler.
NoFailClosed == fate = "exit" => mode = "Runtime" /\ replaced = "custom"

\* The two modes exclude each other: a host that was told of success owns the
\* router, whatever other callers did before.
OneMode ==
  \A t \in Threads : answer[t] = "ok" /\ call[t] = "idle" => want[t] = mode

\* What callers are told and what the router meets agree with its modes.
RouterInv == TypeOK /\ NoFailClosed /\ OneMode

\* "Unknown traps are delegated to the disposition we replaced"
\* (src/src/trap.rs:770): what the router believes is what it replaced.
DelegatesToReplaced == kernel = "router" /\ previous # "unset" => previous = replaced

\* Standalone installation refuses a custom handler without replacing it
\* (src/README.md:161).
CustomIsKept ==
  [][mode = "Standalone" /\ kernel = "custom" => kernel' # "router"]_vars

\* Every preparation returns, those that wait for another caller included.
PreparationReturns ==
  \A t \in Threads : call[t] = "once" ~> (call[t] = "idle" \/ fate # "alive")
=============================================================================
