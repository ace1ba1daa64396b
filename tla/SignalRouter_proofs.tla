------------------------ MODULE SignalRouter_proofs ------------------------
(***************************************************************************)
(* Proofs about SignalRouter, for every set of threads.                    *)
(***************************************************************************)
EXTENDS SignalRouter, TLAPS

\* The router has replaced an action, and so it is in force, or was until a
\* thread that gave up put the default action back.
Installed == replaced # "none"

Publishing == \E t \in Threads : call[t] = "publish"

\* A preparation in progress has the mode of the process; the one that installs
\* is alone, and its step says what has been asked, installed and published.
CallInv(t) ==
  /\ call[t] # "idle" => want[t] = mode /\ mode # "unset"
  /\ call[t] # "idle" /\ want[t] = "Runtime" => started = {t}
  /\ call[t] \in Running => /\ result = "running"
                            /\ \A u \in Threads : call[u] \in Running => u = t
  /\ call[t] \in {"query", "install"} => mode = "Standalone"
  /\ call[t] \in {"hostInstall", "publish", "restoreMask"} => mode = "Runtime"
  /\ call[t] \in {"query", "install", "hostInstall"} => ~Installed /\ blocked = {}
  /\ call[t] \in {"query", "hostInstall", "publish"} => previous = "unset"
  /\ call[t] = "install" => previous \in Sentinels /\ (~AppRaces => kernel = previous)
  /\ call[t] = "publish" => Installed /\ replaced = seen[t]
  /\ call[t] = "restoreMask" => Installed /\ previous = replaced
  /\ call[t] \in {"publish", "restoreMask"} => blocked = {t}

\* Success is reported for what the once cell holds, in the caller's mode.
AnswerInv(t) ==
  answer[t] = "ok" => result = "ok" /\ (call[t] = "idle" => want[t] = mode)

\* The once cells, the disposition and the published action agree.
CellInv ==
  /\ mode = "unset" => result = "unset"
  /\ result = "unset" => ~Installed /\ previous = "unset"
  /\ result \in {"unset", "ok"} => blocked = {}
  /\ result = "ok" => Installed /\ previous # "unset"
  /\ previous \in Sentinels \cup {"unset"}
  /\ ~Installed => kernel # "router"
  /\ Installed => replaced \in Actions /\ (kernel = "router" \/ GivingUp)
  /\ Installed /\ previous = "unset" =>
       mode = "Runtime" /\ (replaced = "custom" \/ Publishing)
  /\ Installed /\ previous # "unset" /\ ~AppRaces => previous = replaced

\* Guards are met after a success; the router is entered when it is installed
\* and its host is not about to publish the action.
TrapInv(t) ==
  /\ trap[t] # "none" => t \in started
  /\ trap[t] = "guard" => result = "ok"
  /\ trap[t] \in {"chain", "raised"} => Installed /\ ~Publishing

\* The inductive invariant.
IInv ==
  /\ TypeOK /\ CellInv
  /\ \A t \in Threads : CallInv(t) /\ AnswerInv(t) /\ TrapInv(t)
  /\ NoGuardLost /\ NoFailClosed

-----------------------------------------------------------------------------
(* Effects of the helpers.                                                 *)

\* A call that returns is idle and has its answer; no other call is disturbed.
LEMMA ReturnEffect ==
  ASSUME TypeOK, NEW t \in Threads, NEW what \in Results \cup {"EALREADY"},
         Return(t, what)
  PROVE  /\ call' \in [Threads -> Running \cup {"idle", "once"}]
         /\ answer' \in [Threads -> Results \cup {"none", "EALREADY"}]
         /\ call'[t] = "idle" /\ answer'[t] = what
         /\ \A u \in Threads \ {t} : call'[u] = call[u] /\ answer'[u] = answer[u]
BY DEF TypeOK, Return

-----------------------------------------------------------------------------
(* The invariant holds at first and is kept.                               *)

LEMMA InvInit == Init => IInv
<1> SUFFICES ASSUME Init PROVE IInv
  OBVIOUS
<1>1. TypeOK
  BY DEF Init, TypeOK, Actions, Sentinels
<1>2. CellInv
  BY DEF Init, CellInv, Installed, Sentinels
<1>3. ASSUME NEW t \in Threads PROVE CallInv(t) /\ AnswerInv(t) /\ TrapInv(t)
  BY DEF Init, CallInv, AnswerInv, TrapInv, Running
<1>4. NoGuardLost /\ NoFailClosed
  BY DEF Init, NoGuardLost, NoFailClosed
<1> QED
  BY <1>1, <1>2, <1>3, <1>4 DEF IInv

LEMMA KeptByPrepare ==
  ASSUME IInv, NEW t \in Threads, NEW m \in {"Standalone", "Runtime"}, Prepare(t, m)
  PROVE  IInv'
<1> USE DEF IInv
<1>1. /\ want' \in [Threads -> {"none", "Standalone", "Runtime"}] /\ want'[t] = m
      /\ \A u \in Threads \ {t} : want'[u] = want[u]
  BY DEF Prepare, TypeOK
<1>2. CASE Joins(m)
  <2>1. /\ call' \in [Threads -> Running \cup {"idle", "once"}] /\ call'[t] = "once"
        /\ \A u \in Threads \ {t} : call'[u] = call[u]
        /\ answer' = answer /\ mode' = m
    BY <1>2 DEF Prepare, TypeOK, Joins
  <2>2. TypeOK' /\ CellInv'
    BY <1>2, <1>1, <2>1 DEF Prepare, TypeOK, CellInv, Joins, once, local, sigs,
       Installed, Publishing, GivingUp
  <2>3. ASSUME NEW u \in Threads PROVE (CallInv(u) /\ AnswerInv(u))'
    BY <1>2, <1>1, <2>1 DEF Prepare, TypeOK, CellInv, CallInv, AnswerInv, Joins,
       sigs, Installed, Running
  <2>4. ASSUME NEW u \in Threads PROVE TrapInv(u)'
    BY <2>1 DEF Prepare, TrapInv, sigs, Installed, Publishing
  <2>5. NoGuardLost' /\ NoFailClosed'
    BY DEF Prepare, Runs, NoGuardLost, NoFailClosed
  <2> QED
    BY <2>2, <2>3, <2>4, <2>5
<1>3. CASE ~Joins(m)
  <2>1. Return(t, "EALREADY") /\ mode' = mode
    BY <1>3 DEF Prepare
  <2>2. /\ call' \in [Threads -> Running \cup {"idle", "once"}]
        /\ answer' \in [Threads -> Results \cup {"none", "EALREADY"}]
        /\ call'[t] = "idle" /\ answer'[t] = "EALREADY"
        /\ \A u \in Threads \ {t} : call'[u] = call[u] /\ answer'[u] = answer[u]
        /\ call[t] = "idle"
    BY <2>1, ReturnEffect DEF Prepare
  <2>3. TypeOK' /\ CellInv'
    BY <1>1, <2>1, <2>2 DEF Prepare, TypeOK, CellInv, sigs, Installed, Publishing,
       GivingUp
  <2>4. ASSUME NEW u \in Threads PROVE (CallInv(u) /\ AnswerInv(u) /\ TrapInv(u))'
    BY <1>1, <2>1, <2>2 DEF Prepare, CallInv, AnswerInv, TrapInv, sigs, Installed,
       Publishing, Running
  <2>5. NoGuardLost' /\ NoFailClosed'
    BY DEF Prepare, Runs, NoGuardLost, NoFailClosed
  <2> QED
    BY <2>3, <2>4, <2>5
<1> QED
  BY <1>2, <1>3

LEMMA KeptByOnce ==
  ASSUME IInv, NEW t \in Threads, Once(t)
  PROVE  IInv'
<1> USE DEF IInv
<1>1. CASE FirstCall(t)
  <2>1. /\ call' \in [Threads -> Running \cup {"idle", "once"}]
        /\ call'[t] = IF mode = "Runtime" THEN "hostInstall" ELSE "query"
        /\ \A u \in Threads \ {t} : call'[u] = call[u]
        /\ result = "unset" /\ result' = "running" /\ answer' = answer
    BY <1>1 DEF FirstCall, TypeOK, Running
  <2>2. TypeOK'
    BY <2>1 DEF Once, TypeOK, sigs
  <2>6. CellInv'
    BY <2>1 DEF Once, CellInv, CallInv, sigs, Installed
  <2>3. ASSUME NEW u \in Threads PROVE (CallInv(u) /\ AnswerInv(u))'
    BY <2>1 DEF Once, TypeOK, CellInv, CallInv, AnswerInv, sigs, Installed, Running
  <2>4. ASSUME NEW u \in Threads PROVE TrapInv(u)'
    BY <2>1 DEF Once, TrapInv, CellInv, sigs, Installed
  <2>5. NoGuardLost' /\ NoFailClosed'
    BY DEF Once, Runs, NoGuardLost, NoFailClosed
  <2> QED
    BY <2>2, <2>3, <2>4, <2>5, <2>6
<1>2. CASE result \notin {"unset", "running"} /\ Return(t, result) /\ UNCHANGED result
  <2>1. /\ call' \in [Threads -> Running \cup {"idle", "once"}]
        /\ answer' \in [Threads -> Results \cup {"none", "EALREADY"}]
        /\ call'[t] = "idle" /\ answer'[t] = result
        /\ \A u \in Threads \ {t} : call'[u] = call[u] /\ answer'[u] = answer[u]
    BY <1>2, ReturnEffect DEF TypeOK
  <2>2. TypeOK' /\ CellInv'
    BY <1>2, <2>1 DEF Once, TypeOK, CellInv, sigs, Installed, Publishing, GivingUp
  <2>3. ASSUME NEW u \in Threads PROVE (CallInv(u) /\ AnswerInv(u) /\ TrapInv(u))'
    BY <1>2, <2>1 DEF Once, CallInv, AnswerInv, TrapInv, sigs, Installed, Publishing,
       Running
  <2>4. NoGuardLost' /\ NoFailClosed'
    BY DEF Once, Runs, NoGuardLost, NoFailClosed
  <2> QED
    BY <2>2, <2>3, <2>4
<1> QED
  BY <1>1, <1>2 DEF Once

LEMMA KeptByQuery ==
  ASSUME IInv, NEW t \in Threads, Query(t)
  PROVE  IInv'
<1> USE DEF IInv
<1>1. CASE /\ Admitted(kernel) /\ previous' = kernel
           /\ call' = [call EXCEPT ![t] = "install"]
           /\ UNCHANGED <<result, answer>>
  <2>1. /\ call' \in [Threads -> Running \cup {"idle", "once"}] /\ call'[t] = "install"
        /\ \A u \in Threads \ {t} : call'[u] = call[u]
        /\ call[t] = "query" /\ previous' = kernel /\ kernel \in Sentinels
        /\ result' = result /\ answer' = answer
    BY <1>1 DEF Query, TypeOK, Running, Admitted
  <2>2. TypeOK' /\ CellInv'
    BY <2>1 DEF Query, TypeOK, CellInv, CallInv, sigs, Installed, GivingUp, Sentinels,
       Actions
  <2>3. ASSUME NEW u \in Threads PROVE (CallInv(u) /\ AnswerInv(u))'
    BY <2>1 DEF Query, TypeOK, CellInv, CallInv, AnswerInv, sigs, Installed, Running
  <2>4. ASSUME NEW u \in Threads PROVE TrapInv(u)'
    BY <2>1 DEF Query, TrapInv, CallInv, Running, sigs, Installed
  <2>5. NoGuardLost' /\ NoFailClosed'
    BY DEF Query, Runs, NoGuardLost, NoFailClosed
  <2> QED
    BY <2>2, <2>3, <2>4, <2>5
<1>2. ASSUME NEW what \in {"EPERM", "errno"}, Finish(t, what), UNCHANGED previous
      PROVE  IInv'
  <2>1. /\ call' \in [Threads -> Running \cup {"idle", "once"}]
        /\ answer' \in [Threads -> Results \cup {"none", "EALREADY"}]
        /\ call'[t] = "idle" /\ answer'[t] = what
        /\ \A u \in Threads \ {t} : call'[u] = call[u] /\ answer'[u] = answer[u]
        /\ result' = what /\ previous' = previous /\ call[t] = "query"
    BY <1>2, ReturnEffect DEF Query, Finish, Results
  <2>2. TypeOK' /\ CellInv'
    BY <2>1 DEF Query, TypeOK, CellInv, CallInv, sigs, Installed, GivingUp, Results
  <2>3. ASSUME NEW u \in Threads PROVE (CallInv(u) /\ AnswerInv(u))'
    BY <2>1 DEF Query, CallInv, AnswerInv, sigs, Installed, Running
  <2>4. ASSUME NEW u \in Threads PROVE TrapInv(u)'
    BY <2>1 DEF Query, TrapInv, CallInv, AnswerInv, sigs, Installed, Running
  <2>5. NoGuardLost' /\ NoFailClosed'
    BY DEF Query, Runs, NoGuardLost, NoFailClosed
  <2> QED
    BY <2>2, <2>3, <2>4, <2>5
<1> QED
  BY <1>1, <1>2 DEF Query

\* What a call that ends the installation leaves of the once cells.
LEMMA FinishEffect ==
  ASSUME TypeOK, NEW t \in Threads, NEW what \in Results, Finish(t, what)
  PROVE  /\ call' \in [Threads -> Running \cup {"idle", "once"}]
         /\ answer' \in [Threads -> Results \cup {"none", "EALREADY"}]
         /\ call'[t] = "idle" /\ answer'[t] = what /\ result' = what
         /\ \A u \in Threads \ {t} : call'[u] = call[u] /\ answer'[u] = answer[u]
BY ReturnEffect DEF Finish

LEMMA KeptByInstall ==
  ASSUME IInv, NEW t \in Threads, Install(t)
  PROVE  IInv'
<1> USE DEF IInv
<1>0. call[t] = "install" /\ "ok" \in Results /\ "errno" \in Results
  BY DEF Install, Results
<1>1. CASE kernel' = "router" /\ replaced' = kernel /\ Finish(t, "ok")
  <2>1. /\ call' \in [Threads -> Running \cup {"idle", "once"}]
        /\ answer' \in [Threads -> Results \cup {"none", "EALREADY"}]
        /\ call'[t] = "idle" /\ answer'[t] = "ok" /\ result' = "ok"
        /\ \A u \in Threads \ {t} : call'[u] = call[u] /\ answer'[u] = answer[u]
    BY <1>0, <1>1, FinishEffect
  <2>2. kernel \in Actions /\ ~Installed /\ previous \in Sentinels /\ blocked = {}
    BY <1>0 DEF TypeOK, CellInv, CallInv
  <2>3. TypeOK' /\ CellInv'
    BY <1>0, <1>1, <2>1, <2>2 DEF Install, TypeOK, CellInv, CallInv, sigs, Installed,
       Results, Actions, Sentinels
  <2>4. ASSUME NEW u \in Threads PROVE (CallInv(u) /\ AnswerInv(u))'
    BY <1>0, <1>1, <2>1 DEF Install, CallInv, AnswerInv, sigs, Installed, Running
  <2>5. ASSUME NEW u \in Threads PROVE TrapInv(u)'
    BY <2>1, <2>2 DEF Install, TrapInv, sigs
  <2>6. NoGuardLost' /\ NoFailClosed'
    BY DEF Install, Runs, NoGuardLost, NoFailClosed
  <2> QED
    BY <2>3, <2>4, <2>5, <2>6
<1>2. CASE UNCHANGED <<kernel, replaced>> /\ Finish(t, "errno")
  <2>1. /\ call' \in [Threads -> Running \cup {"idle", "once"}]
        /\ answer' \in [Threads -> Results \cup {"none", "EALREADY"}]
        /\ call'[t] = "idle" /\ answer'[t] = "errno" /\ result' = "errno"
        /\ \A u \in Threads \ {t} : call'[u] = call[u] /\ answer'[u] = answer[u]
    BY <1>0, <1>2, FinishEffect
  <2>2. TypeOK' /\ CellInv'
    BY <1>0, <1>2, <2>1 DEF Install, TypeOK, CellInv, CallInv, sigs, Installed, Results,
       Publishing, GivingUp
  <2>3. ASSUME NEW u \in Threads PROVE (CallInv(u) /\ AnswerInv(u))'
    BY <1>0, <1>2, <2>1 DEF Install, CallInv, AnswerInv, sigs, Installed, Running
  <2>4. ASSUME NEW u \in Threads PROVE TrapInv(u)'
    BY <1>0, <1>2, <2>1 DEF Install, TrapInv, CallInv, AnswerInv, sigs, Installed, Running
  <2>5. NoGuardLost' /\ NoFailClosed'
    BY DEF Install, Runs, NoGuardLost, NoFailClosed
  <2> QED
    BY <2>2, <2>3, <2>4, <2>5
<1> QED
  BY <1>1, <1>2 DEF Install

\* The installation through a host: before it, the caller is the only thread and
\* takes no trap; after it, SIGTRAP is blocked in it until the action is known.
LEMMA KeptByHostInstall ==
  ASSUME IInv, NEW t \in Threads, HostInstall(t)
  PROVE  IInv'
<1> USE DEF IInv
<1>0. call[t] = "hostInstall" /\ "errno" \in Results
  BY DEF HostInstall, Results
<1>1. /\ started = {t} /\ mode = "Runtime" /\ blocked = {} /\ ~Installed
      /\ previous = "unset" /\ result = "running" /\ kernel \in Actions
      /\ \A u \in Threads : trap[u] \in {"none", "other"}
  <2>1. /\ want[t] = mode /\ mode = "Runtime" /\ started = {t} /\ blocked = {}
        /\ ~Installed /\ previous = "unset" /\ result = "running"
    BY <1>0 DEF CallInv, Running
  <2>2. kernel \in Actions
    BY <2>1 DEF CellInv, TypeOK
  <2>3. ASSUME NEW u \in Threads PROVE trap[u] \in {"none", "other"}
    BY <2>1 DEF HostInstall, Runs, TrapInv
  <2> QED
    BY <2>1, <2>2, <2>3
<1>2. CASE /\ seen' = [seen EXCEPT ![t] = kernel]
           /\ kernel' = "router" /\ replaced' = kernel
           /\ blocked' = MaskDuring(t)
           /\ call' = [call EXCEPT ![t] = "publish"]
           /\ UNCHANGED <<result, answer>>
  <2>1. /\ call' \in [Threads -> Running \cup {"idle", "once"}] /\ call'[t] = "publish"
        /\ \A u \in Threads \ {t} : call'[u] = call[u]
        /\ seen' \in [Threads -> Actions \cup {"none"}] /\ seen'[t] = kernel
        /\ \A u \in Threads \ {t} : seen'[u] = seen[u]
        /\ blocked' = {t}
    BY <1>1, <1>2 DEF TypeOK, Running, MaskDuring
  <2>2. TypeOK'
    BY <1>1, <1>2, <2>1 DEF HostInstall, TypeOK
  <2>3. CellInv'
    BY <1>1, <1>2, <2>1 DEF HostInstall, CellInv, Installed, Publishing, Actions, Sentinels
  <2>4. ASSUME NEW u \in Threads PROVE (CallInv(u) /\ AnswerInv(u))'
    BY <1>0, <1>1, <1>2, <2>1 DEF HostInstall, CallInv, AnswerInv, Running, Installed,
       Actions, Sentinels
  <2>5. ASSUME NEW u \in Threads PROVE TrapInv(u)'
    BY <1>1, <1>2 DEF HostInstall, TrapInv
  <2>6. NoGuardLost' /\ NoFailClosed'
    BY DEF HostInstall, Runs, NoGuardLost, NoFailClosed
  <2> QED
    BY <2>2, <2>3, <2>4, <2>5, <2>6
<1>3. CASE Finish(t, "errno") /\ UNCHANGED <<seen, kernel, replaced, blocked>>
  <2>1. /\ call' \in [Threads -> Running \cup {"idle", "once"}]
        /\ answer' \in [Threads -> Results \cup {"none", "EALREADY"}]
        /\ call'[t] = "idle" /\ answer'[t] = "errno" /\ result' = "errno"
        /\ \A u \in Threads \ {t} : call'[u] = call[u] /\ answer'[u] = answer[u]
    BY <1>0, <1>3, FinishEffect
  <2>2. TypeOK'
    BY <1>0, <1>3, <2>1 DEF HostInstall, TypeOK
  <2>3. CellInv'
    BY <1>1, <1>3, <2>1 DEF HostInstall, CellInv, Installed
  <2>4. ASSUME NEW u \in Threads PROVE (CallInv(u) /\ AnswerInv(u))'
    BY <1>0, <1>1, <1>3, <2>1 DEF HostInstall, CallInv, AnswerInv, Running, Installed
  <2>5. ASSUME NEW u \in Threads PROVE TrapInv(u)'
    BY <1>1 DEF HostInstall, TrapInv
  <2>6. NoGuardLost' /\ NoFailClosed'
    BY DEF HostInstall, Runs, NoGuardLost, NoFailClosed
  <2> QED
    BY <2>2, <2>3, <2>4, <2>5, <2>6
<1> QED
  BY <1>2, <1>3 DEF HostInstall

LEMMA KeptByPublish ==
  ASSUME IInv, NEW t \in Threads, Publish(t)
  PROVE  IInv'
<1> USE DEF IInv
<1>0. call[t] = "publish" /\ "EPERM" \in Results
  BY DEF Publish, Results
<1>1. /\ Installed /\ replaced = seen[t] /\ blocked = {t} /\ mode = "Runtime"
      /\ previous = "unset" /\ result = "running"
      /\ \A u \in Threads : trap[u] \notin {"guard", "chain", "raised"}
  BY <1>0 DEF CallInv, TrapInv, Running, Publishing
<1>2. CASE Admitted(seen[t])
  <2>1. /\ call' \in [Threads -> Running \cup {"idle", "once"}]
        /\ call'[t] = "restoreMask"
        /\ \A u \in Threads \ {t} : call'[u] = call[u]
        /\ previous' = seen[t] /\ seen[t] \in Sentinels
        /\ result' = result /\ answer' = answer /\ blocked' = blocked
    BY <1>2 DEF Publish, TypeOK, Running, Admitted
  <2>2. TypeOK'
    BY <2>1 DEF Publish, TypeOK, Actions
  <2>3. CellInv'
    BY <1>1, <2>1 DEF Publish, CellInv, Installed, GivingUp, Sentinels
  <2>4. ASSUME NEW u \in Threads PROVE (CallInv(u) /\ AnswerInv(u))'
    BY <1>0, <1>1, <2>1 DEF Publish, CallInv, AnswerInv, Running, Installed
  <2>5. ASSUME NEW u \in Threads PROVE TrapInv(u)'
    BY <1>1, <2>1 DEF Publish, TrapInv
  <2>6. NoGuardLost' /\ NoFailClosed'
    BY DEF Publish, Runs, NoGuardLost, NoFailClosed
  <2> QED
    BY <2>2, <2>3, <2>4, <2>5, <2>6
<1>3. CASE ~Admitted(seen[t])
  <2>1. /\ call' \in [Threads -> Running \cup {"idle", "once"}]
        /\ answer' \in [Threads -> Results \cup {"none", "EALREADY"}]
        /\ call'[t] = "idle" /\ answer'[t] = "EPERM" /\ result' = "EPERM"
        /\ \A u \in Threads \ {t} : call'[u] = call[u] /\ answer'[u] = answer[u]
        /\ blocked' \in {blocked, blocked \ {t}} /\ previous' = previous
    BY <1>0, <1>3, FinishEffect DEF Publish
  <2>2. replaced = "custom"
    BY <1>1, <1>3 DEF Admitted, TypeOK, CellInv, Actions, Sentinels
  <2>3. TypeOK'
    BY <2>1 DEF Publish, TypeOK, Results
  <2>4. CellInv'
    BY <1>1, <2>1, <2>2 DEF Publish, CellInv, Installed, GivingUp
  <2>5. ASSUME NEW u \in Threads PROVE (CallInv(u) /\ AnswerInv(u))'
    BY <1>0, <1>1, <2>1 DEF Publish, CallInv, AnswerInv, Running, Installed
  <2>6. ASSUME NEW u \in Threads PROVE TrapInv(u)'
    BY <1>1, <2>1 DEF Publish, TrapInv
  <2>7. NoGuardLost' /\ NoFailClosed'
    BY DEF Publish, Runs, NoGuardLost, NoFailClosed
  <2> QED
    BY <2>3, <2>4, <2>5, <2>6, <2>7
<1> QED
  BY <1>2, <1>3

LEMMA KeptByRestoreMask ==
  ASSUME IInv, NEW t \in Threads, RestoreMask(t)
  PROVE  IInv'
<1> USE DEF IInv
<1>0. call[t] = "restoreMask" /\ "errno" \in Results /\ "ok" \in Results
  BY DEF RestoreMask, Results
<1>1. Installed /\ previous = replaced /\ blocked = {t} /\ result = "running"
  BY <1>0 DEF CallInv, Running
<1>2. PICK what \in Results : /\ Finish(t, what)
                              /\ blocked' \in {blocked, blocked \ {t}}
                              /\ what = "ok" => blocked' = blocked \ {t}
  BY <1>0 DEF RestoreMask
<1>3. /\ call' \in [Threads -> Running \cup {"idle", "once"}]
      /\ answer' \in [Threads -> Results \cup {"none", "EALREADY"}]
      /\ call'[t] = "idle" /\ answer'[t] = what /\ result' = what
      /\ \A u \in Threads \ {t} : call'[u] = call[u] /\ answer'[u] = answer[u]
  BY <1>2, FinishEffect
<1>4. TypeOK'
  BY <1>2, <1>3 DEF RestoreMask, TypeOK
<1>5. previous # "unset"
  BY <1>1 DEF CellInv, Actions, Sentinels
<1>6. CellInv'
  BY <1>1, <1>2, <1>3, <1>5 DEF RestoreMask, CellInv, CallInv, Running, Installed, GivingUp,
     Results
<1>7. ASSUME NEW u \in Threads PROVE (CallInv(u) /\ AnswerInv(u))'
  BY <1>0, <1>1, <1>3 DEF RestoreMask, CallInv, AnswerInv, Running, Installed
<1>8. ASSUME NEW u \in Threads PROVE TrapInv(u)'
  BY <1>0, <1>1, <1>3 DEF RestoreMask, TrapInv, CallInv, Installed, Publishing, Running
<1>9. NoGuardLost' /\ NoFailClosed'
  BY DEF RestoreMask, Runs, NoGuardLost, NoFailClosed
<1> QED
  BY <1>4, <1>6, <1>7, <1>8, <1>9

LEMMA KeptByStart ==
  ASSUME IInv, NEW t \in Threads, Start(t)
  PROVE  IInv'
<1> USE DEF IInv
<1>1. TypeOK' /\ CellInv'
  BY DEF Start, TypeOK, CellInv, once, local, Installed, Publishing, GivingUp
<1>2. ASSUME NEW u \in Threads PROVE (CallInv(u) /\ AnswerInv(u))'
  BY DEF Start, HostPreparing, CallInv, AnswerInv, once, local, Installed
<1>3. ASSUME NEW u \in Threads PROVE TrapInv(u)'
  BY DEF Start, TrapInv, once, local, Installed, Publishing
<1>4. NoGuardLost' /\ NoFailClosed'
  BY DEF Start, NoGuardLost, NoFailClosed
<1> QED
  BY <1>1, <1>2, <1>3, <1>4

\* The application owns the disposition until the router comes: once it is
\* installed, it is in force or a thread is giving up.
LEMMA KeptBySetAction ==
  ASSUME IInv, NEW action \in Actions, SetAction(action)
  PROVE  IInv'
<1> USE DEF IInv
<1>1. ~Installed
  BY DEF SetAction, CellInv
<1>2. TypeOK' /\ CellInv'
  BY <1>1 DEF SetAction, TypeOK, CellInv, once, local, sigs, Installed, Actions, Sentinels
<1>3. ASSUME NEW u \in Threads PROVE CallInv(u)'
  BY DEF SetAction, CallInv, Installing, Running, once, local, sigs, Installed
<1>4. ASSUME NEW u \in Threads PROVE (AnswerInv(u) /\ TrapInv(u))'
  BY DEF SetAction, AnswerInv, TrapInv, once, local, sigs, Installed, Publishing
<1>5. NoGuardLost' /\ NoFailClosed'
  BY DEF SetAction, NoGuardLost, NoFailClosed
<1> QED
  BY <1>2, <1>3, <1>4, <1>5

\* A step that changes the trap of one thread, and at most takes the disposition
\* from the router because that thread gives up.
LEMMA TrapKept ==
  ASSUME IInv, NEW t \in Threads,
         NEW what \in {"none", "guard", "other", "chain", "raised"},
         trap' = [trap EXCEPT ![t] = what], trap[t] # "raised",
         UNCHANGED <<once, replaced, local, started, blocked, fate>>, t \in started,
         what = "guard" => result = "ok",
         what \in {"chain", "raised"} => Installed /\ ~Publishing,
         kernel' = kernel \/ (kernel' = "default" /\ what = "raised")
  PROVE  IInv'
<1> USE DEF IInv
<1>1. /\ trap' \in [Threads -> {"none", "guard", "other", "chain", "raised"}]
      /\ trap'[t] = what /\ \A u \in Threads \ {t} : trap'[u] = trap[u]
  BY DEF TypeOK
<1>2. TypeOK'
  BY <1>1 DEF TypeOK, once, local, Actions, Sentinels
<1>3. CellInv'
  BY <1>1 DEF CellInv, once, local, Installed, Publishing, GivingUp
<1>4. ASSUME NEW u \in Threads PROVE (CallInv(u) /\ AnswerInv(u))'
  BY DEF CallInv, AnswerInv, once, local, Installed
<1>5. ASSUME NEW u \in Threads PROVE TrapInv(u)'
  BY <1>1 DEF TrapInv, once, local, Installed, Publishing
<1>6. NoGuardLost' /\ NoFailClosed'
  BY DEF NoGuardLost, NoFailClosed, once
<1> QED
  BY <1>2, <1>3, <1>4, <1>5, <1>6

\* A step that ends the process and changes nothing else.
LEMMA DeathKept ==
  ASSUME IInv, NEW why \in {"default", "exit", "hostFailed"}, Dies(why),
         UNCHANGED <<once, kernel, replaced, local, started, blocked>>,
         why = "exit" => mode = "Runtime" /\ replaced = "custom"
  PROVE  IInv'
<1> USE DEF IInv
<1>1. TypeOK' /\ CellInv'
  BY DEF Dies, TypeOK, CellInv, once, local, Installed, Publishing, GivingUp
<1>2. ASSUME NEW u \in Threads PROVE (CallInv(u) /\ AnswerInv(u) /\ TrapInv(u))'
  BY DEF Dies, CallInv, AnswerInv, TrapInv, once, local, Installed, Publishing
<1>3. NoGuardLost' /\ NoFailClosed'
  BY DEF Dies, NoGuardLost, NoFailClosed, once
<1> QED
  BY <1>1, <1>2, <1>3

LEMMA KeptByTraps ==
  ASSUME IInv, NEW t \in Threads, OtherTrap(t) \/ GuardTrap(t)
  PROVE  IInv'
<1>1. CASE OtherTrap(t)
  BY <1>1, TrapKept DEF OtherTrap, sigs
<1>2. CASE GuardTrap(t)
  <2>1. result = "ok"
    BY <1>2 DEF GuardTrap, IInv, AnswerInv
  <2> QED
    BY <1>2, <2>1, TrapKept DEF GuardTrap, Runs
<1> QED
  BY <1>1, <1>2

\* A guard is met after a success, and then the router is in force and nothing
\* is blocked, or a thread has put the default action back to die.  The router
\* is not entered for another trap before the action is published, for its host
\* is the only thread and has SIGTRAP blocked.
LEMMA KeptByDeliver ==
  ASSUME IInv, NEW t \in Threads, Deliver(t)
  PROVE  IInv'
<1>1. CASE trap[t] = "guard"
  <2>1. t \notin blocked /\ (kernel = "router" \/ GivingUp) /\ t \in started
    BY <1>1 DEF IInv, TrapInv, CellInv
  <2>2. CASE kernel = "router"
    BY <1>1, <2>1, <2>2, TrapKept DEF Deliver
  <2>3. CASE kernel # "router"
    BY <1>1, <2>1, <2>3, DeathKept DEF Deliver
  <2> QED
    BY <2>2, <2>3
<1>2. CASE trap[t] = "other"
  <2>1. t \notin blocked /\ t \in started
    BY <1>2 DEF IInv, TrapInv, Deliver
  <2>2. CASE kernel = "default"
    BY <1>2, <2>2, DeathKept DEF Deliver
  <2>3. CASE kernel = "router"
    <3>1. Installed /\ ~Publishing
      BY <2>1, <2>3 DEF IInv, CellInv, CallInv, Publishing
    <3> QED
      BY <1>2, <2>1, <2>3, <3>1, TrapKept DEF Deliver
  <2>4. CASE kernel \notin {"default", "router"}
    BY <1>2, <2>1, <2>4, TrapKept DEF Deliver
  <2> QED
    BY <2>2, <2>3, <2>4
<1>3. CASE trap[t] = "raised"
  BY <1>3, DeathKept DEF Deliver
<1> QED
  BY <1>1, <1>2, <1>3 DEF Deliver

LEMMA KeptByChain ==
  ASSUME IInv, NEW t \in Threads, Chain(t)
  PROVE  IInv'
<1>1. trap[t] = "chain" /\ t \in started /\ Installed /\ ~Publishing
  BY DEF IInv, TrapInv, Chain
<1>2. CASE previous = "ignore" /\ trap' = [trap EXCEPT ![t] = "none"]
           /\ UNCHANGED <<kernel, fate>>
  BY <1>1, <1>2, TrapKept DEF Chain
<1>3. CASE kernel' = "default" /\ trap' = [trap EXCEPT ![t] = "raised"]
           /\ UNCHANGED fate
  BY <1>1, <1>3, TrapKept DEF Chain
<1>4. CASE Dies("hostFailed") /\ UNCHANGED kernel
  BY <1>4, DeathKept DEF Chain
<1>5. CASE previous \notin Sentinels /\ Dies("exit") /\ UNCHANGED kernel
  <2>1. mode = "Runtime" /\ replaced = "custom"
    BY <1>1, <1>5 DEF IInv, CellInv
  <2> QED
    BY <1>5, <2>1, DeathKept DEF Chain
<1> QED
  BY <1>2, <1>3, <1>4, <1>5 DEF Chain

LEMMA KeptByStuttering ==
  ASSUME IInv, UNCHANGED vars
  PROVE  IInv'
<1> USE DEF IInv, vars, once, local, sigs
<1>1. TypeOK' /\ CellInv'
  BY DEF TypeOK, CellInv, Installed, Publishing, GivingUp
<1>2. ASSUME NEW u \in Threads PROVE (CallInv(u) /\ AnswerInv(u) /\ TrapInv(u))'
  BY DEF CallInv, AnswerInv, TrapInv, Installed, Publishing
<1>3. NoGuardLost' /\ NoFailClosed'
  BY DEF NoGuardLost, NoFailClosed
<1> QED
  BY <1>1, <1>2, <1>3

\* The invariant holds in every state, whether or not the application races.
THEOREM Invariant == Spec => []IInv
<1>1. IInv /\ [Next]_vars => IInv'
  <2> SUFFICES ASSUME IInv, [Next]_vars PROVE IInv'
    OBVIOUS
  <2>1. ASSUME NEW t \in Threads, Preparation(t) PROVE IInv'
    BY <2>1, KeptByOnce, KeptByQuery, KeptByInstall, KeptByHostInstall, KeptByPublish,
       KeptByRestoreMask DEF Preparation
  <2>2. ASSUME NEW t \in Threads, NEW m \in {"Standalone", "Runtime"}, Prepare(t, m)
        PROVE  IInv'
    BY <2>2, KeptByPrepare
  <2>3. ASSUME NEW t \in Threads,
               Start(t) \/ OtherTrap(t) \/ GuardTrap(t) \/ Deliver(t) \/ Chain(t)
        PROVE  IInv'
    BY <2>3, KeptByStart, KeptByTraps, KeptByDeliver, KeptByChain
  <2>4. ASSUME NEW action \in Actions, SetAction(action) PROVE IInv'
    BY <2>4, KeptBySetAction
  <2>5. CASE UNCHANGED vars
    BY <2>5, KeptByStuttering
  <2> QED
    BY <2>1, <2>2, <2>3, <2>4, <2>5 DEF Next, Actions
<1> QED
  BY InvInit, <1>1, PTL DEF Spec

-----------------------------------------------------------------------------
(* What follows.                                                           *)

\* The router exits on a foreign trap only where a host replaced a custom
\* handler, and a success is reported in the mode of the process: prepare and
\* prepare_with_signal_runtime exclude each other.
THEOREM RouterAgrees == Spec => []RouterInv
<1>1. IInv => RouterInv
  BY DEF IInv, RouterInv, OneMode, AnswerInv
<1> QED
  BY <1>1, Invariant, PTL

\* After a success no guard kills the process or reaches another handler, in
\* any thread, whatever the application and other callers do.
THEOREM GuardsAreCaught == Spec => []NoGuardLost
<1>1. IInv => NoGuardLost
  BY DEF IInv
<1> QED
  BY <1>1, Invariant, PTL

\* Unless the application changes the disposition during an installation, the
\* router delegates to the action it replaced.
THEOREM Delegates == ~AppRaces => (Spec => []DelegatesToReplaced)
<1> SUFFICES ASSUME ~AppRaces PROVE Spec => []DelegatesToReplaced
  OBVIOUS
<1>1. IInv => DelegatesToReplaced
  BY DEF IInv, CellInv, DelegatesToReplaced, Installed
<1> QED
  BY <1>1, Invariant, PTL

\* Unless the application changes the disposition during an installation, a
\* standalone router never takes the place of a custom handler.
THEOREM CustomStays == ~AppRaces => (Spec => CustomIsKept)
<1> SUFFICES ASSUME ~AppRaces PROVE Spec => CustomIsKept
  OBVIOUS
<1>1. ASSUME IInv, [Next]_vars, mode = "Standalone", kernel = "custom"
      PROVE  kernel' # "router"
  <2>1. ASSUME NEW t \in Threads, Preparation(t) PROVE kernel' # "router"
    BY <1>1, <2>1 DEF IInv, CallInv, Preparation, Once, Query, Install, HostInstall,
       Publish, RestoreMask, Sentinels
  <2>2. ASSUME NEW t \in Threads, NEW m \in {"Standalone", "Runtime"}, Prepare(t, m)
        PROVE  kernel' # "router"
    BY <1>1, <2>2 DEF Prepare
  <2>3. ASSUME NEW t \in Threads,
               Start(t) \/ OtherTrap(t) \/ GuardTrap(t) \/ Deliver(t) \/ Chain(t)
        PROVE  kernel' # "router"
    BY <1>1, <2>3 DEF Start, OtherTrap, GuardTrap, Deliver, Chain
  <2>4. ASSUME NEW action \in Actions, SetAction(action) PROVE kernel' # "router"
    BY <2>4 DEF SetAction, Actions, Sentinels
  <2>5. CASE UNCHANGED vars
    BY <1>1, <2>5 DEF vars
  <2> QED
    BY <1>1, <2>1, <2>2, <2>3, <2>4, <2>5 DEF Next, Actions
<1>2. IInv /\ [Next]_vars =>
        [mode = "Standalone" /\ kernel = "custom" => kernel' # "router"]_vars
  BY <1>1
<1> QED
  BY <1>2, Invariant, PTL DEF Spec, CustomIsKept
=============================================================================
