---------------------------- MODULE CodeVersion ----------------------------
(***************************************************************************)
(* What live jump patches promise: the site has one version at a time,     *)
(* apply and revert switch it in one step or are refused for a reason that *)
(* is true in that step, at most one of them runs at a time, and an        *)
(* instruction executed at the site is of the current version.  A thread   *)
(* may also meet a guard, or run an instruction behind the displaced ones, *)
(* which is the same in both versions.                                     *)
(***************************************************************************)
CONSTANTS Writers, Executors
VARIABLES
  version,   \* the version of the site
  op,        \* what each writer asked for last
  res,       \* "busy" while it runs, then its result
  ran        \* what each executor's last instruction was

vars == <<version, op, res, ran>>

From(o) == IF o = "apply" THEN "old" ELSE "new"
To(o)   == IF o = "apply" THEN "new" ELSE "old"

Init == /\ version = "old"
        /\ op = [w \in Writers |-> "apply"]
        /\ res = [w \in Writers |-> "none"]
        /\ ran = [e \in Executors |-> "none"]

Quiet == \A w \in Writers : res[w] # "busy"

Call(w, o, r) == /\ res[w] # "busy"
                 /\ op' = [op EXCEPT ![w] = o]
                 /\ res' = [res EXCEPT ![w] = r]

Start(w, o)  == Quiet /\ Call(w, o, "busy") /\ UNCHANGED <<version, ran>>
Refuse(w, o) == Call(w, o, "contended") /\ UNCHANGED <<version, ran>>

\* The publication's one visible step, and its result.
Effect(o, r) == \/ version = From(o) /\ version' = To(o) /\ r = "ok"
                \/ version = To(o) /\ version' = version /\ r = "mismatch"

Complete(w) == \E r \in {"ok", "mismatch"} :
  /\ res[w] = "busy"
  /\ Effect(op[w], r)
  /\ res' = [res EXCEPT ![w] = r]
  /\ UNCHANGED <<op, ran>>

\* A quiescent publication starts and completes in one step.
AtOnce(w, o) == \E r \in {"ok", "mismatch"} :
  Quiet /\ Call(w, o, r) /\ Effect(o, r) /\ UNCHANGED ran

Run(e) == /\ \E r \in {version, "tail", "trap"} : ran' = [ran EXCEPT ![e] = r]
          /\ UNCHANGED <<version, op, res>>

Next == \/ \E w \in Writers, o \in {"apply", "revert"} :
             Start(w, o) \/ Refuse(w, o) \/ AtOnce(w, o)
        \/ \E w \in Writers : Complete(w)
        \/ \E e \in Executors : Run(e)

Spec == Init /\ [][Next]_vars
=============================================================================
