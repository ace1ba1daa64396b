----------------------------- MODULE SyncBatch -----------------------------
(***************************************************************************)
(* The synchronized publication protocol: SynchronizedBatch in             *)
(* src/src/patcher/synchronized.rs over the barriers of                    *)
(* src/src/sync_core.rs.                                                   *)
(*                                                                         *)
(* A batch takes the writer lease of every member, then publishes guards,  *)
(* back words and front words of all members with a process-wide           *)
(* instruction barrier after each of the three.  Verification and barriers *)
(* may fail at any advance, a handle may be dropped between two advances,  *)
(* and executors run through the members all the while, holding fetched    *)
(* bytes for as long as no barrier serializes them.  A member displaces    *)
(* one instruction, so its head is the only entry.                         *)
(***************************************************************************)
EXTENDS Integers

CONSTANTS
  Members,    \* bound patches, by address; their envelopes are disjoint
  Split,      \* the members that a cache-line boundary cuts
  Batches,    \* batch handles
  Executors

ASSUME MembersAssumption ==
  Members \subseteq Nat /\ Members # {} /\ Split \subseteq Members
ASSUME BatchesAssumption == "none" \notin Batches

VARIABLES
  front, back,  \* versions of each member's two halves, or "guard"
  lease,        \* which batch holds each TrapSite in WRITING, if any
  chosen, dir,  \* the members and direction of each batch
  phase,        \* Receipt::phase, and the stages before a batch exists
  todo,         \* members the current store loop has not reached
  mutated, syncs, failure, dropped,
  epc, at, inF, inB, ran

memory == <<front, back>>
bvars  == <<lease, chosen, dir, phase, todo, mutated, syncs, failure, dropped>>
evars  == <<epc, at, inF, inB, ran>>
vars   == <<memory, bvars, evars>>

Version == {"old", "new"}
Expected(d)    == IF d = "Apply" THEN "old" ELSE "new"
Replacement(d) == IF d = "Apply" THEN "new" ELSE "old"

StorePhases   == {"Prepared", "GuardsSynchronized", "BacksSynchronized"}
BarrierPhases == {"GuardsPublished", "BacksPublished", "FrontsPublished"}
Live          == StorePhases \cup BarrierPhases

\* Mutation of NextPhase: no barrier between the guards and the back words.
SkipGuardBarrier(p) ==
  CASE p = "Prepared"           -> "GuardsSynchronized"
    [] p = "GuardsSynchronized" -> "BacksPublished"
    [] p = "BacksPublished"     -> "BacksSynchronized"
    [] p = "BacksSynchronized"  -> "FrontsPublished"
    [] p = "FrontsPublished"    -> "Complete"

NextPhase(p) ==
  CASE p = "Prepared"           -> "GuardsPublished"
    [] p = "GuardsPublished"    -> "GuardsSynchronized"
    [] p = "GuardsSynchronized" -> "BacksPublished"
    [] p = "BacksPublished"     -> "BacksSynchronized"
    [] p = "BacksSynchronized"  -> "FrontsPublished"
    [] p = "FrontsPublished"    -> "Complete"

First(S) == CHOOSE m \in S : \A n \in S : m <= n

HeldBy(b) == {m \in Members : lease[m] = b}
Released(b) == [m \in Members |-> IF lease[m] = b THEN "none" ELSE lease[m]]

Init ==
  /\ front = [m \in Members |-> "old"] /\ back = [m \in Members |-> "old"]
  /\ lease = [m \in Members |-> "none"]
  /\ chosen = [b \in Batches |-> {}]
  /\ dir = [b \in Batches |-> "Apply"]
  /\ phase = [b \in Batches |-> "absent"]
  /\ todo = [b \in Batches |-> {}]
  /\ mutated = [b \in Batches |-> FALSE]
  /\ syncs = [b \in Batches |-> 0]
  /\ failure = [b \in Batches |-> FALSE]
  /\ dropped = [b \in Batches |-> FALSE]
  /\ epc = [e \in Executors |-> "out"]
  /\ at = [e \in Executors |-> CHOOSE m \in Members : TRUE]
  /\ inF = [e \in Executors |-> "none"] /\ inB = [e \in Executors |-> "none"]
  /\ ran = [e \in Executors |-> "none"]

-----------------------------------------------------------------------------
(* SynchronizedBatch::prepare.                                             *)

\* The call with its members; sorting, overlap and router checks pass.
Prepare(b, S, d) ==
  /\ phase[b] = "absent"
  /\ chosen' = [chosen EXCEPT ![b] = S]
  /\ dir' = [dir EXCEPT ![b] = d]
  /\ todo' = [todo EXCEPT ![b] = S]
  /\ phase' = [phase EXCEPT ![b] = "acquiring"]
  /\ UNCHANGED <<memory, lease, mutated, syncs, failure, dropped, evars>>

\* The batch is gone; every lease it holds is released.
Discard(b) ==
  /\ lease' = Released(b)
  /\ phase' = [phase EXCEPT ![b] = "absent"]
  /\ todo' = [todo EXCEPT ![b] = {}]
  /\ chosen' = [chosen EXCEPT ![b] = {}]
  /\ dir' = [dir EXCEPT ![b] = "Apply"]
  /\ mutated' = [mutated EXCEPT ![b] = FALSE]
  /\ syncs' = [syncs EXCEPT ![b] = 0]
  /\ failure' = [failure EXCEPT ![b] = FALSE]

\* begin_jump for the next member in address order; an error drops the batch
\* under construction.
Acquire(b) ==
  /\ phase[b] = "acquiring" /\ todo[b] # {}
  /\ LET m == First(todo[b])
     IN  IF lease[m] = "none"
         THEN /\ lease' = [lease EXCEPT ![m] = b]
              /\ todo' = [todo EXCEPT ![b] = @ \ {m}]
              /\ UNCHANGED <<phase, chosen, dir, mutated, syncs, failure>>
         ELSE Discard(b)
  /\ UNCHANGED <<memory, dropped, evars>>

\* With every lease held, every member's live bytes are compared.
Preflight(b) ==
  /\ phase[b] = "acquiring" /\ todo[b] = {}
  /\ IF \A m \in chosen[b] : front[m] = Expected(dir[b])
                             /\ back[m] = Expected(dir[b])
     THEN /\ phase' = [phase EXCEPT ![b] = "Prepared"]
          /\ UNCHANGED <<lease, todo, chosen, dir, mutated, syncs, failure>>
     ELSE Discard(b)
  /\ UNCHANGED <<memory, dropped, evars>>

-----------------------------------------------------------------------------
(* SynchronizedBatch::advance.                                             *)

Ready(b) == ~failure[b] /\ ~dropped[b] /\ todo[b] = {}

\* Mutation of Stores: the front loop, too, runs over split members only.
SplitOnly(b, p) == chosen[b] \cap Split

\* guards and backs concern split members only, fronts all of them.
Stores(b, p) == IF p = "BacksSynchronized" THEN chosen[b]
                                           ELSE chosen[b] \cap Split

\* A store phase: mutated is recorded before the first store.
StartStores(b) ==
  /\ phase[b] \in StorePhases /\ Ready(b)
  /\ mutated' = [mutated EXCEPT ![b] = @ \/ Stores(b, phase[b]) # {}]
  /\ todo' = [todo EXCEPT ![b] = Stores(b, phase[b])]
  /\ phase' = IF Stores(b, phase[b]) = {}
              THEN [phase EXCEPT ![b] = NextPhase(@)] ELSE phase
  /\ UNCHANGED <<memory, lease, chosen, dir, syncs, failure, dropped, evars>>

\* One store of the loop, visible to executors at once.
StoreNext(b) ==
  /\ phase[b] \in StorePhases /\ todo[b] # {}
  /\ LET m == First(todo[b])
         v == Replacement(dir[b])
     IN  /\ CASE phase[b] = "Prepared" ->
                   front' = [front EXCEPT ![m] = "guard"] /\ UNCHANGED back
              [] phase[b] = "GuardsSynchronized" ->
                   back' = [back EXCEPT ![m] = v] /\ UNCHANGED front
              [] phase[b] = "BacksSynchronized" ->
                   /\ front' = [front EXCEPT ![m] = v]
                   /\ back' = IF m \in Split THEN back
                                             ELSE [back EXCEPT ![m] = v]
         /\ todo' = [todo EXCEPT ![b] = @ \ {m}]
         /\ phase' = IF todo[b] = {m} THEN [phase EXCEPT ![b] = NextPhase(@)]
                                      ELSE phase
  /\ UNCHANGED <<lease, chosen, dir, mutated, syncs, failure, dropped, epc, at,
                 inF, inB, ran>>

\* Mutation of Barrier: the last barrier does not release the leases.
BarrierKeepsLeases(b) ==
  /\ phase[b] \in BarrierPhases /\ Ready(b)
  /\ inF' = [e \in Executors |-> "none"]
  /\ inB' = [e \in Executors |-> "none"]
  /\ syncs' = [syncs EXCEPT ![b] = @ + 1]
  /\ phase' = [phase EXCEPT ![b] = NextPhase(@)]
  /\ UNCHANGED <<memory, lease, chosen, dir, todo, mutated, failure, dropped,
                 epc, at, ran>>

\* A successful barrier: no executor keeps anything it had fetched.  The last
\* one commits every member and releases its lease.
Barrier(b) ==
  /\ phase[b] \in BarrierPhases /\ Ready(b)
  /\ inF' = [e \in Executors |-> "none"]
  /\ inB' = [e \in Executors |-> "none"]
  /\ syncs' = [syncs EXCEPT ![b] = @ + 1]
  /\ phase' = [phase EXCEPT ![b] = NextPhase(@)]
  /\ lease' = IF phase[b] = "FrontsPublished" THEN Released(b) ELSE lease
  /\ UNCHANGED <<memory, chosen, dir, todo, mutated, failure, dropped, epc, at,
                 ran>>

\* Mutation of Fail: every failure releases the leases.
FailReleases(b) ==
  /\ phase[b] \in Live /\ Ready(b)
  /\ failure' = [failure EXCEPT ![b] = TRUE]
  /\ lease' = Released(b)
  /\ UNCHANGED <<memory, chosen, dir, phase, todo, mutated, syncs, dropped,
                 evars>>

\* Verification or the barrier fails: the process or the router is not the
\* one prepared for, or the kernel refuses.  The failure is terminal; the
\* leases are released only if nothing was stored.
Fail(b) ==
  /\ phase[b] \in Live /\ Ready(b)
  /\ failure' = [failure EXCEPT ![b] = TRUE]
  /\ IF mutated[b]
     THEN UNCHANGED <<lease, phase>>
     ELSE /\ lease' = Released(b)
          /\ phase' = [phase EXCEPT ![b] = "Aborted"]
  /\ UNCHANGED <<memory, chosen, dir, todo, mutated, syncs, dropped, evars>>

\* Mutation of Drop: the destructor always releases the leases.
DropReleases(b) ==
  /\ phase[b] \in Live \cup {"Aborted", "Complete"}
  /\ todo[b] = {} /\ ~dropped[b]
  /\ Discard(b)
  /\ UNCHANGED <<memory, dropped, evars>>

\* Dropping the handle between two calls: an untouched batch lets go of its
\* members, a mutated one keeps them for good.
Drop(b) ==
  /\ phase[b] \in Live \cup {"Aborted", "Complete"}
  /\ todo[b] = {} /\ ~dropped[b]
  /\ IF phase[b] \in Live /\ mutated[b]
     THEN /\ dropped' = [dropped EXCEPT ![b] = TRUE]
          /\ UNCHANGED <<lease, phase, todo, chosen, dir, mutated, syncs,
                         failure>>
     ELSE Discard(b) /\ UNCHANGED dropped
  /\ UNCHANGED <<memory, evars>>

Advance(b) == StartStores(b) \/ StoreNext(b) \/ Barrier(b)

-----------------------------------------------------------------------------
(* Executors.                                                              *)

Enter(e, m) ==
  /\ epc[e] = "out"
  /\ epc' = [epc EXCEPT ![e] = "run"]
  /\ at' = [at EXCEPT ![e] = m]
  /\ UNCHANGED <<memory, bvars, inF, inB, ran>>

FetchFront(e) ==
  /\ epc[e] = "run" /\ inF[e] = "none"
  /\ inF' = [inF EXCEPT ![e] = front[at[e]]]
  /\ UNCHANGED <<memory, bvars, epc, at, inB, ran>>

FetchBack(e) ==
  /\ epc[e] = "run" /\ at[e] \in Split /\ inB[e] = "none"
  /\ inB' = [inB EXCEPT ![e] = back[at[e]]]
  /\ UNCHANGED <<memory, bvars, epc, at, inF, ran>>

\* The instruction at a member's head; every instruction this protocol
\* accepts reaches from one line into the other when the site is split.
Decode(m, f, b) ==
  CASE f = "guard" -> "trap"
    [] f # "guard" /\ (m \in Split => b = f) -> f
    [] OTHER -> "torn"

Execute(e) ==
  LET d == Decode(at[e], inF[e], inB[e])
  IN  /\ epc[e] = "run" /\ inF[e] # "none"
      /\ at[e] \in Split => inB[e] # "none"
      /\ ran' = [ran EXCEPT ![e] = d]
      /\ epc' = [epc EXCEPT ![e] = IF d = "trap" THEN "handler" ELSE "out"]
      /\ inF' = [inF EXCEPT ![e] = "none"]
      /\ inB' = [inB EXCEPT ![e] = "none"]
      /\ UNCHANGED <<memory, bvars, at>>

HandlerReturns(e) ==
  /\ epc[e] = "handler"
  /\ lease[at[e]] = "none"
  /\ epc' = [epc EXCEPT ![e] = "run"]
  /\ UNCHANGED <<memory, bvars, at, inF, inB, ran>>

Next ==
  \/ \E b \in Batches :
       \/ \E S \in (SUBSET Members) \ {{}}, d \in {"Apply", "Revert"} :
            Prepare(b, S, d)
       \/ Acquire(b) \/ Preflight(b) \/ Advance(b) \/ Fail(b) \/ Drop(b)
  \/ \E e \in Executors :
       \/ \E m \in Members : Enter(e, m)
       \/ FetchFront(e) \/ FetchBack(e) \/ Execute(e) \/ HandlerReturns(e)

Spec == Init /\ [][Next]_vars

(* The caller of a batch keeps advancing it.                               *)
Fairness ==
  \A b \in Batches : /\ WF_vars(Acquire(b)) /\ WF_vars(Preflight(b))
                     /\ WF_vars(Advance(b))

FairSpec == Spec /\ Fairness

-----------------------------------------------------------------------------
(* Properties.                                                             *)

Word    == Version \cup {"guard"}
Fetched == Word \cup {"none"}

\* Every variable keeps its type.
TypeOK ==
  /\ front \in [Members -> Word] /\ back \in [Members -> Version]
  /\ lease \in [Members -> Batches \cup {"none"}]
  /\ chosen \in [Batches -> SUBSET Members]
  /\ dir \in [Batches -> {"Apply", "Revert"}]
  /\ phase \in [Batches -> Live \cup {"absent", "acquiring", "Complete",
                                      "Aborted"}]
  /\ todo \in [Batches -> SUBSET Members]
  /\ mutated \in [Batches -> BOOLEAN] /\ syncs \in [Batches -> 0 .. 3]
  /\ failure \in [Batches -> BOOLEAN] /\ dropped \in [Batches -> BOOLEAN]
  /\ epc \in [Executors -> {"out", "run", "handler"}]
  /\ at \in [Executors -> Members]
  /\ inF \in [Executors -> Fetched]
  /\ inB \in [Executors -> Version \cup {"none"}]
  /\ ran \in [Executors -> {"none", "old", "new", "trap", "torn"}]

\* No executor runs an instruction made of both images, whichever barrier
\* fails and wherever a batch is abandoned.
NoTornExecution == \A e \in Executors : ran[e] # "torn"

\* A lease that is free belongs to a site that holds one whole image and that
\* no executor still sees the other image of: the third barrier is what makes
\* completion a boundary.
ReleasedIsSettled ==
  \A m \in Members : lease[m] = "none" =>
    /\ front[m] = back[m]
    /\ \A e \in Executors : at[e] = m /\ epc[e] = "run" =>
         /\ inF[e] \in {"none", front[m]}
         /\ inB[e] \in {"none", back[m]}

\* Once a batch has changed code it keeps every member's lease until it is
\* complete, through failures and after its handle is dropped.
MutatedKeepsLeases ==
  \A b \in Batches : phase[b] \in Live /\ mutated[b] => HeldBy(b) = chosen[b]

\* The receipt is truthful: a batch that reports no mutation has changed
\* nothing, and one that reports completion has switched every member under
\* exactly three barriers.
ReceiptTruthful ==
  \A b \in Batches :
    /\ phase[b] \in Live /\ ~mutated[b] =>
         \A m \in chosen[b] : front[m] = Expected(dir[b])
                              /\ back[m] = Expected(dir[b])
    /\ phase[b] = "Complete" => syncs[b] = 3 /\ mutated[b]

\* The bookkeeping of leases and receipts.
LeaseInv == TypeOK /\ MutatedKeepsLeases /\ ReceiptTruthful

\* Completion is reached with all of its members switched.
CompletionSwitchesAll ==
  [][\A b \in Batches : phase[b] # "Complete" /\ phase'[b] = "Complete" =>
       \A m \in chosen[b] : front[m] = Replacement(dir[b])
                            /\ back[m] = Replacement(dir[b])]_vars

\* A thread caught by a guard is released: the site it waits at comes free,
\* unless the batch that holds it failed or was dropped after it changed code.
TrappedThreadReleased ==
  \A e \in Executors :
    epc[e] = "handler" ~>
      \/ epc[e] = "run"
      \/ lease[at[e]] = "none"
      \/ \E b \in Batches : lease[at[e]] = b /\ (failure[b] \/ dropped[b])

\* What synchronized publication promises as a whole: a batch that changes its
\* members shows both versions of all of them until, with the last barrier, no
\* thread runs the other version of any; it gives none of them back
\* before, and a batch that fails either changed nothing or keeps them.
Changing(b) == phase[b] \in Live /\ mutated[b]
visible == [m \in Members |-> IF lease[m] # "none" /\ Changing(lease[m])
                              THEN Version ELSE {front[m]}]
wanted == [b \in Batches |-> IF Changing(b) THEN Replacement(dir[b]) ELSE "none"]
Promise == INSTANCE BatchSwitch WITH holder <- lease
SwitchesTogether == Promise!Spec
=============================================================================
