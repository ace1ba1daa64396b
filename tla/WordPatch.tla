----------------------------- MODULE WordPatch -----------------------------
(***************************************************************************)
(* Guarded publication of an eight-byte jump window that crosses a cache   *)
(* line (WordPatch++): LiveJumpPatch::publish_bound and publish_cross_line *)
(* in src/src/patcher.rs, together with the writer lease and the guard     *)
(* trap handler of src/src/trap.rs.                                        *)
(*                                                                         *)
(* The window is one patch site.  Bytes 0 .. FrontLen-1 lie in the line    *)
(* before the boundary, the rest in the line after it.  Only bytes 0 ..    *)
(* JumpLen-1 differ between the original and the replacement image, so     *)
(* each half of the window is abstracted to the version its bytes have.    *)
(* Executors fetch the two halves separately and may hold the fetched      *)
(* bytes while the writer changes memory; the promise the caller makes     *)
(* with a StalenessBudget is that they hold them for at most MaxStale      *)
(* clock ticks.                                                            *)
(***************************************************************************)
EXTENDS Integers

CONSTANTS
  Writers,     \* threads that call apply and revert on handles of this site
  Executors,   \* threads that run through the site
  FrontLen,    \* front_len of PatchStrategy::GuardedSplit
  Heads,       \* offsets in the window at which an original instruction starts
  Len,         \* length of the original instruction at each head
  Budget,      \* StalenessBudget, in clock ticks
  MaxStale,    \* the longest time a fetched byte stays executable, in ticks
  MaxOps       \* bound: publications each writer attempts

WindowLen == 8   \* WORD_PATCH_BYTES
JumpLen   == 5   \* NEAR_JUMP_BYTES

ASSUME GeometryAssumption ==
  /\ FrontLen \in 1 .. WindowLen - 1
  /\ Heads \subseteq 0 .. WindowLen - 1
  /\ 0 \in Heads
  /\ Len \in [Heads -> Nat \ {0}]

(* The budget is qualified for the machine: README "What clients must      *)
(* provide" asks the caller for exactly this.                              *)
ASSUME BudgetAssumption ==
  /\ Budget \in Nat
  /\ MaxStale \in Nat
  /\ MaxStale < Budget

ASSUME MaxOpsAssumption == MaxOps \in Nat

VARIABLES
  front,    \* version of the bytes before the boundary, or "guard"
  back,     \* version of the bytes after the boundary
  phase,    \* TrapSite::phase
  wpc,      \* control state of each writer
  op,       \* the publication each writer is performing
  curF,     \* the writer's current_front
  curB,     \* the writer's current_back
  waited,   \* ticks elapsed in the writer's staleness wait
  res,      \* "busy", or the result of the writer's last publication
  ops,      \* publications attempted so far
  epc,      \* control state of each executor
  at,       \* the head at which each executor's program counter stands
  inF, inB, \* bytes an executor has fetched and not yet executed
  age,      \* ticks since the older of those fetches
  ran       \* what the executor's last instruction was

wvars == <<wpc, op, curF, curB, waited, res, ops>>
evars == <<epc, at, inF, inB, age, ran>>
vars  == <<front, back, phase, wvars, evars>>

Version == {"old", "new"}
Word    == Version \cup {"guard"}
Fetched == Word \cup {"none"}
Op      == {"apply", "revert"}

-----------------------------------------------------------------------------
(* The two images of the window, and what a fetch of it decodes to.        *)

Expected(o)    == IF o = "apply" THEN "old" ELSE "new"
Replacement(o) == IF o = "apply" THEN "new" ELSE "old"

\* Does an instruction of n bytes at h use bytes of both lines that differ
\* between the two images?
Crosses(h, n) == /\ h < FrontLen
                 /\ FrontLen < h + n
                 /\ FrontLen < JumpLen

\* The instruction a processor executes at head h from halves f and b.
Decode(h, f, b) ==
  LET lead == IF h < FrontLen THEN f ELSE b
  IN  CASE lead = "guard" -> "trap"
        [] lead # "guard" /\ h >= JumpLen -> "tail"
        [] /\ lead = "old" /\ h < JumpLen
           /\ Crosses(h, Len[h]) => b = "old" -> "old"
        [] /\ lead = "new" /\ h = 0
           /\ Crosses(0, JumpLen) => b = "new" -> "new"
        [] OTHER -> "torn"

\* Heads that control flow may target: the site itself and anything after
\* the displaced instructions.  The client proves there is no other.
EntryHeads == {h \in Heads : h = 0 \/ h >= JumpLen}

-----------------------------------------------------------------------------
(* The writer: publish_bound and publish_cross_line.                       *)

Init ==
  /\ front = "old" /\ back = "old" /\ phase = "IDLE"
  /\ wpc = [w \in Writers |-> "idle"]
  /\ op = [w \in Writers |-> "apply"]
  /\ curF = [w \in Writers |-> "none"]
  /\ curB = [w \in Writers |-> "none"]
  /\ waited = [w \in Writers |-> 0]
  /\ res = [w \in Writers |-> "none"]
  /\ ops = [w \in Writers |-> 0]
  /\ epc = [e \in Executors |-> "out"]
  /\ at = [e \in Executors |-> 0]
  /\ inF = [e \in Executors |-> "none"]
  /\ inB = [e \in Executors |-> "none"]
  /\ age = [e \in Executors |-> 0]
  /\ ran = [e \in Executors |-> "none"]

\* Mutation of Begin: the site's phase is not consulted.
BeginUnchecked(w, o) ==
  /\ wpc[w] = "idle"
  /\ ops[w] < MaxOps
  /\ ops' = [ops EXCEPT ![w] = @ + 1]
  /\ op' = [op EXCEPT ![w] = o]
  /\ phase' = "WRITING"
  /\ wpc' = [wpc EXCEPT ![w] = "loadFront"]
  /\ res' = [res EXCEPT ![w] = "busy"]
  /\ UNCHANGED <<front, back, curF, curB, waited, evars>>

\* TrapSite::begin takes the site for one writer or fails at once.
Begin(w, o) ==
  /\ wpc[w] = "idle"
  /\ ops[w] < MaxOps
  /\ ops' = [ops EXCEPT ![w] = @ + 1]
  /\ op' = [op EXCEPT ![w] = o]
  /\ IF phase = "IDLE"
     THEN /\ phase' = "WRITING"
          /\ wpc' = [wpc EXCEPT ![w] = "loadFront"]
          /\ res' = [res EXCEPT ![w] = "busy"]
     ELSE /\ res' = [res EXCEPT ![w] = "contended"]
          /\ UNCHANGED <<phase, wpc>>
  /\ UNCHANGED <<front, back, curF, curB, waited, evars>>

LoadFront(w) ==
  /\ wpc[w] = "loadFront"
  /\ curF' = [curF EXCEPT ![w] = front]
  /\ wpc' = [wpc EXCEPT ![w] = "loadBack"]
  /\ UNCHANGED <<front, back, phase, op, curB, waited, res, ops, evars>>

\* The second load, and the comparison of all eight bytes.
LoadBack(w) ==
  /\ wpc[w] = "loadBack"
  /\ curB' = [curB EXCEPT ![w] = back]
  /\ IF curF[w] = Expected(op[w]) /\ back = Expected(op[w])
     THEN /\ wpc' = [wpc EXCEPT ![w] = "guard"]
          /\ UNCHANGED res
     ELSE /\ wpc' = [wpc EXCEPT ![w] = "finish"]
          /\ res' = [res EXCEPT ![w] = "mismatch"]
  /\ UNCHANGED <<front, back, phase, op, curF, waited, ops, evars>>

\* Every front byte becomes a breakpoint in one compare-and-exchange.
GuardFront(w) ==
  /\ wpc[w] = "guard"
  /\ IF front = curF[w]
     THEN /\ front' = "guard"
          /\ wpc' = [wpc EXCEPT ![w] = "waitGuard"]
          /\ waited' = [waited EXCEPT ![w] = 0]
          /\ UNCHANGED res
     ELSE /\ wpc' = [wpc EXCEPT ![w] = "finish"]
          /\ res' = [res EXCEPT ![w] = "contended"]
          /\ UNCHANGED <<front, waited>>
  /\ UNCHANGED <<back, phase, op, curF, curB, ops, evars>>

\* Mutation of WaitOver: the wait ends a tick early.
WaitShort(w) == waited[w] + 1 >= Budget

\* StalenessBudget::wait has seen the counter advance by the budget.
WaitOver(w) == waited[w] >= Budget

\* Mutation of StoreBack: the back word of the wrong image.
StoreBackExpected(w) ==
  /\ wpc[w] = "waitGuard"
  /\ WaitOver(w)
  /\ back' = Expected(op[w])
  /\ wpc' = [wpc EXCEPT ![w] = "waitBack"]
  /\ waited' = [waited EXCEPT ![w] = 0]
  /\ UNCHANGED <<front, phase, op, curF, curB, res, ops, evars>>

StoreBack(w) ==
  /\ wpc[w] = "waitGuard"
  /\ WaitOver(w)
  /\ back' = Replacement(op[w])
  /\ wpc' = [wpc EXCEPT ![w] = "waitBack"]
  /\ waited' = [waited EXCEPT ![w] = 0]
  /\ UNCHANGED <<front, phase, op, curF, curB, res, ops, evars>>

\* Mutation of StoreFront: the second staleness wait is left out.
StoreFrontAtOnce(w) ==
  /\ wpc[w] = "waitBack"
  /\ front' = Replacement(op[w])
  /\ wpc' = [wpc EXCEPT ![w] = "finish"]
  /\ res' = [res EXCEPT ![w] = "ok"]
  /\ UNCHANGED <<back, phase, op, curF, curB, waited, ops, evars>>

StoreFront(w) ==
  /\ wpc[w] = "waitBack"
  /\ WaitOver(w)
  /\ front' = Replacement(op[w])
  /\ wpc' = [wpc EXCEPT ![w] = "finish"]
  /\ res' = [res EXCEPT ![w] = "ok"]
  /\ UNCHANGED <<back, phase, op, curF, curB, waited, ops, evars>>

\* Mutation of Finish: an error return that skips TrapSite::finish.
FinishOnlySuccess(w) ==
  /\ wpc[w] = "finish"
  /\ phase' = IF res[w] = "ok" THEN "IDLE" ELSE phase
  /\ wpc' = [wpc EXCEPT ![w] = "idle"]
  /\ curF' = [curF EXCEPT ![w] = "none"]
  /\ curB' = [curB EXCEPT ![w] = "none"]
  /\ waited' = [waited EXCEPT ![w] = 0]
  /\ UNCHANGED <<front, back, op, res, ops, evars>>

\* TrapSite::finish_jump; the caller's locals are gone.
Finish(w) ==
  /\ wpc[w] = "finish"
  /\ phase' = "IDLE"
  /\ wpc' = [wpc EXCEPT ![w] = "idle"]
  /\ curF' = [curF EXCEPT ![w] = "none"]
  /\ curB' = [curB EXCEPT ![w] = "none"]
  /\ waited' = [waited EXCEPT ![w] = 0]
  /\ UNCHANGED <<front, back, op, res, ops, evars>>

\* apply_quiescent and revert_quiescent: the caller has proved that nobody
\* else touches the window until the call returns, so it is one step.
PublishQuiescent(w, o) ==
  /\ wpc[w] = "idle" /\ phase = "IDLE"
  /\ ops[w] < MaxOps
  /\ \A e \in Executors : epc[e] = "out"
  /\ ops' = [ops EXCEPT ![w] = @ + 1]
  /\ op' = [op EXCEPT ![w] = o]
  /\ IF front = Expected(o) /\ back = Expected(o)
     THEN /\ front' = Replacement(o) /\ back' = Replacement(o)
          /\ res' = [res EXCEPT ![w] = "ok"]
     ELSE /\ res' = [res EXCEPT ![w] = "mismatch"]
          /\ UNCHANGED <<front, back>>
  /\ UNCHANGED <<phase, wpc, curF, curB, waited, evars>>

-----------------------------------------------------------------------------
(* The executors, and time.                                                *)

Enter(e, h) ==
  /\ epc[e] = "out"
  /\ epc' = [epc EXCEPT ![e] = "run"]
  /\ at' = [at EXCEPT ![e] = h]
  /\ UNCHANGED <<front, back, phase, wvars, inF, inB, age, ran>>

FetchFront(e) ==
  /\ epc[e] = "run" /\ inF[e] = "none"
  /\ inF' = [inF EXCEPT ![e] = front]
  /\ UNCHANGED <<front, back, phase, wvars, epc, at, inB, age, ran>>

FetchBack(e) ==
  /\ epc[e] = "run" /\ inB[e] = "none"
  /\ inB' = [inB EXCEPT ![e] = back]
  /\ UNCHANGED <<front, back, phase, wvars, epc, at, inF, age, ran>>

InFlight(e) == inF[e] # "none" \/ inB[e] # "none"

DropFetched(e) ==
  /\ inF' = [inF EXCEPT ![e] = "none"]
  /\ inB' = [inB EXCEPT ![e] = "none"]
  /\ age' = [age EXCEPT ![e] = 0]

\* An interrupt or a misprediction discards what was fetched.
Flush(e) ==
  /\ epc[e] = "run" /\ InFlight(e)
  /\ DropFetched(e)
  /\ UNCHANGED <<front, back, phase, wvars, epc, at, ran>>

\* Falling through to the next head, or out of the window.
Advance(e) ==
  LET next == at[e] + Len[at[e]]
  IN  IF next \in Heads
      THEN at' = [at EXCEPT ![e] = next] /\ UNCHANGED epc
      ELSE epc' = [epc EXCEPT ![e] = "out"] /\ UNCHANGED at

\* The original instruction and the unchanged tail fall through, the jump and
\* a torn instruction leave the window, a breakpoint enters the handler with
\* the program counter still at its origin.
Execute(e) ==
  LET d == Decode(at[e], inF[e], inB[e])
  IN  /\ epc[e] = "run" /\ inF[e] # "none" /\ inB[e] # "none"
      /\ DropFetched(e)
      /\ ran' = [ran EXCEPT ![e] = d]
      /\ \/ d \in {"old", "tail"} /\ Advance(e)
         \/ d \in {"new", "torn"} /\ epc' = [epc EXCEPT ![e] = "out"]
                                  /\ UNCHANGED at
         \/ d = "trap" /\ epc' = [epc EXCEPT ![e] = "handler"]
                       /\ UNCHANGED at
      /\ UNCHANGED <<front, back, phase, wvars>>

\* handle_trap spins while the site is being written, then returns with the
\* program counter set back to the breakpoint's own address.
HandlerReturns(e) ==
  /\ epc[e] = "handler"
  /\ phase # "WRITING"
  /\ epc' = [epc EXCEPT ![e] = "run"]
  /\ UNCHANGED <<front, back, phase, wvars, at, inF, inB, age, ran>>

Waiting(w) == wpc[w] \in {"waitGuard", "waitBack"} /\ waited[w] < Budget

\* The clock matters only while a writer waits.  No fetched byte may outlive
\* MaxStale ticks: that is what the budget was calibrated against.
Tick ==
  /\ \E w \in Writers : Waiting(w)
  /\ \A e \in Executors : InFlight(e) => age[e] < MaxStale
  /\ waited' = [w \in Writers |-> IF Waiting(w) THEN waited[w] + 1
                                                ELSE waited[w]]
  /\ age' = [e \in Executors |-> IF InFlight(e) THEN age[e] + 1 ELSE age[e]]
  /\ UNCHANGED <<front, back, phase, wpc, op, curF, curB, res, ops,
                 epc, at, inF, inB, ran>>

WriterStep(w) == \/ LoadFront(w) \/ LoadBack(w) \/ GuardFront(w)
                 \/ StoreBack(w) \/ StoreFront(w) \/ Finish(w)

ExecutorStep(e) == FetchFront(e) \/ FetchBack(e) \/ Execute(e)

Next ==
  \/ \E w \in Writers, o \in Op : Begin(w, o) \/ PublishQuiescent(w, o)
  \/ \E w \in Writers : WriterStep(w)
  \/ \E e \in Executors, h \in EntryHeads : Enter(e, h)
  \/ \E e \in Executors : Flush(e) \/ ExecutorStep(e) \/ HandlerReturns(e)
  \/ Tick

Spec == Init /\ [][Next]_vars

(* Threads are scheduled, time passes and a processor that has started an  *)
(* instruction finishes it; nobody has to start a publication or to enter  *)
(* the site.                                                               *)
Fairness ==
  /\ WF_vars(Tick)
  /\ \A w \in Writers : WF_vars(WriterStep(w))
  /\ \A e \in Executors : WF_vars(Execute(e)) /\ WF_vars(HandlerReturns(e))
                          /\ WF_vars(FetchFront(e)) /\ WF_vars(FetchBack(e))

FairSpec == Spec /\ Fairness

-----------------------------------------------------------------------------
(* Properties.                                                             *)

WriterPC == {"idle", "loadFront", "loadBack", "guard", "waitGuard",
             "waitBack", "finish"}

\* Every variable keeps its type; the clock of a wait never passes the budget
\* and no fetched byte is older than MaxStale.
TypeOK ==
  /\ front \in Word
  /\ back \in Version
  /\ phase \in {"IDLE", "WRITING"}
  /\ wpc \in [Writers -> WriterPC]
  /\ op \in [Writers -> Op]
  /\ curF \in [Writers -> Fetched]
  /\ curB \in [Writers -> Version \cup {"none"}]
  /\ waited \in [Writers -> 0 .. Budget]
  /\ res \in [Writers -> {"none", "busy", "ok", "mismatch", "contended"}]
  /\ ops \in [Writers -> 0 .. MaxOps]
  /\ epc \in [Executors -> {"out", "run", "handler"}]
  /\ at \in [Executors -> Heads]
  /\ inF \in [Executors -> Fetched]
  /\ inB \in [Executors -> Version \cup {"none"}]
  /\ age \in [Executors -> 0 .. MaxStale]
  /\ ran \in [Executors -> {"none", "old", "new", "tail", "trap", "torn"}]

\* No executor ever runs an instruction put together from both images, or
\* from the middle of the jump: what publish_cross_line's guards and its two
\* staleness waits are for.
NoTornExecution == \A e \in Executors : ran[e] # "torn"

\* TrapSite::begin makes publication exclusive: two handles of one site are
\* never between their loads and their last store together.
OneWriter ==
  \A v, w \in Writers : wpc[v] # "idle" /\ wpc[w] # "idle" => v = w

\* Publications are well formed and exclusive.
PatchInv == TypeOK /\ OneWriter

\* When publish_cross_line returns, a success left the whole replacement
\* live, and a refusal left one whole image and no guard behind.
AllOrNothing ==
  \A w \in Writers : wpc[w] = "finish" =>
    /\ front = back
    /\ res[w] = "ok" => front = Replacement(op[w])

\* A thread caught by a guard gets back to its instruction: the writer it
\* waits for never waits for it.
TrappedThreadReturns ==
  \A e \in Executors : epc[e] = "handler" ~> epc[e] = "run"

\* What publications promise as a whole: at each moment the site holds one
\* version, apply and revert switch it atomically (with the last store) or are
\* refused for a reason that holds at that moment, and every instruction
\* executed at the site is of the current version.
version == IF front = "guard"
           THEN IF \E w \in Writers : wpc[w] \in {"waitGuard", "waitBack"}
                                      /\ op[w] = "apply"
                THEN "old" ELSE "new"
           ELSE front
Abstract == INSTANCE CodeVersion
RunsOneVersion == Abstract!Spec
=============================================================================
