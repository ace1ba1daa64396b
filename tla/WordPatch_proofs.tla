-------------------------- MODULE WordPatch_proofs --------------------------
(***************************************************************************)
(* Proofs about WordPatch, for every set of writers and executors, every   *)
(* split of the window and every budget that exceeds MaxStale.             *)
(*                                                                         *)
(* The absence of torn executions needs one assumption on the plan: no     *)
(* displaced instruction starts inside the jump.  MCWordPatchInterior.cfg  *)
(* shows what happens without it.                                          *)
(***************************************************************************)
EXTENDS WordPatch, TLAPS

SingleHead == \A h \in Heads : h = 0 \/ h >= JumpLen

-----------------------------------------------------------------------------
(* The inductive invariant.                                                *)

\* A writer between begin and finish holds the site, alone.
Ownership ==
  /\ \A w \in Writers : wpc[w] # "idle" => phase = "WRITING"
  /\ \A w \in Writers : res[w] = "busy" <=> wpc[w] \notin {"idle", "finish"}
  /\ OneWriter

\* What memory holds at each stage of the publication.
MemoryInv ==
  /\ front = "guard" => \E w \in Writers : wpc[w] \in {"waitGuard", "waitBack"}
  /\ front # "guard" => front = back
  /\ \A w \in Writers :
       /\ wpc[w] \in {"loadBack", "guard"} => curF[w] = front
       /\ wpc[w] = "guard" => front = Expected(op[w])
       /\ wpc[w] \in {"waitGuard", "waitBack"} => front = "guard"
       /\ wpc[w] = "waitGuard" => back = Expected(op[w])
       /\ wpc[w] = "waitBack" => back = Replacement(op[w])
       /\ wpc[w] = "finish" /\ res[w] = "ok" => front = Replacement(op[w])

\* Bytes an executor still holds are those in memory, a guard, or stale; and
\* stale bytes are at least as old as the wait in progress.
FlightInv ==
  /\ \A e \in Executors : ~(epc[e] = "run") => ~InFlight(e)
  /\ front # "guard" =>
       \A e \in Executors : /\ inF[e] \in {"none", "guard", front}
                            /\ inB[e] \in {"none", back}
  /\ \A w \in Writers : wpc[w] = "waitGuard" =>
       \A e \in Executors :
         /\ inF[e] \in {"none", "guard", Expected(op[w])}
         /\ inF[e] = Expected(op[w]) => age[e] >= waited[w]
         /\ inB[e] \in {"none", Expected(op[w])}
  /\ \A w \in Writers : wpc[w] = "waitBack" =>
       \A e \in Executors :
         /\ inF[e] \in {"none", "guard"}
         /\ inB[e] = Expected(op[w]) => age[e] >= waited[w]

IInv == TypeOK /\ Ownership /\ MemoryInv /\ FlightInv

-----------------------------------------------------------------------------
(* Type correctness.                                                       *)

LEMMA TypeInit == Init => TypeOK
BY GeometryAssumption, BudgetAssumption, MaxOpsAssumption
   DEF Init, TypeOK, Word, Version, Op, Fetched, WriterPC

LEMMA TypeStep == TypeOK /\ [Next]_vars => TypeOK'
<1> SUFFICES ASSUME TypeOK, [Next]_vars PROVE TypeOK'
  OBVIOUS
<1> USE GeometryAssumption, BudgetAssumption, MaxOpsAssumption
    DEF TypeOK, Word, Version, Op, Fetched, WriterPC, wvars, evars
<1>1. ASSUME NEW w \in Writers, NEW o \in Op, Begin(w, o) PROVE TypeOK'
  BY <1>1 DEF Begin
<1>2. ASSUME NEW w \in Writers, NEW o \in Op, PublishQuiescent(w, o)
      PROVE TypeOK'
  BY <1>2 DEF PublishQuiescent, Replacement
<1>3. ASSUME NEW w \in Writers, LoadFront(w) PROVE TypeOK'
  BY <1>3 DEF LoadFront
<1>4. ASSUME NEW w \in Writers, LoadBack(w) PROVE TypeOK'
  BY <1>4 DEF LoadBack
<1>5. ASSUME NEW w \in Writers, GuardFront(w) PROVE TypeOK'
  BY <1>5 DEF GuardFront
<1>6. ASSUME NEW w \in Writers, StoreBack(w) PROVE TypeOK'
  BY <1>6 DEF StoreBack, Replacement
<1>7. ASSUME NEW w \in Writers, StoreFront(w) PROVE TypeOK'
  BY <1>7 DEF StoreFront, Replacement
<1>8. ASSUME NEW w \in Writers, Finish(w) PROVE TypeOK'
  BY <1>8 DEF Finish
<1>9. ASSUME NEW e \in Executors, NEW h \in EntryHeads, Enter(e, h)
      PROVE TypeOK'
  BY <1>9 DEF Enter, EntryHeads
<1>10. ASSUME NEW e \in Executors, Flush(e) PROVE TypeOK'
  BY <1>10 DEF Flush, DropFetched
<1>11. ASSUME NEW e \in Executors, FetchFront(e) PROVE TypeOK'
  BY <1>11 DEF FetchFront
<1>12. ASSUME NEW e \in Executors, FetchBack(e) PROVE TypeOK'
  BY <1>12 DEF FetchBack
<1>13. ASSUME NEW e \in Executors, Execute(e) PROVE TypeOK'
  BY <1>13 DEF Execute, DropFetched, Advance, Decode
<1>14. ASSUME NEW e \in Executors, HandlerReturns(e) PROVE TypeOK'
  BY <1>14 DEF HandlerReturns
<1>15. ASSUME Tick PROVE TypeOK'
  BY <1>15 DEF Tick, Waiting, InFlight
<1>16. ASSUME UNCHANGED vars PROVE TypeOK'
  BY <1>16 DEF vars
<1> QED
  BY <1>1, <1>2, <1>3, <1>4, <1>5, <1>6, <1>7, <1>8, <1>9, <1>10, <1>11,
     <1>12, <1>13, <1>14, <1>15, <1>16
     DEF Next, WriterStep, ExecutorStep

\* Every variable keeps its type, whatever the constants are.
THEOREM TypeCorrect == Spec => []TypeOK
BY TypeInit, TypeStep, PTL DEF Spec

-----------------------------------------------------------------------------
(* Ownership and memory.                                                   *)

LEMMA OwnershipStep == TypeOK /\ Ownership /\ [Next]_vars => Ownership'
<1> SUFFICES ASSUME TypeOK, Ownership, [Next]_vars PROVE Ownership'
  OBVIOUS
<1> USE DEF TypeOK, Ownership, OneWriter, wvars, evars, Op
<1>1. ASSUME NEW w \in Writers, NEW o \in Op, Begin(w, o) PROVE Ownership'
  BY <1>1 DEF Begin
<1>2. ASSUME NEW w \in Writers, NEW o \in Op, PublishQuiescent(w, o)
      PROVE Ownership'
  BY <1>2 DEF PublishQuiescent
<1>3. ASSUME NEW w \in Writers, LoadFront(w) PROVE Ownership'
  BY <1>3 DEF LoadFront
<1>4. ASSUME NEW w \in Writers, LoadBack(w) PROVE Ownership'
  BY <1>4 DEF LoadBack
<1>5. ASSUME NEW w \in Writers, GuardFront(w) PROVE Ownership'
  BY <1>5 DEF GuardFront
<1>6. ASSUME NEW w \in Writers, StoreBack(w) PROVE Ownership'
  BY <1>6 DEF StoreBack
<1>7. ASSUME NEW w \in Writers, StoreFront(w) PROVE Ownership'
  BY <1>7 DEF StoreFront
<1>8. ASSUME NEW w \in Writers, Finish(w) PROVE Ownership'
  BY <1>8 DEF Finish
<1>9. ASSUME UNCHANGED <<phase, wpc, res>> PROVE Ownership'
  BY <1>9
<1> QED
  BY <1>1, <1>2, <1>3, <1>4, <1>5, <1>6, <1>7, <1>8, <1>9
     DEF Next, WriterStep, ExecutorStep, Enter, Flush, FetchFront, FetchBack,
         Execute, HandlerReturns, Tick, vars

LEMMA MemoryStep ==
  TypeOK /\ Ownership /\ MemoryInv /\ [Next]_vars => MemoryInv'
<1> SUFFICES ASSUME TypeOK, Ownership, MemoryInv, [Next]_vars PROVE MemoryInv'
  OBVIOUS
<1> USE DEF TypeOK, Ownership, OneWriter, MemoryInv, wvars, evars, Op, Version,
            Word, Expected, Replacement
<1>1. ASSUME NEW w \in Writers, NEW o \in Op, Begin(w, o) PROVE MemoryInv'
  BY <1>1 DEF Begin
<1>2. ASSUME NEW w \in Writers, NEW o \in Op, PublishQuiescent(w, o)
      PROVE MemoryInv'
  BY <1>2 DEF PublishQuiescent
<1>3. ASSUME NEW w \in Writers, LoadFront(w) PROVE MemoryInv'
  BY <1>3 DEF LoadFront
<1>4. ASSUME NEW w \in Writers, LoadBack(w) PROVE MemoryInv'
  BY <1>4 DEF LoadBack
<1>5. ASSUME NEW w \in Writers, GuardFront(w) PROVE MemoryInv'
  BY <1>5 DEF GuardFront
<1>6. ASSUME NEW w \in Writers, StoreBack(w) PROVE MemoryInv'
  BY <1>6 DEF StoreBack
<1>7. ASSUME NEW w \in Writers, StoreFront(w) PROVE MemoryInv'
  BY <1>7 DEF StoreFront
<1>8. ASSUME NEW w \in Writers, Finish(w) PROVE MemoryInv'
  BY <1>8 DEF Finish
<1>9. ASSUME UNCHANGED <<front, back, wpc, op, curF, res>> PROVE MemoryInv'
  BY <1>9
<1> QED
  BY <1>1, <1>2, <1>3, <1>4, <1>5, <1>6, <1>7, <1>8, <1>9
     DEF Next, WriterStep, ExecutorStep, Enter, Flush, FetchFront, FetchBack,
         Execute, HandlerReturns, Tick, vars

-----------------------------------------------------------------------------
(* Bytes in flight.                                                        *)

\* When a staleness wait is over, everything as old as the wait is gone.
LEMMA WaitOutlivesStale ==
  ASSUME TypeOK, NEW w \in Writers, WaitOver(w), NEW e \in Executors
  PROVE  ~(age[e] >= waited[w])
BY BudgetAssumption DEF TypeOK, WaitOver

LEMMA FlightStep ==
  TypeOK /\ Ownership /\ MemoryInv /\ FlightInv /\ [Next]_vars => FlightInv'
<1> SUFFICES ASSUME TypeOK, Ownership, MemoryInv, FlightInv, [Next]_vars
             PROVE  FlightInv'
  OBVIOUS
<1> USE DEF TypeOK, Ownership, OneWriter, MemoryInv, FlightInv, InFlight,
            wvars, evars, Op, Version, Word, Fetched, WriterPC,
            Expected, Replacement
<1>1. ASSUME NEW w \in Writers, NEW o \in Op, Begin(w, o) PROVE FlightInv'
  BY <1>1 DEF Begin
<1>2. ASSUME NEW w \in Writers, NEW o \in Op, PublishQuiescent(w, o)
      PROVE FlightInv'
  BY <1>2 DEF PublishQuiescent
<1>3. ASSUME NEW w \in Writers, LoadFront(w) PROVE FlightInv'
  BY <1>3 DEF LoadFront
<1>4. ASSUME NEW w \in Writers, LoadBack(w) PROVE FlightInv'
  BY <1>4 DEF LoadBack
<1>5. ASSUME NEW w \in Writers, GuardFront(w) PROVE FlightInv'
  BY <1>5 DEF GuardFront
<1>6. ASSUME NEW w \in Writers, StoreBack(w) PROVE FlightInv'
  BY <1>6, WaitOutlivesStale DEF StoreBack
<1>7. ASSUME NEW w \in Writers, StoreFront(w) PROVE FlightInv'
  BY <1>7, WaitOutlivesStale DEF StoreFront
<1>8. ASSUME NEW w \in Writers, Finish(w) PROVE FlightInv'
  BY <1>8 DEF Finish
<1>9. ASSUME NEW e \in Executors, NEW h \in EntryHeads, Enter(e, h)
      PROVE FlightInv'
  BY <1>9 DEF Enter
<1>10. ASSUME NEW e \in Executors, Flush(e) PROVE FlightInv'
  BY <1>10 DEF Flush, DropFetched
<1>11. ASSUME NEW e \in Executors, FetchFront(e) PROVE FlightInv'
  BY <1>11 DEF FetchFront
<1>12. ASSUME NEW e \in Executors, FetchBack(e) PROVE FlightInv'
  BY <1>12 DEF FetchBack
<1>13. ASSUME NEW e \in Executors, Execute(e) PROVE FlightInv'
  BY <1>13 DEF Execute, DropFetched, Advance
<1>14. ASSUME NEW e \in Executors, HandlerReturns(e) PROVE FlightInv'
  BY <1>14 DEF HandlerReturns
<1>15. ASSUME Tick PROVE FlightInv'
  BY <1>15 DEF Tick, Waiting
<1>16. ASSUME UNCHANGED vars PROVE FlightInv'
  BY <1>16 DEF vars
<1> QED
  BY <1>1, <1>2, <1>3, <1>4, <1>5, <1>6, <1>7, <1>8, <1>9, <1>10, <1>11,
     <1>12, <1>13, <1>14, <1>15, <1>16
     DEF Next, WriterStep, ExecutorStep

LEMMA InvInit == Init => IInv
<1> SUFFICES ASSUME Init PROVE IInv
  OBVIOUS
<1>1. TypeOK
  BY TypeInit
<1>2. Ownership /\ MemoryInv
  BY DEF Init, Ownership, OneWriter, MemoryInv
<1>3. FlightInv
  BY DEF Init, FlightInv, InFlight
<1> QED
  BY <1>1, <1>2, <1>3 DEF IInv

LEMMA InvStep == IInv /\ [Next]_vars => IInv'
BY TypeStep, OwnershipStep, MemoryStep, FlightStep DEF IInv

\* The inductive invariant holds in every reachable state.
THEOREM Invariant == Spec => []IInv
BY InvInit, InvStep, PTL DEF Spec

\* Publication is exclusive: no two writers are between TrapSite::begin and
\* TrapSite::finish_jump together.
THEOREM Exclusion == Spec => []OneWriter
<1>1. IInv => OneWriter
  BY DEF IInv, Ownership
<1> QED
  BY <1>1, Invariant, PTL

\* Every reachable state is well typed and has one writer at most.
THEOREM WellFormed == Spec => []PatchInv
BY TypeCorrect, Exclusion, PTL DEF PatchInv

\* A publication leaves one whole image, the replacement if it succeeded.
THEOREM WholeImage == Spec => []AllOrNothing
<1>1. IInv => AllOrNothing
  BY DEF IInv, Ownership, OneWriter, MemoryInv, AllOrNothing
<1> QED
  BY <1>1, Invariant, PTL

-----------------------------------------------------------------------------
(* What executors run, for plans that displace one instruction.            *)

\* While a writer has the guards up, the site still has the version that the
\* publication replaces.
LEMMA VersionDuringWait ==
  ASSUME IInv, NEW w \in Writers, wpc[w] \in {"waitGuard", "waitBack"}
  PROVE  version = Expected(op[w])
BY DEF IInv, TypeOK, Ownership, OneWriter, MemoryInv, version, Expected, Op

LEMMA VersionType == IInv => version \in Version
BY DEF IInv, TypeOK, version, Version, Word

\* Bytes that executors hold decode to an instruction of the current version,
\* to a guard, or to something the patch leaves alone.
LEMMA DecodeCurrent ==
  ASSUME SingleHead, IInv, NEW e \in Executors,
         epc[e] = "run", inF[e] # "none", inB[e] # "none"
  PROVE  Decode(at[e], inF[e], inB[e]) \in {version, "tail", "trap"}
<1>1. at[e] \in Heads /\ at[e] \in Nat /\ (at[e] = 0 \/ at[e] >= JumpLen)
  <2>1. at[e] \in Heads
    BY DEF IInv, TypeOK
  <2>2. Heads \subseteq Nat
    BY GeometryAssumption DEF WindowLen
  <2> QED
    BY <2>1, <2>2 DEF SingleHead
<1>2. CASE at[e] >= JumpLen
  BY <1>1, <1>2 DEF Decode, JumpLen
<1>3. CASE at[e] = 0
  <2>1. at[e] < FrontLen /\ at[e] < JumpLen
    BY <1>3, GeometryAssumption DEF JumpLen
  <2>2. CASE inF[e] = "guard"
    BY <2>1, <2>2 DEF Decode
  <2>3. CASE inF[e] # "guard"
    <3>1. inF[e] = version /\ inB[e] = version
      <4>1. CASE front # "guard"
        BY <2>3, <4>1 DEF IInv, TypeOK, MemoryInv, FlightInv, version, Word,
                          Version
      <4>2. CASE front = "guard"
        <5>1. PICK w \in Writers : wpc[w] \in {"waitGuard", "waitBack"}
          BY <4>2 DEF IInv, MemoryInv
        <5>2. inF[e] = Expected(op[w]) /\ inB[e] = Expected(op[w])
          BY <2>3, <5>1 DEF IInv, FlightInv
        <5> QED
          BY <5>1, <5>2, VersionDuringWait
      <4> QED
        BY <4>1, <4>2
    <3>2. inF[e] \in Version
      BY <3>1, VersionType
    <3> QED
      BY <1>3, <2>1, <2>3, <3>1, <3>2 DEF Decode, Version
  <2> QED
    BY <2>2, <2>3
<1> QED
  BY <1>1, <1>2, <1>3

LEMMA NoTornStep ==
  SingleHead /\ IInv /\ NoTornExecution /\ [Next]_vars => NoTornExecution'
<1> SUFFICES ASSUME SingleHead, IInv, NoTornExecution, [Next]_vars
             PROVE  NoTornExecution'
  OBVIOUS
<1>1. ASSUME NEW e \in Executors, Execute(e) PROVE NoTornExecution'
  <2>1. Decode(at[e], inF[e], inB[e]) # "torn"
    BY <1>1, DecodeCurrent, VersionType DEF Execute, Version
  <2>2. ran' = [ran EXCEPT ![e] = Decode(at[e], inF[e], inB[e])]
    BY <1>1 DEF Execute
  <2> QED
    BY <2>1, <2>2 DEF NoTornExecution, IInv, TypeOK
<1>2. ASSUME UNCHANGED ran PROVE NoTornExecution'
  BY <1>2 DEF NoTornExecution
<1> QED
  BY <1>1, <1>2
     DEF Next, WriterStep, ExecutorStep, Begin, PublishQuiescent, LoadFront,
         LoadBack, GuardFront, StoreBack, StoreFront, Finish, Enter, Flush,
         FetchFront, FetchBack, HandlerReturns, Tick, vars, evars, wvars

\* If no displaced instruction starts inside the jump, no executor ever runs
\* a torn instruction, however long the publication takes and however many
\* writers and executors there are.
THEOREM NeverTorn == SingleHead => (Spec => []NoTornExecution)
<1> SUFFICES ASSUME SingleHead PROVE Spec => []NoTornExecution
  OBVIOUS
<1>1. Init => NoTornExecution
  BY DEF Init, NoTornExecution
<1>2. IInv /\ NoTornExecution /\ [Next]_vars => NoTornExecution'
  BY NoTornStep
<1> QED
  BY <1>1, <1>2, Invariant, PTL DEF Spec

-----------------------------------------------------------------------------
(* The publication implements CodeVersion.                                 *)


\* Inside a publication nothing but the last store changes the version.
LEMMA VersionHolds ==
  ASSUME IInv, IInv', NEW w \in Writers,
         LoadFront(w) \/ LoadBack(w) \/ GuardFront(w) \/ StoreBack(w)
         \/ Finish(w)
  PROVE  version' = version
<1> USE DEF IInv, TypeOK, MemoryInv, Ownership, OneWriter, Op, Version, Word,
            Fetched, WriterPC, Expected
<1>1. CASE LoadFront(w) \/ LoadBack(w) \/ Finish(w)
  <2>1. front # "guard" /\ UNCHANGED front
    BY <1>1 DEF LoadFront, LoadBack, Finish
  <2> QED
    BY <2>1 DEF version
<1>2. CASE GuardFront(w)
  <2>1. curF[w] = front /\ front = Expected(op[w]) /\ front # "guard"
    BY <1>2 DEF GuardFront
  <2>2. op' = op /\ wpc'[w] = "waitGuard"
    BY <1>2, <2>1 DEF GuardFront
  <2>3. version' = Expected(op[w])
    BY <2>2 DEF version
  <2> QED
    BY <2>1, <2>3 DEF version
<1>3. CASE StoreBack(w)
  <2>1. op' = op /\ wpc[w] = "waitGuard" /\ wpc'[w] = "waitBack"
    BY <1>3 DEF StoreBack
  <2>2. version' = Expected(op[w])
    BY <2>1 DEF version
  <2> QED
    BY <2>1, <2>2, VersionDuringWait
<1> QED
  BY <1>1, <1>2, <1>3

LEMMA AbstractStep ==
  SingleHead /\ IInv /\ IInv' /\ [Next]_vars => [Abstract!Next]_(Abstract!vars)
<1> SUFFICES ASSUME SingleHead, IInv, IInv', [Next]_vars
             PROVE  [Abstract!Next]_(Abstract!vars)
  OBVIOUS
<1> USE DEF wvars, evars, Abstract!vars
<1>1. ASSUME NEW w \in Writers, NEW o \in Op, Begin(w, o)
      PROVE  [Abstract!Next]_(Abstract!vars)
  <2>1. UNCHANGED version
    BY <1>1 DEF Begin, version, IInv, TypeOK, Ownership
  <2>2. CASE phase = "IDLE"
    <3>1. Abstract!Start(w, o)
      BY <1>1, <2>1, <2>2
         DEF Begin, IInv, Ownership, Abstract!Start, Abstract!Quiet,
             Abstract!Call
    <3> QED
      BY <3>1 DEF Abstract!Next, Op
  <2>3. CASE phase # "IDLE"
    <3>1. Abstract!Refuse(w, o)
      BY <1>1, <2>1, <2>3
         DEF Begin, IInv, Ownership, Abstract!Refuse, Abstract!Call
    <3> QED
      BY <3>1 DEF Abstract!Next, Op
  <2> QED
    BY <2>2, <2>3
<1>2. ASSUME NEW w \in Writers, NEW o \in Op, PublishQuiescent(w, o)
      PROVE  [Abstract!Next]_(Abstract!vars)
  <2>1. front # "guard" /\ front = back /\ version = front /\ Abstract!Quiet
    BY <1>2 DEF PublishQuiescent, IInv, Ownership, MemoryInv, version,
                Abstract!Quiet
  <2>2. Abstract!AtOnce(w, o)
    <3>1. CASE front = Expected(o)
      BY <1>2, <2>1, <3>1
         DEF PublishQuiescent, Abstract!AtOnce, Abstract!Call, Abstract!Quiet,
             Abstract!Effect, Abstract!From, Abstract!To, version, Op,
             Expected, Replacement
    <3>2. CASE front # Expected(o)
      BY <1>2, <2>1, <3>2
         DEF PublishQuiescent, Abstract!AtOnce, Abstract!Call, Abstract!Quiet,
             Abstract!Effect, Abstract!From, Abstract!To, version, Op,
             Expected, Replacement, IInv, TypeOK, Word, Version
    <3> QED
      BY <3>1, <3>2
  <2> QED
    BY <2>2 DEF Abstract!Next, Op
<1>3. ASSUME NEW w \in Writers, LoadBack(w)
      PROVE  [Abstract!Next]_(Abstract!vars)
  <2>1. UNCHANGED version
    BY <1>3, VersionHolds
  <2>2. CASE curF[w] = Expected(op[w]) /\ back = Expected(op[w])
    BY <1>3, <2>1, <2>2 DEF LoadBack
  <2>3. CASE ~(curF[w] = Expected(op[w]) /\ back = Expected(op[w]))
    <3>1. front # "guard" /\ front = back /\ curF[w] = front
      BY <1>3 DEF LoadBack, IInv, Ownership, OneWriter, MemoryInv
    <3>2. version = Abstract!To(op[w])
      BY <2>3, <3>1
         DEF version, IInv, TypeOK, Word, Version, Op, Expected, Abstract!To
    <3>3. Abstract!Complete(w)
      BY <1>3, <2>1, <2>3, <3>2
         DEF LoadBack, IInv, Ownership, Abstract!Complete, Abstract!Effect
    <3> QED
      BY <3>3 DEF Abstract!Next
  <2> QED
    BY <2>2, <2>3
<1>4. ASSUME NEW w \in Writers, StoreFront(w)
      PROVE  [Abstract!Next]_(Abstract!vars)
  <2>1. version = Abstract!From(op[w])
    BY <1>4, VersionDuringWait DEF StoreFront, Expected, Abstract!From
  <2>2. version' = Abstract!To(op[w])
    BY <1>4 DEF StoreFront, version, Replacement, Abstract!To
  <2>3. Abstract!Complete(w)
    BY <1>4, <2>1, <2>2
       DEF StoreFront, IInv, Ownership, Abstract!Complete, Abstract!Effect
  <2> QED
    BY <2>3 DEF Abstract!Next
<1>5. ASSUME NEW w \in Writers,
             LoadFront(w) \/ GuardFront(w) \/ StoreBack(w) \/ Finish(w)
      PROVE  UNCHANGED Abstract!vars
  <2>1. UNCHANGED version
    BY <1>5, VersionHolds
  <2>2. GuardFront(w) => curF[w] = front
    BY DEF GuardFront, IInv, MemoryInv
  <2> QED
    BY <1>5, <2>1, <2>2 DEF LoadFront, GuardFront, StoreBack, Finish
<1>6. ASSUME NEW e \in Executors, Execute(e)
      PROVE  [Abstract!Next]_(Abstract!vars)
  <2>1. UNCHANGED <<version, op, res>>
    BY <1>6 DEF Execute, version
  <2>2. Decode(at[e], inF[e], inB[e]) \in {version, "tail", "trap"}
    BY <1>6, DecodeCurrent DEF Execute
  <2>3. ran' = [ran EXCEPT ![e] = Decode(at[e], inF[e], inB[e])]
    BY <1>6 DEF Execute
  <2> QED
    BY <2>1, <2>2, <2>3 DEF Abstract!Next, Abstract!Run
<1>7. ASSUME UNCHANGED <<front, wpc, op, res, ran>>
      PROVE  UNCHANGED Abstract!vars
  BY <1>7 DEF version
<1> QED
  BY <1>1, <1>2, <1>3, <1>4, <1>5, <1>6, <1>7
     DEF Next, WriterStep, ExecutorStep, Enter, Flush, FetchFront, FetchBack,
         HandlerReturns, Tick, vars

\* For plans without a head inside the jump the protocol implements
\* CodeVersion: apply and revert are atomic, exclusive and truthful, and every
\* instruction that runs at the site is of the current version.
THEOREM Refinement == SingleHead => (Spec => RunsOneVersion)
<1> SUFFICES ASSUME SingleHead PROVE Spec => RunsOneVersion
  OBVIOUS
<1>1. Init => Abstract!Init
  BY DEF Init, Abstract!Init, version
<1>2. IInv /\ IInv' /\ [Next]_vars => [Abstract!Next]_(Abstract!vars)
  BY AbstractStep
<1> QED
  BY <1>1, <1>2, Invariant, PTL DEF Spec, RunsOneVersion, Abstract!Spec
=============================================================================
