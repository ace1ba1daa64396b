-------------------------- MODULE SyncBatch_proofs --------------------------
(***************************************************************************)
(* Proofs about SyncBatch, for every set of members, batches and           *)
(* executors.                                                              *)
(***************************************************************************)
EXTENDS SyncBatch, WellFoundedInduction, TLAPS

\* Nobody is changing a member: it is free or held by a batch not yet prepared.
Quiet(m) == lease[m] = "none" \/ phase[lease[m]] = "acquiring"

\* The store loop of a batch in progress has reached the member.
Written(b, m) == todo[b] # {} /\ m \in Stores(b, phase[b]) \ todo[b]

\* What the halves of a member hold while its batch is live.
Guarded(b, m) ==
  /\ m \in Split
  /\ \/ phase[b] = "Prepared" /\ Written(b, m)
     \/ phase[b] \in {"GuardsPublished", "GuardsSynchronized", "BacksPublished"}
     \/ phase[b] = "BacksSynchronized" /\ ~Written(b, m)

NewFront(b, m) ==
  \/ phase[b] = "FrontsPublished"
  \/ phase[b] = "BacksSynchronized" /\ Written(b, m)

NewBack(b, m) ==
  \/ NewFront(b, m)
  \/ /\ m \in Split
     /\ \/ phase[b] \in {"BacksPublished", "BacksSynchronized"}
        \/ phase[b] = "GuardsSynchronized" /\ Written(b, m)

Image(b, m) ==
  /\ front[m] = IF Guarded(b, m) THEN "guard"
                ELSE IF NewFront(b, m) THEN Replacement(dir[b]) ELSE Expected(dir[b])
  /\ back[m] = IF NewBack(b, m) THEN Replacement(dir[b]) ELSE Expected(dir[b])

MemberInv(m) ==
  /\ Quiet(m) => front[m] = back[m]
  /\ ~Quiet(m) => phase[lease[m]] \in Live /\ Image(lease[m], m)

\* The bytes an executor may have fetched from a member since the last barrier.
FrontsSince(b, m) ==
  (IF m \in Split
   THEN (IF phase[b] = "Prepared" /\ todo[b] = {} THEN {} ELSE {"guard"})
        \cup (IF phase[b] \in {"Prepared", "GuardsPublished"}
              THEN {Expected(dir[b])} ELSE {})
   ELSE {Expected(dir[b])})
  \cup (IF \/ phase[b] = "FrontsPublished"
           \/ phase[b] = "BacksSynchronized" /\ todo[b] # {}
        THEN {Replacement(dir[b])} ELSE {})

BacksSince(b) ==
  (IF phase[b] \in {"BacksSynchronized", "FrontsPublished"}
   THEN {} ELSE {Expected(dir[b])})
  \cup (IF phase[b] \in {"Prepared", "GuardsPublished"}
        THEN {} ELSE {Replacement(dir[b])})

\* What an executor holds was there since the last barrier, so that its two
\* halves belong together unless it met a guard.
FlightInv(e) ==
  LET m == at[e] IN
  /\ ran[e] # "torn"
  /\ epc[e] # "run" => inF[e] = "none" /\ inB[e] = "none"
  /\ m \notin Split => inB[e] = "none"
  /\ Quiet(m) => inF[e] \in {"none", front[m]} /\ inB[e] \in {"none", back[m]}
  /\ ~Quiet(m) => /\ inF[e] \in {"none"} \cup FrontsSince(lease[m], m)
                  /\ inB[e] \in {"none"} \cup BacksSince(lease[m])

\* The barriers a batch has completed in each phase.
Syncs(p) == CASE p \in {"Prepared", "GuardsPublished"} -> 0
              [] p \in {"GuardsSynchronized", "BacksPublished"} -> 1
              [] p \in {"BacksSynchronized", "FrontsPublished"} -> 2

\* A batch holds what it has acquired, all of its members while it is live and
\* none afterwards; it has stored nothing as long as it says so.
BatchInv(b) ==
  /\ phase[b] \in {"absent", "Complete", "Aborted"} => HeldBy(b) = {} /\ todo[b] = {}
  /\ phase[b] = "absent" => ~mutated[b] /\ syncs[b] = 0
  /\ phase[b] # "absent" => chosen[b] # {}
  /\ phase[b] = "acquiring" =>
       /\ HeldBy(b) = chosen[b] \ todo[b] /\ todo[b] \subseteq chosen[b]
       /\ ~mutated[b] /\ syncs[b] = 0
  /\ phase[b] \in Live =>
       /\ HeldBy(b) = chosen[b] /\ syncs[b] = Syncs(phase[b])
       /\ phase[b] \in StorePhases => todo[b] \subseteq Stores(b, phase[b])
       /\ phase[b] \in BarrierPhases => todo[b] = {}
       /\ ~mutated[b] =>
            /\ todo[b] = {} /\ phase[b] # "FrontsPublished"
            /\ phase[b] = "Prepared" \/ chosen[b] \cap Split = {}
  /\ phase[b] = "Complete" => syncs[b] = 3 /\ mutated[b]

\* The inductive invariant.
IInv ==
  /\ TypeOK
  /\ \A b \in Batches : BatchInv(b)
  /\ \A m \in Members : MemberInv(m)
  /\ \A e \in Executors : FlightInv(e)

-----------------------------------------------------------------------------
(* Facts about the operators.                                              *)

\* The address order picks a member of every set of members: the loops of
\* prepare and advance reach one.
LEMMA FirstIsMember ==
  ASSUME NEW S \in SUBSET Members, S # {}
  PROVE  First(S) \in S
<1> DEFINE R == OpToRel(<, Nat)
<1>1. IsWellFoundedOn(R, Nat)
  BY NatLessThanWellFounded, Zenon
<1>2. \A x, y \in Nat : y < x => <<y, x>> \in R
  BY Zenon DEF OpToRel
<1> HIDE DEF R
<1>3. S \subseteq Nat
  BY MembersAssumption
<1>4. PICK x \in S : \A y \in S : ~(<<y, x>> \in R)
  BY <1>1, <1>3, WFMin, Zenon
<1>5. \A y \in S : x <= y
  <2>1. \A y \in S : y \in Nat /\ x \in Nat
    BY <1>3
  <2>2. \A y \in S : ~(y < x)
    BY <1>2, <1>4, <2>1, Zenon
  <2> QED
    BY <2>1, <2>2
<1> QED
  BY <1>5 DEF First

LEMMA Versions ==
  ASSUME NEW d
  PROVE  Expected(d) \in Version /\ Replacement(d) \in Version /\ "guard" \notin Version
         /\ "none" \notin Version
BY DEF Expected, Replacement, Version

\* A batch that lets go frees its members and no others.
LEMMA ReleasedEffect ==
  ASSUME TypeOK, NEW b \in Batches, lease' = Released(b)
  PROVE  /\ lease' \in [Members -> Batches \cup {"none"}]
         /\ \A m \in Members : lease'[m] = IF lease[m] = b THEN "none" ELSE lease[m]
         /\ \A m \in Members : lease'[m] # b
BY BatchesAssumption DEF TypeOK, Released

\* An executor keeps what it has fetched or loses it.
OnlyForgets(e) ==
  /\ epc'[e] = epc[e] /\ at'[e] = at[e] /\ ran'[e] = ran[e]
  /\ inF'[e] \in {inF[e], "none"} /\ inB'[e] \in {inB[e], "none"}

\* The records of a batch are left alone.
SameBatch(c) ==
  /\ phase'[c] = phase[c] /\ todo'[c] = todo[c] /\ chosen'[c] = chosen[c]
  /\ dir'[c] = dir[c] /\ mutated'[c] = mutated[c] /\ syncs'[c] = syncs[c]

LEMMA OtherBatchKept ==
  ASSUME IInv, NEW c \in Batches, SameBatch(c),
         \A m \in Members : (lease'[m] = c) = (lease[m] = c)
  PROVE  BatchInv(c)'
<1>1. BatchInv(c) /\ HeldBy(c)' = HeldBy(c)
  BY DEF IInv, HeldBy
<1> QED
  BY <1>1 DEF BatchInv, SameBatch, Stores

\* A member that no step of its own batch concerns.
LEMMA OtherMemberKept ==
  ASSUME IInv, NEW m \in Members, lease'[m] = lease[m],
         front'[m] = front[m], back'[m] = back[m],
         lease[m] # "none" => SameBatch(lease[m])
  PROVE  /\ MemberInv(m)'
         /\ \A e \in Executors : at[e] = m /\ OnlyForgets(e) => FlightInv(e)'
<1>1. MemberInv(m)'
  BY DEF IInv, MemberInv, Quiet, Image, Guarded, NewFront, NewBack, Written, Stores,
     SameBatch
<1>2. ASSUME NEW e \in Executors, at[e] = m, OnlyForgets(e) PROVE FlightInv(e)'
  <2>1. FlightInv(e)
    BY DEF IInv
  <2>2. Quiet(m)' = Quiet(m) /\ at'[e] = m
    BY <1>2 DEF Quiet, SameBatch, OnlyForgets
  <2>3. CASE Quiet(m)
    BY <1>2, <2>1, <2>2, <2>3 DEF FlightInv, OnlyForgets
  <2>4. CASE ~Quiet(m)
    <3>1. FrontsSince(lease[m], m)' = FrontsSince(lease[m], m)
          /\ BacksSince(lease[m])' = BacksSince(lease[m])
      BY <2>4 DEF Quiet, SameBatch, FrontsSince, BacksSince
    <3> QED
      BY <1>2, <2>1, <2>2, <2>4, <3>1 DEF FlightInv, OnlyForgets
  <2> QED
    BY <2>3, <2>4
<1> QED
  BY <1>1, <1>2

\* A member that is quiet before and after, whoever holds it.
LEMMA QuietKept ==
  ASSUME IInv, NEW m \in Members, Quiet(m), Quiet(m)',
         front'[m] = front[m], back'[m] = back[m]
  PROVE  /\ MemberInv(m)'
         /\ \A e \in Executors : at[e] = m /\ OnlyForgets(e) => FlightInv(e)'
<1>1. MemberInv(m)'
  BY DEF IInv, MemberInv
<1>2. ASSUME NEW e \in Executors, at[e] = m, OnlyForgets(e) PROVE FlightInv(e)'
  BY <1>2 DEF IInv, FlightInv, OnlyForgets
<1> QED
  BY <1>1, <1>2

\* What is left to show for a step of one batch: its own records, the members it
\* holds before or after the step, and the executors that run through those.
LEMMA BatchStepKept ==
  ASSUME IInv, TypeOK', NEW b \in Batches, BatchInv(b)',
         \A c \in Batches \ {b} : SameBatch(c),
         \A m \in Members : lease[m] = b \/ lease'[m] = b =>
           lease[m] \in {"none", b} /\ lease'[m] \in {"none", b} /\ MemberInv(m)',
         \A m \in Members : ~(lease[m] = b \/ lease'[m] = b) =>
           lease'[m] = lease[m] /\ front'[m] = front[m] /\ back'[m] = back[m],
         \A e \in Executors : OnlyForgets(e),
         \A e \in Executors : lease[at[e]] = b \/ lease'[at[e]] = b => FlightInv(e)'
  PROVE  IInv'
<1>1. ASSUME NEW c \in Batches, c # b PROVE BatchInv(c)'
  <2>1. \A m \in Members : (lease'[m] = c) = (lease[m] = c)
    BY <1>1, BatchesAssumption
  <2> QED
    BY <1>1, <2>1, OtherBatchKept
<1>2. ASSUME NEW m \in Members, ~(lease[m] = b \/ lease'[m] = b)
      PROVE  /\ MemberInv(m)'
             /\ \A e \in Executors : at[e] = m => FlightInv(e)'
  <2>1. lease[m] # "none" => lease[m] \in Batches \ {b}
    BY <1>2 DEF IInv, TypeOK
  <2> QED
    BY <1>2, <2>1, OtherMemberKept
<1>3. \A e \in Executors : at[e] \in Members
  BY DEF IInv, TypeOK
<1> QED
  BY <1>1, <1>2, <1>3 DEF IInv

\* A batch that reports no mutation has stored nothing, and nobody has fetched
\* from its members what was not there before it.
LEMMA Unmutated ==
  ASSUME IInv, NEW b \in Batches, phase[b] \in Live, ~mutated[b],
         NEW m \in Members, lease[m] = b
  PROVE  /\ front[m] = Expected(dir[b]) /\ back[m] = Expected(dir[b])
         /\ \A e \in Executors : at[e] = m =>
              inF[e] \in {"none", front[m]} /\ inB[e] \in {"none", back[m]}
<1>1. /\ ~Quiet(m) /\ todo[b] = {} /\ phase[b] # "FrontsPublished"
      /\ (m \in Split => phase[b] = "Prepared")
  BY BatchesAssumption DEF IInv, BatchInv, HeldBy, Quiet, Live, StorePhases, BarrierPhases
<1>2. front[m] = Expected(dir[b]) /\ back[m] = Expected(dir[b])
  BY <1>1 DEF IInv, MemberInv, Image, Guarded, NewFront, NewBack, Written
<1>3. ASSUME NEW e \in Executors, at[e] = m
      PROVE  inF[e] \in {"none", front[m]} /\ inB[e] \in {"none", back[m]}
  BY <1>1, <1>2, <1>3 DEF IInv, FlightInv, FrontsSince, BacksSince
<1> QED
  BY <1>2, <1>3

-----------------------------------------------------------------------------
(* The invariant holds at first and is kept.                               *)

LEMMA InvInit == Init => IInv
<1> SUFFICES ASSUME Init PROVE IInv
  OBVIOUS
<1>1. TypeOK
  <2>1. (CHOOSE m \in Members : TRUE) \in Members
    BY MembersAssumption
  <2>2. /\ front \in [Members -> Word] /\ back \in [Members -> Version]
        /\ lease \in [Members -> Batches \cup {"none"}]
    BY DEF Init, Word, Version
  <2>3. /\ chosen \in [Batches -> SUBSET Members]
        /\ dir \in [Batches -> {"Apply", "Revert"}]
        /\ phase \in [Batches -> Live \cup {"absent", "acquiring", "Complete",
                                            "Aborted"}]
        /\ todo \in [Batches -> SUBSET Members]
    BY DEF Init
  <2>4. /\ mutated \in [Batches -> BOOLEAN] /\ syncs \in [Batches -> 0 .. 3]
        /\ failure \in [Batches -> BOOLEAN] /\ dropped \in [Batches -> BOOLEAN]
    BY DEF Init
  <2>5. /\ epc \in [Executors -> {"out", "run", "handler"}]
        /\ at \in [Executors -> Members]
        /\ inF \in [Executors -> Fetched]
        /\ inB \in [Executors -> Version \cup {"none"}]
        /\ ran \in [Executors -> {"none", "old", "new", "trap", "torn"}]
    BY <2>1 DEF Init, Fetched
  <2> QED
    BY <2>2, <2>3, <2>4, <2>5 DEF TypeOK
<1>2. ASSUME NEW b \in Batches PROVE BatchInv(b)
  BY BatchesAssumption DEF Init, BatchInv, HeldBy, Live, StorePhases, BarrierPhases
<1>3. ASSUME NEW m \in Members PROVE MemberInv(m)
  BY DEF Init, MemberInv, Quiet
<1>4. ASSUME NEW e \in Executors PROVE FlightInv(e)
  BY <1>1 DEF Init, FlightInv, Quiet, TypeOK
<1> QED
  BY <1>1, <1>2, <1>3, <1>4 DEF IInv

\* A batch may let its members go when each holds one image and nobody has
\* fetched anything else from it.
LEMMA ReleaseKept ==
  ASSUME IInv, TypeOK', NEW b \in Batches, lease' = Released(b), BatchInv(b)',
         UNCHANGED <<memory, evars>>,
         \A c \in Batches \ {b} : SameBatch(c),
         \A m \in Members : lease[m] = b =>
           /\ front[m] = back[m]
           /\ \A e \in Executors : at[e] = m =>
                inF[e] \in {"none", front[m]} /\ inB[e] \in {"none", back[m]}
  PROVE  IInv'
<1>1. \A m \in Members : lease'[m] = IF lease[m] = b THEN "none" ELSE lease[m]
  BY ReleasedEffect DEF IInv
<1>2. \A m \in Members : lease'[m] # b
  BY <1>1, BatchesAssumption
<1>3. ASSUME NEW m \in Members, lease[m] = b
      PROVE  /\ MemberInv(m)'
             /\ \A e \in Executors : at[e] = m => FlightInv(e)'
  BY <1>1, <1>3 DEF IInv, MemberInv, FlightInv, Quiet, memory, evars
<1>4. \A e \in Executors : OnlyForgets(e) /\ at[e] \in Members
  BY DEF OnlyForgets, evars, IInv, TypeOK
<1> QED
  BY <1>1, <1>2, <1>3, <1>4, BatchStepKept DEF memory

LEMMA DiscardKept ==
  ASSUME IInv, NEW b \in Batches, Discard(b), UNCHANGED <<memory, dropped, evars>>,
         \A m \in Members : lease[m] = b =>
           /\ front[m] = back[m]
           /\ \A e \in Executors : at[e] = m =>
                inF[e] \in {"none", front[m]} /\ inB[e] \in {"none", back[m]}
  PROVE  IInv'
<1>1. /\ phase'[b] = "absent" /\ todo'[b] = {} /\ ~mutated'[b] /\ syncs'[b] = 0
      /\ \A c \in Batches \ {b} : SameBatch(c)
  BY DEF Discard, SameBatch, IInv, TypeOK
<1>2. /\ lease' \in [Members -> Batches \cup {"none"}]
      /\ \A m \in Members : lease'[m] # b
  BY ReleasedEffect DEF Discard, IInv
<1>3. TypeOK'
  BY <1>2 DEF Discard, IInv, TypeOK, memory, evars
<1>4. BatchInv(b)'
  BY <1>1, <1>2 DEF BatchInv, HeldBy, Live, StorePhases, BarrierPhases
<1> QED
  BY <1>1, <1>3, <1>4, ReleaseKept DEF Discard

LEMMA KeptByPrepare ==
  ASSUME IInv, NEW b \in Batches, NEW S \in (SUBSET Members) \ {{}},
         NEW d \in {"Apply", "Revert"}, Prepare(b, S, d)
  PROVE  IInv'
<1>1. /\ phase[b] = "absent" /\ phase'[b] = "acquiring" /\ todo'[b] = S /\ chosen'[b] = S
      /\ \A c \in Batches \ {b} : SameBatch(c)
  BY DEF Prepare, SameBatch, IInv, TypeOK
<1>2. /\ HeldBy(b) = {} /\ HeldBy(b)' = {} /\ ~mutated'[b] /\ syncs'[b] = 0
  BY <1>1 DEF Prepare, IInv, BatchInv, HeldBy
<1>3. TypeOK'
  BY DEF Prepare, IInv, TypeOK, memory, evars
<1>4. BatchInv(b)'
  BY <1>1, <1>2 DEF BatchInv, Live, StorePhases, BarrierPhases
<1>5. \A m \in Members : lease[m] # b /\ lease'[m] = lease[m]
  BY <1>2 DEF HeldBy, Prepare
<1>6. \A e \in Executors : OnlyForgets(e) /\ at[e] \in Members
  BY DEF OnlyForgets, Prepare, evars, IInv, TypeOK
<1> QED
  BY <1>1, <1>3, <1>4, <1>5, <1>6, BatchStepKept DEF Prepare, memory

\* The members that a batch under construction holds are quiet.
LEMMA AcquiringIsQuiet ==
  ASSUME IInv, NEW b \in Batches, phase[b] = "acquiring", NEW m \in Members, lease[m] = b
  PROVE  /\ front[m] = back[m]
         /\ \A e \in Executors : at[e] = m =>
              inF[e] \in {"none", front[m]} /\ inB[e] \in {"none", back[m]}
BY DEF IInv, MemberInv, FlightInv, Quiet

LEMMA KeptByAcquire ==
  ASSUME IInv, NEW b \in Batches, Acquire(b)
  PROVE  IInv'
<1> DEFINE m == First(todo[b])
<1>1. /\ phase[b] = "acquiring" /\ m \in todo[b] /\ m \in Members
      /\ todo[b] \in SUBSET Members /\ m \in chosen[b]
      /\ UNCHANGED <<memory, dropped, evars>>
  BY FirstIsMember DEF Acquire, IInv, TypeOK, BatchInv
<1>2. CASE lease[m] = "none"
  <2> HIDE DEF m
  <2>1. /\ lease' = [lease EXCEPT ![m] = b]
        /\ todo' = [todo EXCEPT ![b] = @ \ {m}]
        /\ UNCHANGED <<phase, chosen, dir, mutated, syncs, failure>>
    BY <1>2 DEF Acquire, m
  <2>2. /\ lease'[m] = b /\ \A x \in Members \ {m} : lease'[x] = lease[x]
        /\ todo'[b] = todo[b] \ {m}
        /\ \A c \in Batches \ {b} : SameBatch(c)
    BY <1>1, <2>1 DEF SameBatch, IInv, TypeOK
  <2>3. TypeOK'
    BY <1>1, <2>1 DEF IInv, TypeOK, memory, evars
  <2>4. BatchInv(b)'
    <3>1. HeldBy(b)' = HeldBy(b) \cup {m}
      BY <1>1, <2>2 DEF HeldBy
    <3>2. BatchInv(b)
      BY DEF IInv
    <3> QED
      BY <1>1, <2>1, <2>2, <3>1, <3>2 DEF BatchInv, Live, StorePhases, BarrierPhases
  <2>5. \A e \in Executors : OnlyForgets(e) /\ at[e] \in Members
    BY <1>1 DEF OnlyForgets, evars, IInv, TypeOK
  <2>6. ASSUME NEW x \in Members, lease[x] = b \/ lease'[x] = b
        PROVE  /\ lease[x] \in {"none", b} /\ lease'[x] \in {"none", b} /\ MemberInv(x)'
               /\ \A e \in Executors : at[e] = x => FlightInv(e)'
    <3>1. Quiet(x) /\ Quiet(x)' /\ lease[x] \in {"none", b} /\ lease'[x] \in {"none", b}
      BY <1>1, <1>2, <2>1, <2>2, <2>6 DEF Quiet
    <3> QED
      BY <1>1, <2>5, <3>1, QuietKept DEF memory
  <2> QED
    BY <1>1, <2>2, <2>3, <2>4, <2>5, <2>6, BatchStepKept DEF memory
<1>3. CASE lease[m] # "none"
  BY <1>1, <1>3, DiscardKept, AcquiringIsQuiet DEF Acquire
<1> QED
  BY <1>2, <1>3

LEMMA KeptByPreflight ==
  ASSUME IInv, NEW b \in Batches, Preflight(b)
  PROVE  IInv'
<1>1. phase[b] = "acquiring" /\ todo[b] = {} /\ UNCHANGED <<memory, dropped, evars>>
  BY DEF Preflight
<1>2. CASE \A m \in chosen[b] : front[m] = Expected(dir[b]) /\ back[m] = Expected(dir[b])
  <2>1. /\ phase' = [phase EXCEPT ![b] = "Prepared"]
        /\ UNCHANGED <<lease, todo, chosen, dir, mutated, syncs, failure>>
    BY <1>2 DEF Preflight
  <2>2. phase'[b] = "Prepared" /\ \A c \in Batches \ {b} : SameBatch(c)
    BY <2>1 DEF SameBatch, IInv, TypeOK
  <2>3. TypeOK'
    BY <1>1, <2>1 DEF IInv, TypeOK, memory, evars, Live, StorePhases
  <2>4. BatchInv(b)' /\ HeldBy(b) = chosen[b]
    BY <1>1, <2>1, <2>2 DEF IInv, BatchInv, HeldBy, Live, StorePhases, BarrierPhases,
       Syncs
  <2>5. \A e \in Executors : OnlyForgets(e) /\ at[e] \in Members
    BY <1>1 DEF OnlyForgets, evars, IInv, TypeOK
  <2>6. ASSUME NEW x \in Members, lease[x] = b
        PROVE  /\ MemberInv(x)'
               /\ \A e \in Executors : at[e] = x => FlightInv(e)'
    <3>1. Quiet(x) /\ ~Quiet(x)' /\ lease'[x] = b /\ x \in chosen[b]
      BY <1>1, <2>1, <2>2, <2>4, <2>6, BatchesAssumption DEF Quiet, HeldBy
    <3>2. MemberInv(x)'
      BY <1>1, <1>2, <2>1, <2>2, <3>1 DEF MemberInv, Image, Guarded, NewFront, NewBack,
         Written, Live, StorePhases, memory
    <3>3. FrontsSince(b, x)' = {Expected(dir[b])} /\ BacksSince(b)' = {Expected(dir[b])}
      BY <1>1, <2>1, <2>2 DEF FrontsSince, BacksSince
    <3>4. ASSUME NEW e \in Executors, at[e] = x PROVE FlightInv(e)'
      <4>1. FlightInv(e) /\ at'[e] = x
        BY <1>1, <3>4 DEF IInv, evars
      <4>2. front[x] = Expected(dir[b]) /\ back[x] = Expected(dir[b])
        BY <1>2, <3>1
      <4> QED
        BY <1>1, <3>1, <3>3, <3>4, <4>1, <4>2 DEF FlightInv, evars
    <3> QED
      BY <3>2, <3>4
  <2> QED
    BY <1>1, <2>1, <2>2, <2>3, <2>4, <2>5, <2>6, BatchStepKept DEF memory
<1>3. CASE ~\A m \in chosen[b] : front[m] = Expected(dir[b]) /\ back[m] = Expected(dir[b])
  BY <1>1, <1>3, DiscardKept, AcquiringIsQuiet DEF Preflight
<1> QED
  BY <1>2, <1>3

-----------------------------------------------------------------------------
(* The advances of a live batch.                                           *)

\* A member that a live batch holds.
LEMMA LiveMember ==
  ASSUME IInv, NEW b \in Batches, phase[b] \in Live, NEW m \in Members, lease[m] = b
  PROVE  /\ ~Quiet(m) /\ Image(b, m) /\ m \in chosen[b]
         /\ \A e \in Executors : at[e] = m =>
              /\ inF[e] \in {"none"} \cup FrontsSince(b, m)
              /\ inB[e] \in {"none"} \cup BacksSince(b)
BY BatchesAssumption DEF IInv, MemberInv, FlightInv, BatchInv, HeldBy, Quiet, Live,
   StorePhases, BarrierPhases

\* What is left to show for an advance that keeps the leases: the new image of
\* each member, and that what may be in flight only grows or is cleared.
LEMMA AdvanceKept ==
  ASSUME IInv, TypeOK', NEW b \in Batches, phase[b] \in Live, phase'[b] \in Live,
         BatchInv(b)', lease' = lease,
         \A c \in Batches \ {b} : SameBatch(c),
         \A m \in Members : lease[m] # b => front'[m] = front[m] /\ back'[m] = back[m],
         \A m \in Members : lease[m] = b => Image(b, m)',
         \A e \in Executors : OnlyForgets(e),
         \A m \in Members : lease[m] = b =>
           \/ /\ FrontsSince(b, m) \subseteq FrontsSince(b, m)'
              /\ BacksSince(b) \subseteq BacksSince(b)'
           \/ \A e \in Executors : inF'[e] = "none" /\ inB'[e] = "none"
  PROVE  IInv'
<1>1. ASSUME NEW m \in Members, lease[m] = b
      PROVE  /\ MemberInv(m)'
             /\ \A e \in Executors : at[e] = m => FlightInv(e)'
  <2>1. ~Quiet(m)' /\ lease'[m] = b
    BY <1>1, BatchesAssumption DEF Quiet, Live, StorePhases, BarrierPhases
  <2>2. MemberInv(m)'
    BY <1>1, <2>1 DEF MemberInv
  <2>3. ASSUME NEW e \in Executors, at[e] = m PROVE FlightInv(e)'
    <3>1. /\ FlightInv(e) /\ OnlyForgets(e) /\ at'[e] = m
          /\ inF[e] \in {"none"} \cup FrontsSince(b, m)
          /\ inB[e] \in {"none"} \cup BacksSince(b)
      BY <1>1, <2>3, LiveMember DEF IInv, OnlyForgets
    <3> QED
      BY <1>1, <2>1, <3>1 DEF FlightInv, OnlyForgets
  <2> QED
    BY <2>2, <2>3
<1>2. \A e \in Executors : at[e] \in Members
  BY DEF IInv, TypeOK
<1> QED
  BY <1>1, <1>2, BatchStepKept

LEMMA StoresAreChosen ==
  ASSUME NEW b, NEW p
  PROVE  Stores(b, p) \subseteq chosen[b]
BY DEF Stores

\* Starting a store loop changes no member; a loop with nothing to do moves on.
LEMMA KeptByStartStores ==
  ASSUME IInv, NEW b \in Batches, StartStores(b)
  PROVE  IInv'
<1> DEFINE S == Stores(b, phase[b])
<1>1. /\ phase[b] \in StorePhases /\ phase[b] \in Live /\ todo[b] = {}
      /\ S \subseteq Members /\ S \subseteq chosen[b] /\ chosen[b] # {}
      /\ (phase[b] = "BacksSynchronized" => S = chosen[b])
      /\ (phase[b] # "BacksSynchronized" => S = chosen[b] \cap Split)
      /\ UNCHANGED <<memory, lease, chosen, dir, syncs, failure, dropped, evars>>
  BY DEF StartStores, Ready, IInv, TypeOK, BatchInv, Live, Stores, StorePhases
<1> HIDE DEF S
<1>2. /\ mutated' = [mutated EXCEPT ![b] = @ \/ S # {}] /\ todo' = [todo EXCEPT ![b] = S]
      /\ phase' = IF S = {} THEN [phase EXCEPT ![b] = NextPhase(@)] ELSE phase
  BY DEF StartStores, S
<1>3. /\ mutated'[b] = (mutated[b] \/ S # {}) /\ todo'[b] = S
      /\ \A c \in Batches \ {b} : SameBatch(c)
      /\ mutated' \in [Batches -> BOOLEAN] /\ todo' \in [Batches -> SUBSET Members]
  BY <1>1, <1>2 DEF SameBatch, IInv, TypeOK
<1>4. \A e \in Executors : OnlyForgets(e)
  BY <1>1 DEF OnlyForgets, evars
<1>5. BatchInv(b)
  BY DEF IInv
<1>6. \A m \in Members : (lease[m] = b) = (m \in chosen[b])
  BY <1>1, <1>5 DEF BatchInv, HeldBy
<1>7. CASE S # {}
  <2>1. phase' = phase
    BY <1>2, <1>7
  <2>2. TypeOK'
    BY <1>1, <1>3, <2>1 DEF IInv, TypeOK, memory, evars
  <2>3. BatchInv(b)'
    <3>1. HeldBy(b)' = HeldBy(b)
      BY <1>1 DEF HeldBy
    <3>2. Stores(b, phase[b])' = S
      BY <1>1, <2>1 DEF Stores, S
    <3> QED
      BY <1>1, <1>3, <1>5, <1>7, <2>1, <3>1, <3>2
      DEF BatchInv, StorePhases, BarrierPhases, Live
  <2>4. ASSUME NEW m \in Members, lease[m] = b
        PROVE  /\ Image(b, m)'
               /\ FrontsSince(b, m) \subseteq FrontsSince(b, m)'
               /\ BacksSince(b) \subseteq BacksSince(b)'
    <3>1. Image(b, m)
      BY <1>1, <2>4, LiveMember
    <3>2. ~Written(b, m) /\ ~Written(b, m)'
      BY <1>1, <1>3, <2>1 DEF Written, Stores, S
    <3>3. Image(b, m)'
      BY <1>1, <2>1, <3>1, <3>2 DEF Image, Guarded, NewFront, NewBack, memory
    <3> QED
      BY <1>1, <1>3, <1>7, <2>1, <3>3 DEF FrontsSince, BacksSince
  <2> QED
    BY <1>1, <1>3, <1>4, <2>1, <2>2, <2>3, <2>4, AdvanceKept DEF memory
<1>8. CASE S = {}
  <2>1. /\ phase[b] \in {"Prepared", "GuardsSynchronized"} /\ chosen[b] \cap Split = {}
    BY <1>1, <1>8 DEF StorePhases
  <2>2. /\ phase'[b] = IF phase[b] = "Prepared" THEN "GuardsPublished"
                                               ELSE "BacksPublished"
        /\ phase' \in [Batches -> Live \cup {"absent", "acquiring", "Complete",
                                             "Aborted"}]
        /\ \A c \in Batches \ {b} : SameBatch(c)
    BY <1>1, <1>2, <1>3, <1>8, <2>1 DEF NextPhase, IInv, TypeOK, Live, BarrierPhases,
       SameBatch
  <2>3. TypeOK'
    BY <1>1, <1>3, <2>2 DEF IInv, TypeOK, memory, evars
  <2>4. BatchInv(b)'
    <3>1. HeldBy(b)' = HeldBy(b)
      BY <1>1 DEF HeldBy
    <3> QED
      BY <1>1, <1>3, <1>5, <1>8, <2>1, <2>2, <3>1
      DEF BatchInv, StorePhases, BarrierPhases, Live, Syncs
  <2>5. ASSUME NEW m \in Members, lease[m] = b
        PROVE  /\ Image(b, m)'
               /\ FrontsSince(b, m) \subseteq FrontsSince(b, m)'
               /\ BacksSince(b) \subseteq BacksSince(b)'
    <3>1. Image(b, m) /\ m \notin Split
      BY <1>1, <1>6, <2>1, <2>5, LiveMember
    <3>2. Image(b, m)'
      BY <1>1, <2>1, <2>2, <3>1 DEF Image, Guarded, NewFront, NewBack, memory
    <3> QED
      BY <1>1, <1>3, <1>8, <2>1, <2>2, <3>1, <3>2 DEF FrontsSince, BacksSince
  <2>6. phase'[b] \in Live
    BY <2>2 DEF Live, BarrierPhases
  <2> QED
    BY <1>1, <1>3, <1>4, <2>2, <2>3, <2>4, <2>5, <2>6, AdvanceKept DEF memory
<1> QED
  BY <1>7, <1>8

\* One store: the member written gets its new half, and the store that ends the
\* loop finds every other member of the loop written.
LEMMA KeptByStoreNext ==
  ASSUME IInv, NEW b \in Batches, StoreNext(b)
  PROVE  IInv'
<1> DEFINE m == First(todo[b])
           v == Replacement(dir[b])
           S == Stores(b, phase[b])
<1>1. /\ phase[b] \in StorePhases /\ phase[b] \in Live
      /\ todo[b] # {} /\ todo[b] \subseteq S
      /\ m \in todo[b] /\ m \in Members /\ S \subseteq chosen[b] /\ v \in Version
      /\ (phase[b] = "BacksSynchronized" => S = chosen[b])
      /\ (phase[b] # "BacksSynchronized" => S = chosen[b] \cap Split)
      /\ UNCHANGED <<lease, chosen, dir, mutated, syncs, failure, dropped, evars>>
  BY FirstIsMember, Versions DEF StoreNext, IInv, TypeOK, BatchInv, Live, Stores,
     StorePhases, evars
<1>2. /\ \/ /\ phase[b] = "Prepared"
            /\ front' = [front EXCEPT ![m] = "guard"] /\ back' = back
         \/ /\ phase[b] = "GuardsSynchronized"
            /\ front' = front /\ back' = [back EXCEPT ![m] = v]
         \/ /\ phase[b] = "BacksSynchronized"
            /\ front' = [front EXCEPT ![m] = v]
            /\ back' = IF m \in Split THEN back ELSE [back EXCEPT ![m] = v]
      /\ todo' = [todo EXCEPT ![b] = @ \ {m}]
      /\ phase' = IF todo[b] = {m} THEN [phase EXCEPT ![b] = NextPhase(@)] ELSE phase
  BY DEF StoreNext, StorePhases
<1> HIDE DEF m, v, S
<1>3. BatchInv(b) /\ mutated[b] /\ \A x \in Members : (lease[x] = b) = (x \in chosen[b])
  BY <1>1 DEF IInv, BatchInv, HeldBy
<1>4. /\ todo'[b] = todo[b] \ {m} /\ todo' \in [Batches -> SUBSET Members]
      /\ phase' \in [Batches -> Live \cup {"absent", "acquiring", "Complete", "Aborted"}]
      /\ phase'[b] = CASE todo[b] # {m} -> phase[b]
                       [] todo[b] = {m} /\ phase[b] = "Prepared" -> "GuardsPublished"
                       [] todo[b] = {m} /\ phase[b] = "GuardsSynchronized"
                            -> "BacksPublished"
                       [] todo[b] = {m} /\ phase[b] = "BacksSynchronized"
                            -> "FrontsPublished"
      /\ \A c \in Batches \ {b} : SameBatch(c)
  <2>1. NextPhase(phase[b]) \in Live
    BY <1>1 DEF NextPhase, StorePhases, Live, BarrierPhases
  <2> QED
    BY <1>1, <1>2, <2>1 DEF NextPhase, StorePhases, IInv, TypeOK, SameBatch
<1>5. /\ front' \in [Members -> Word] /\ back' \in [Members -> Version]
      /\ \A x \in Members \ {m} : front'[x] = front[x] /\ back'[x] = back[x]
      /\ phase[b] = "Prepared" => front'[m] = "guard" /\ back'[m] = back[m]
      /\ phase[b] = "GuardsSynchronized" => front'[m] = front[m] /\ back'[m] = v
      /\ phase[b] = "BacksSynchronized" =>
           front'[m] = v /\ back'[m] = IF m \in Split THEN back[m] ELSE v
  BY <1>1, <1>2 DEF IInv, TypeOK, Word
<1>6. TypeOK'
  BY <1>1, <1>4, <1>5 DEF IInv, TypeOK, evars
<1>7. BatchInv(b)'
  <2>1. HeldBy(b)' = HeldBy(b)
    BY <1>1 DEF HeldBy
  <2>2. CASE todo[b] # {m}
    <3>1. phase'[b] = phase[b] /\ Stores(b, phase[b])' = S
      BY <1>1, <1>4, <2>2 DEF Stores, S
    <3> QED
      BY <1>1, <1>3, <1>4, <2>1, <3>1 DEF BatchInv, StorePhases, BarrierPhases, Live
  <2>3. CASE todo[b] = {m}
    BY <1>1, <1>3, <1>4, <2>1, <2>3 DEF BatchInv, StorePhases, BarrierPhases, Live, Syncs
  <2> QED
    BY <2>2, <2>3
<1>8. ASSUME NEW x \in Members, lease[x] = b PROVE Image(b, x)'
  <2>1. Image(b, x) /\ x \in chosen[b] /\ Replacement(dir[b])' = v
        /\ Expected(dir[b])' = Expected(dir[b])
    BY <1>1, <1>8, LiveMember DEF v
  <2>2. Written(b, x) = (x \in S /\ x \notin todo[b])
    BY <1>1 DEF Written, S
  <2>3. CASE todo[b] # {m}
    <3>1. phase'[b] = phase[b] /\ Stores(b, phase[b])' = S
      BY <1>1, <1>4, <2>3 DEF Stores, S
    <3>2. Written(b, x)' = (x \in S /\ (x = m \/ x \notin todo[b]))
      BY <1>1, <1>4, <2>3, <3>1 DEF Written
    <3>3. CASE x # m
      <4>1. Written(b, x)' = Written(b, x)
        BY <2>2, <3>2, <3>3
      <4>2. /\ Guarded(b, x)' = Guarded(b, x) /\ NewFront(b, x)' = NewFront(b, x)
            /\ NewBack(b, x)' = NewBack(b, x)
        BY <3>1, <4>1 DEF Guarded, NewFront, NewBack
      <4> QED
        BY <1>5, <2>1, <3>3, <4>2 DEF Image, v
    <3>4. CASE x = m
      BY <1>1, <1>5, <2>1, <2>2, <3>1, <3>2, <3>4, MembersAssumption
      DEF Image, Guarded, NewFront, NewBack, StorePhases, v
    <3> QED
      BY <3>3, <3>4
  <2>4. CASE todo[b] = {m}
    <3>1. ~Written(b, x)'
      BY <1>4, <2>4 DEF Written
    <3>2. CASE x # m
      BY <1>1, <1>4, <1>5, <2>1, <2>2, <2>4, <3>1, <3>2
      DEF Image, Guarded, NewFront, NewBack, StorePhases, v
    <3>3. CASE x = m
      BY <1>1, <1>4, <1>5, <2>1, <2>2, <2>4, <3>1, <3>3
      DEF Image, Guarded, NewFront, NewBack, StorePhases, v
    <3> QED
      BY <3>2, <3>3
  <2> QED
    BY <2>3, <2>4
<1>9. ASSUME NEW x \in Members
      PROVE  FrontsSince(b, x) \subseteq FrontsSince(b, x)'
             /\ BacksSince(b) \subseteq BacksSince(b)'
  <2>1. CASE todo[b] # {m}
    BY <1>1, <1>4, <2>1 DEF FrontsSince, BacksSince
  <2>2. CASE todo[b] = {m}
    BY <1>1, <1>4, <2>2 DEF FrontsSince, BacksSince, StorePhases
  <2> QED
    BY <2>1, <2>2
<1>10. phase'[b] \in Live /\ \A x \in Members : lease[x] # b => x # m
  BY <1>1, <1>3, <1>4 DEF Live, StorePhases, BarrierPhases
<1>11. \A e \in Executors : OnlyForgets(e)
  BY <1>1 DEF OnlyForgets, evars
<1> QED
  BY <1>1, <1>4, <1>5, <1>6, <1>7, <1>8, <1>9, <1>10, <1>11, AdvanceKept

\* A barrier clears what is in flight; the last one finds every member of the
\* batch with its new image and lets go of it.
LEMMA KeptByBarrier ==
  ASSUME IInv, NEW b \in Batches, Barrier(b)
  PROVE  IInv'
<1>1. /\ phase[b] \in BarrierPhases /\ phase[b] \in Live /\ todo[b] = {}
      /\ UNCHANGED <<memory, chosen, dir, todo, mutated, failure, dropped, epc, at, ran>>
  BY DEF Barrier, Ready, Live
<1>2. /\ \A e \in Executors : inF'[e] = "none" /\ inB'[e] = "none" /\ OnlyForgets(e)
      /\ inF' \in [Executors -> Fetched] /\ inB' \in [Executors -> Version \cup {"none"}]
  BY DEF Barrier, OnlyForgets, Fetched
<1>3. BatchInv(b)
  BY DEF IInv
<1>4. /\ syncs'[b] = syncs[b] + 1 /\ syncs' \in [Batches -> 0 .. 3]
      /\ phase' \in [Batches -> Live \cup {"absent", "acquiring", "Complete", "Aborted"}]
      /\ phase'[b] = CASE phase[b] = "GuardsPublished" -> "GuardsSynchronized"
                       [] phase[b] = "BacksPublished" -> "BacksSynchronized"
                       [] phase[b] = "FrontsPublished" -> "Complete"
      /\ \A c \in Batches \ {b} : SameBatch(c)
  <2>1. NextPhase(phase[b]) \in Live \cup {"Complete"}
    BY <1>1 DEF NextPhase, StorePhases, Live, BarrierPhases
  <2>2. syncs[b] \in 0 .. 2
    BY <1>1, <1>3 DEF BatchInv, Syncs, BarrierPhases
  <2> QED
    BY <1>1, <2>1, <2>2 DEF Barrier, NextPhase, BarrierPhases, IInv, TypeOK, SameBatch
<1>5. CASE phase[b] # "FrontsPublished"
  <2>1. lease' = lease /\ phase'[b] \in Live /\ phase[b] # "Prepared"
    BY <1>1, <1>4, <1>5 DEF Barrier, Live, StorePhases, BarrierPhases
  <2>2. TypeOK'
    BY <1>1, <1>2, <1>4, <2>1 DEF IInv, TypeOK, memory
  <2>3. HeldBy(b)' = HeldBy(b)
    BY <2>1 DEF HeldBy
  <2>4. BatchInv(b)'
    BY <1>1, <1>3, <1>4, <1>5, <2>3 DEF BatchInv, StorePhases, BarrierPhases, Live, Syncs
  <2>5. ASSUME NEW m \in Members, lease[m] = b PROVE Image(b, m)'
    <3>1. Image(b, m)
      BY <1>1, <2>5, LiveMember
    <3>2. ~Written(b, m) /\ ~Written(b, m)'
      BY <1>1 DEF Written
    <3> QED
      BY <1>1, <1>4, <1>5, <3>1, <3>2
      DEF Image, Guarded, NewFront, NewBack, BarrierPhases, memory
  <2> QED
    BY <1>1, <1>2, <1>4, <2>1, <2>2, <2>4, <2>5, AdvanceKept DEF memory
<1>6. CASE phase[b] = "FrontsPublished"
  <2>1. lease' = Released(b) /\ phase'[b] = "Complete"
    BY <1>4, <1>6 DEF Barrier
  <2>2. /\ lease' \in [Members -> Batches \cup {"none"}]
        /\ \A m \in Members : lease'[m] = IF lease[m] = b THEN "none" ELSE lease[m]
        /\ \A m \in Members : lease'[m] # b
    BY <2>1, ReleasedEffect DEF IInv
  <2>3. TypeOK'
    BY <1>1, <1>2, <1>4, <2>2 DEF IInv, TypeOK, memory
  <2>4. BatchInv(b)'
    <3>1. HeldBy(b)' = {}
      BY <2>2 DEF HeldBy
    <3>2. mutated[b] /\ syncs[b] = 2 /\ chosen[b] # {}
      BY <1>1, <1>3, <1>6 DEF BatchInv, Syncs
    <3> QED
      BY <1>1, <1>4, <2>1, <3>1, <3>2 DEF BatchInv, Live, StorePhases, BarrierPhases
  <2>5. ASSUME NEW m \in Members, lease[m] = b
        PROVE  /\ MemberInv(m)'
               /\ \A e \in Executors : at[e] = m => FlightInv(e)'
    <3>1. Quiet(m)' /\ Image(b, m)
      BY <1>1, <2>2, <2>5, LiveMember DEF Quiet
    <3>2. front'[m] = back'[m]
      BY <1>1, <1>6, <3>1 DEF Image, Guarded, NewFront, NewBack, memory
    <3>3. \A e \in Executors : ran[e] # "torn"
      BY DEF IInv, FlightInv
    <3> QED
      BY <1>1, <1>2, <3>1, <3>2, <3>3 DEF MemberInv, FlightInv
  <2>6. \A e \in Executors : at[e] \in Members
    BY DEF IInv, TypeOK
  <2> QED
    BY <1>1, <1>2, <1>4, <2>2, <2>3, <2>4, <2>5, <2>6, BatchStepKept DEF memory
<1> QED
  BY <1>5, <1>6

\* A failed advance lets go of the members only if nothing was stored.
LEMMA KeptByFail ==
  ASSUME IInv, NEW b \in Batches, Fail(b)
  PROVE  IInv'
<1>1. /\ phase[b] \in Live /\ todo[b] = {} /\ failure' \in [Batches -> BOOLEAN]
      /\ UNCHANGED <<memory, chosen, dir, todo, mutated, syncs, dropped, evars>>
  BY DEF Fail, Ready, IInv, TypeOK
<1>2. CASE mutated[b]
  <2>1. UNCHANGED <<lease, phase>>
    BY <1>2 DEF Fail
  <2>2. TypeOK'
    BY <1>1, <2>1 DEF IInv, TypeOK, memory, evars
  <2>3. ASSUME NEW c \in Batches PROVE BatchInv(c)'
    BY <1>1, <2>1, OtherBatchKept DEF SameBatch
  <2>4. \A e \in Executors : OnlyForgets(e) /\ at[e] \in Members
    BY <1>1 DEF OnlyForgets, evars, IInv, TypeOK
  <2>5. ASSUME NEW m \in Members
        PROVE  /\ MemberInv(m)'
               /\ \A e \in Executors : at[e] = m => FlightInv(e)'
    BY <1>1, <2>1, <2>4, OtherMemberKept DEF SameBatch, memory
  <2> QED
    BY <2>2, <2>3, <2>4, <2>5 DEF IInv
<1>3. CASE ~mutated[b]
  <2>1. lease' = Released(b) /\ phase' = [phase EXCEPT ![b] = "Aborted"]
    BY <1>3 DEF Fail
  <2>2. phase'[b] = "Aborted" /\ \A c \in Batches \ {b} : SameBatch(c)
    BY <1>1, <2>1 DEF SameBatch, IInv, TypeOK
  <2>3. /\ lease' \in [Members -> Batches \cup {"none"}]
        /\ \A m \in Members : lease'[m] # b
    BY <2>1, ReleasedEffect DEF IInv
  <2>4. TypeOK'
    BY <1>1, <2>1, <2>3 DEF IInv, TypeOK, memory, evars
  <2>5. BatchInv(b)'
    <3>1. HeldBy(b)' = {} /\ chosen[b] # {}
      BY <1>1, <2>3 DEF HeldBy, IInv, BatchInv, Live, StorePhases, BarrierPhases
    <3> QED
      BY <1>1, <2>2, <3>1 DEF BatchInv, Live, StorePhases, BarrierPhases
  <2>6. ASSUME NEW m \in Members, lease[m] = b
        PROVE  /\ front[m] = back[m]
               /\ \A e \in Executors : at[e] = m =>
                    inF[e] \in {"none", front[m]} /\ inB[e] \in {"none", back[m]}
    BY <1>1, <1>3, <2>6, Unmutated
  <2> QED
    BY <1>1, <2>1, <2>2, <2>4, <2>5, <2>6, ReleaseKept
<1> QED
  BY <1>2, <1>3

LEMMA KeptByDrop ==
  ASSUME IInv, NEW b \in Batches, Drop(b)
  PROVE  IInv'
<1>1. CASE phase[b] \in Live /\ mutated[b]
  <2>1. /\ dropped' = [dropped EXCEPT ![b] = TRUE]
        /\ UNCHANGED <<lease, phase, todo, chosen, dir, mutated, syncs, failure, memory,
                       evars>>
    BY <1>1 DEF Drop
  <2>2. TypeOK'
    BY <2>1 DEF IInv, TypeOK, memory, evars
  <2>3. ASSUME NEW c \in Batches PROVE BatchInv(c)'
    BY <2>1, OtherBatchKept DEF SameBatch
  <2>4. \A e \in Executors : OnlyForgets(e) /\ at[e] \in Members
    BY <2>1 DEF OnlyForgets, evars, IInv, TypeOK
  <2>5. ASSUME NEW m \in Members
        PROVE  /\ MemberInv(m)'
               /\ \A e \in Executors : at[e] = m => FlightInv(e)'
    BY <2>1, <2>4, OtherMemberKept DEF SameBatch, memory
  <2> QED
    BY <2>2, <2>3, <2>4, <2>5 DEF IInv
<1>2. CASE ~(phase[b] \in Live /\ mutated[b])
  <2>1. Discard(b) /\ UNCHANGED <<memory, dropped, evars>>
        /\ phase[b] \in Live \cup {"Aborted", "Complete"}
    BY <1>2 DEF Drop
  <2>2. ASSUME NEW m \in Members, lease[m] = b
        PROVE  /\ front[m] = back[m]
               /\ \A e \in Executors : at[e] = m =>
                    inF[e] \in {"none", front[m]} /\ inB[e] \in {"none", back[m]}
    <3>1. phase[b] \in Live
      BY <2>1, <2>2 DEF IInv, BatchInv, HeldBy
    <3> QED
      BY <1>2, <2>2, <3>1, Unmutated
  <2> QED
    BY <2>1, <2>2, DiscardKept
<1> QED
  BY <1>1, <1>2

-----------------------------------------------------------------------------
(* The steps of an executor.                                               *)

\* An executor's step concerns no batch and no member, and no other executor.
LEMMA ExecutorStepKept ==
  ASSUME IInv, NEW x \in Executors, UNCHANGED <<memory, bvars>>, TypeOK', FlightInv(x)',
         \A e \in Executors \ {x} :
           /\ epc'[e] = epc[e] /\ at'[e] = at[e] /\ ran'[e] = ran[e]
           /\ inF'[e] = inF[e] /\ inB'[e] = inB[e]
  PROVE  IInv'
<1>1. ASSUME NEW b \in Batches PROVE BatchInv(b)'
  BY DEF IInv, BatchInv, HeldBy, Stores, memory, bvars
<1>2. ASSUME NEW m \in Members PROVE MemberInv(m)'
  BY DEF IInv, MemberInv, Quiet, Image, Guarded, NewFront, NewBack, Written, Stores,
     memory, bvars
<1>3. ASSUME NEW e \in Executors, e # x PROVE FlightInv(e)'
  BY <1>3 DEF IInv, FlightInv, Quiet, FrontsSince, BacksSince, memory, bvars
<1> QED
  BY <1>1, <1>2, <1>3 DEF IInv

\* What is in memory may be fetched.
LEMMA ImageIsFetchable ==
  ASSUME IInv, NEW m \in Members, ~Quiet(m)
  PROVE  /\ front[m] \in FrontsSince(lease[m], m)
         /\ m \in Split => back[m] \in BacksSince(lease[m])
<1> DEFINE b == lease[m]
<1>1. /\ b \in Batches /\ phase[b] \in Live /\ Image(b, m) /\ m \in chosen[b]
      /\ (phase[b] \in StorePhases => todo[b] \subseteq Stores(b, phase[b]))
  BY DEF IInv, TypeOK, MemberInv, BatchInv, HeldBy, Quiet, Live
<1> HIDE DEF b
<1>2. front[m] \in FrontsSince(b, m)
  BY <1>1 DEF Image, FrontsSince, Guarded, NewFront, Written, Live, StorePhases,
     BarrierPhases
<1>3. m \in Split => back[m] \in BacksSince(b)
  BY <1>1 DEF Image, BacksSince, NewFront, NewBack, Written, Live, StorePhases,
     BarrierPhases
<1> QED
  BY <1>2, <1>3 DEF b

\* The two halves an executor holds belong together.
LEMMA NeverDecodesTorn ==
  ASSUME IInv, NEW e \in Executors, epc[e] = "run", inF[e] # "none",
         at[e] \in Split => inB[e] # "none"
  PROVE  Decode(at[e], inF[e], inB[e]) \in {"old", "new", "trap"}
<1> DEFINE m == at[e]
           b == lease[m]
<1>1. m \in Members /\ FlightInv(e) /\ inF[e] \in Version \cup {"guard"}
  BY DEF IInv, TypeOK, Fetched, Word
<1>2. CASE m \notin Split \/ inF[e] = "guard"
  BY <1>1, <1>2 DEF Decode, Version
<1>3. CASE m \in Split /\ inF[e] # "guard"
  <2>1. inB[e] # "none"
    BY <1>3
  <2>2. CASE Quiet(m)
    <3>1. inF[e] = front[m] /\ inB[e] = back[m] /\ front[m] = back[m]
      BY <1>1, <2>1, <2>2 DEF IInv, FlightInv, MemberInv
    <3> QED
      BY <1>1, <1>3, <3>1 DEF Decode, Version
  <2>3. CASE ~Quiet(m)
    <3> HIDE DEF b
    <3>1. inF[e] \in FrontsSince(b, m) /\ inB[e] \in BacksSince(b) /\ phase[b] \in Live
      BY <1>1, <2>1, <2>3 DEF IInv, FlightInv, MemberInv, b
    <3>2. inB[e] = inF[e]
      BY <1>3, <3>1 DEF FrontsSince, BacksSince, Live, StorePhases, BarrierPhases
    <3> QED
      BY <1>1, <1>3, <3>2 DEF Decode, Version
  <2> QED
    BY <2>2, <2>3
<1> QED
  BY <1>2, <1>3

LEMMA KeptByExecutor ==
  ASSUME IInv, NEW x \in Executors,
         \/ \E m \in Members : Enter(x, m)
         \/ FetchFront(x) \/ FetchBack(x) \/ Execute(x) \/ HandlerReturns(x)
  PROVE  IInv'
<1>1. FlightInv(x) /\ at[x] \in Members /\ epc[x] \in {"out", "run", "handler"}
  BY DEF IInv, TypeOK
<1>2. ASSUME NEW m \in Members, Enter(x, m) PROVE IInv'
  <2>1. TypeOK'
    BY <1>2 DEF Enter, IInv, TypeOK, memory, bvars
  <2>2. /\ epc'[x] = "run" /\ at'[x] = m /\ ran'[x] = ran[x]
        /\ inF'[x] = "none" /\ inB'[x] = "none"
    BY <1>1, <1>2 DEF Enter, FlightInv, IInv, TypeOK
  <2>3. FlightInv(x)'
    BY <1>1, <2>2 DEF FlightInv
  <2> QED
    BY <1>2, <2>1, <2>3, ExecutorStepKept DEF Enter
<1>3. CASE FetchFront(x)
  <2>1. /\ inF'[x] = front[at[x]] /\ UNCHANGED <<epc, at, ran, inB, memory, bvars>>
        /\ \A e \in Executors \ {x} : inF'[e] = inF[e]
        /\ inF' \in [Executors -> Fetched] /\ epc[x] = "run"
    BY <1>1, <1>3 DEF FetchFront, IInv, TypeOK, Fetched
  <2>2. TypeOK'
    BY <2>1 DEF IInv, TypeOK, memory, bvars
  <2>3. FlightInv(x)'
    <3>1. ~Quiet(at[x]) => front[at[x]] \in FrontsSince(lease[at[x]], at[x])
      BY <1>1, ImageIsFetchable
    <3> QED
      BY <1>1, <2>1, <3>1 DEF FlightInv, Quiet, FrontsSince, BacksSince, memory, bvars
  <2> QED
    BY <2>1, <2>2, <2>3, ExecutorStepKept
<1>4. CASE FetchBack(x)
  <2>1. /\ inB'[x] = back[at[x]] /\ UNCHANGED <<epc, at, ran, inF, memory, bvars>>
        /\ \A e \in Executors \ {x} : inB'[e] = inB[e]
        /\ inB' \in [Executors -> Version \cup {"none"}] /\ epc[x] = "run"
        /\ at[x] \in Split
    BY <1>1, <1>4 DEF FetchBack, IInv, TypeOK
  <2>2. TypeOK'
    BY <2>1 DEF IInv, TypeOK, memory, bvars
  <2>3. FlightInv(x)'
    <3>1. ~Quiet(at[x]) => back[at[x]] \in BacksSince(lease[at[x]])
      BY <1>1, <2>1, ImageIsFetchable
    <3> QED
      BY <1>1, <2>1, <3>1 DEF FlightInv, Quiet, FrontsSince, BacksSince, memory, bvars
  <2> QED
    BY <2>1, <2>2, <2>3, ExecutorStepKept
<1>5. CASE Execute(x)
  <2> DEFINE d == Decode(at[x], inF[x], inB[x])
  <2>1. d \in {"old", "new", "trap"}
    BY <1>5, NeverDecodesTorn DEF Execute
  <2>2. /\ ran' = [ran EXCEPT ![x] = d]
        /\ epc' = [epc EXCEPT ![x] = IF d = "trap" THEN "handler" ELSE "out"]
        /\ inF' = [inF EXCEPT ![x] = "none"] /\ inB' = [inB EXCEPT ![x] = "none"]
        /\ UNCHANGED <<memory, bvars, at>>
    BY <1>5 DEF Execute
  <2> HIDE DEF d
  <2>3. TypeOK'
    BY <2>1, <2>2 DEF IInv, TypeOK, memory, bvars, Fetched
  <2>4. FlightInv(x)'
    BY <2>1, <2>2 DEF FlightInv, IInv, TypeOK
  <2> QED
    BY <2>2, <2>3, <2>4, ExecutorStepKept DEF IInv, TypeOK
<1>6. CASE HandlerReturns(x)
  <2>1. TypeOK'
    BY <1>6 DEF HandlerReturns, IInv, TypeOK, memory, bvars
  <2>2. FlightInv(x)'
    BY <1>1, <1>6 DEF HandlerReturns, FlightInv, Quiet, FrontsSince, BacksSince, memory,
       bvars
  <2> QED
    BY <1>6, <2>1, <2>2, ExecutorStepKept DEF HandlerReturns
<1> QED
  BY <1>2, <1>3, <1>4, <1>5, <1>6

LEMMA KeptByStuttering ==
  ASSUME IInv, UNCHANGED vars
  PROVE  IInv'
<1>1. TypeOK'
  BY DEF IInv, TypeOK, vars, memory, bvars, evars
<1>2. ASSUME NEW b \in Batches PROVE BatchInv(b)'
  BY DEF IInv, BatchInv, HeldBy, Stores, vars, memory, bvars
<1>3. ASSUME NEW m \in Members PROVE MemberInv(m)'
  BY DEF IInv, MemberInv, Quiet, Image, Guarded, NewFront, NewBack, Written, Stores,
     vars, memory, bvars
<1>4. ASSUME NEW e \in Executors PROVE FlightInv(e)'
  BY DEF IInv, FlightInv, Quiet, FrontsSince, BacksSince, vars, memory, bvars, evars
<1> QED
  BY <1>1, <1>2, <1>3, <1>4 DEF IInv

-----------------------------------------------------------------------------
(* The theorems.                                                           *)

\* The invariant holds in every state.
THEOREM Invariant == Spec => []IInv
<1>1. IInv /\ [Next]_vars => IInv'
  <2> SUFFICES ASSUME IInv, [Next]_vars PROVE IInv'
    OBVIOUS
  <2>1. ASSUME NEW b \in Batches, NEW S \in (SUBSET Members) \ {{}},
               NEW d \in {"Apply", "Revert"}, Prepare(b, S, d)
        PROVE  IInv'
    BY <2>1, KeptByPrepare
  <2>2. ASSUME NEW b \in Batches,
               Acquire(b) \/ Preflight(b) \/ Advance(b) \/ Fail(b) \/ Drop(b)
        PROVE  IInv'
    BY <2>2, KeptByAcquire, KeptByPreflight, KeptByStartStores, KeptByStoreNext,
       KeptByBarrier, KeptByFail, KeptByDrop DEF Advance
  <2>3. ASSUME NEW e \in Executors,
               \/ \E m \in Members : Enter(e, m)
               \/ FetchFront(e) \/ FetchBack(e) \/ Execute(e) \/ HandlerReturns(e)
        PROVE  IInv'
    BY <2>3, KeptByExecutor
  <2>4. CASE UNCHANGED vars
    BY <2>4, KeptByStuttering
  <2> QED
    BY <2>1, <2>2, <2>3, <2>4 DEF Next
<1> QED
  BY InvInit, <1>1, PTL DEF Spec

\* A batch that has stored keeps every lease until it is complete, through
\* failures and after its handle is dropped, and its receipt is truthful.
THEOREM Leases == Spec => []LeaseInv
<1>1. IInv => LeaseInv
  <2> SUFFICES ASSUME IInv PROVE LeaseInv
    OBVIOUS
  <2>1. MutatedKeepsLeases
    BY DEF MutatedKeepsLeases, IInv, BatchInv
  <2>2. ReceiptTruthful
    <3>1. ASSUME NEW b \in Batches, phase[b] \in Live, ~mutated[b], NEW m \in chosen[b]
          PROVE  front[m] = Expected(dir[b]) /\ back[m] = Expected(dir[b])
      <4>1. m \in Members /\ lease[m] = b
        BY <3>1 DEF IInv, BatchInv, HeldBy
      <4> QED
        BY <3>1, <4>1, Unmutated
    <3>2. \A b \in Batches : phase[b] = "Complete" => syncs[b] = 3 /\ mutated[b]
      BY DEF IInv, BatchInv
    <3> QED
      BY <3>1, <3>2 DEF ReceiptTruthful
  <2> QED
    BY <2>1, <2>2 DEF LeaseInv, IInv
<1> QED
  BY <1>1, Invariant, PTL

\* No executor runs an instruction made of two images, whichever barrier fails
\* and wherever a batch is abandoned.
THEOREM NeverTorn == Spec => []NoTornExecution
<1>1. IInv => NoTornExecution
  BY DEF IInv, FlightInv, NoTornExecution
<1> QED
  BY <1>1, Invariant, PTL

\* A free site holds one image, and nobody has fetched another one from it.
THEOREM Settled == Spec => []ReleasedIsSettled
<1>1. IInv => ReleasedIsSettled
  BY DEF IInv, MemberInv, FlightInv, Quiet, ReleasedIsSettled
<1> QED
  BY <1>1, Invariant, PTL

\* Completion is reported with every member switched, in both halves.
THEOREM Switches == Spec => CompletionSwitchesAll
<1> DEFINE Switched ==
             \A b \in Batches : phase[b] # "Complete" /\ phase'[b] = "Complete" =>
               \A m \in chosen[b] : front[m] = Replacement(dir[b])
                                    /\ back[m] = Replacement(dir[b])
<1>1. ASSUME IInv, [Next]_vars, NEW b \in Batches,
             phase[b] # "Complete", phase'[b] = "Complete", NEW m \in chosen[b]
      PROVE  front[m] = Replacement(dir[b]) /\ back[m] = Replacement(dir[b])
  <2>1. phase[b] = "FrontsPublished"
    <3>1. ASSUME NEW c \in Batches, NEW S, NEW d, Prepare(c, S, d)
          PROVE  phase[b] = "FrontsPublished"
      BY <1>1, <3>1 DEF Prepare, IInv, TypeOK
    <3>2. ASSUME NEW c \in Batches, Acquire(c) \/ Preflight(c) \/ Fail(c) \/ Drop(c)
          PROVE  phase[b] = "FrontsPublished"
      BY <1>1, <3>2 DEF Acquire, Preflight, Fail, Drop, Discard, IInv, TypeOK
    <3>3. ASSUME NEW c \in Batches, StartStores(c) \/ StoreNext(c)
          PROVE  phase[b] = "FrontsPublished"
      <4>1. phase[c] \in StorePhases
            /\ phase' \in {phase, [phase EXCEPT ![c] = NextPhase(@)]}
        BY <3>3 DEF StartStores, StoreNext
      <4>2. NextPhase(phase[c]) # "Complete"
        BY <4>1 DEF NextPhase, StorePhases
      <4> QED
        BY <1>1, <4>1, <4>2 DEF IInv, TypeOK
    <3>4. ASSUME NEW c \in Batches, Barrier(c)
          PROVE  phase[b] = "FrontsPublished"
      <4>1. c = b /\ NextPhase(phase[b]) = "Complete" /\ phase[b] \in BarrierPhases
        BY <1>1, <3>4 DEF Barrier, IInv, TypeOK
      <4> QED
        BY <4>1 DEF NextPhase, BarrierPhases
    <3>5. ASSUME NEW e \in Executors,
                 \/ \E x \in Members : Enter(e, x)
                 \/ FetchFront(e) \/ FetchBack(e) \/ Execute(e) \/ HandlerReturns(e)
          PROVE  phase[b] = "FrontsPublished"
      BY <1>1, <3>5 DEF Enter, FetchFront, FetchBack, Execute, HandlerReturns, bvars
    <3>6. CASE UNCHANGED vars
      BY <1>1, <3>6 DEF vars, bvars
    <3> QED
      BY <1>1, <3>1, <3>2, <3>3, <3>4, <3>5, <3>6 DEF Next, Advance
  <2>2. phase[b] \in Live /\ m \in Members /\ lease[m] = b
    BY <1>1, <2>1 DEF IInv, BatchInv, HeldBy, Live, BarrierPhases
  <2> QED
    BY <1>1, <2>1, <2>2, LiveMember DEF Image, Guarded, NewFront, NewBack
<1>2. IInv /\ [Next]_vars => [Switched]_vars
  BY <1>1
<1> QED
  BY <1>2, Invariant, PTL DEF Spec, CompletionSwitchesAll

-----------------------------------------------------------------------------
(* The refinement of BatchSwitch.                                          *)

\* The records of all batches but one are left alone.
OthersSame(b) == \A c \in Batches \ {b} : SameBatch(c)

\* Another batch that has a member keeps changing it, or goes on leaving it.
LEMMA OthersChanging ==
  ASSUME IInv, NEW b \in Batches, OthersSame(b)
  PROVE  /\ \A c \in Batches \ {b} : Changing(c)' = Changing(c) /\ wanted'[c] = wanted[c]
         /\ wanted[b] = IF Changing(b) THEN Replacement(dir[b]) ELSE "none"
         /\ wanted'[b] = IF Changing(b)' THEN Replacement(dir[b])' ELSE "none"
BY DEF OthersSame, SameBatch, Changing, wanted

\* What threads may run from a member that a step of another batch leaves alone.
LEMMA OthersVisible ==
  ASSUME IInv, NEW b \in Batches, OthersSame(b), NEW m \in Members,
         lease[m] # b, lease'[m] = lease[m], front'[m] = front[m]
  PROVE  visible'[m] = visible[m]
<1>1. lease[m] # "none" => lease[m] \in Batches \ {b}
  BY DEF IInv, TypeOK
<1> QED
  BY <1>1, OthersChanging DEF visible

\* A step of a batch that neither begins nor ends its change is not seen.
LEMMA Unseen ==
  ASSUME IInv, NEW b \in Batches, OthersSame(b), UNCHANGED <<lease, at, ran>>,
         Changing(b)' <=> Changing(b), Changing(b) => dir'[b] = dir[b],
         \A m \in Members : (lease[m] = b /\ Changing(b)) \/ front'[m] = front[m]
  PROVE  UNCHANGED Promise!vars
<1>1. ASSUME NEW m \in Members PROVE visible'[m] = visible[m]
  <2>1. CASE lease[m] # b
    BY <2>1, OthersVisible
  <2>2. CASE lease[m] = b
    BY <2>2, BatchesAssumption DEF visible
  <2> QED
    BY <2>1, <2>2
<1>2. \A c \in Batches : wanted'[c] = wanted[c]
  BY OthersChanging DEF Replacement
<1>3. visible' = visible /\ wanted' = wanted
  BY <1>1, <1>2 DEF visible, wanted
<1> QED
  BY <1>3 DEF Promise!vars

\* A batch that has not begun its change lets its members go as they are.
LEMMA LetsGo ==
  ASSUME IInv, NEW b \in Batches, OthersSame(b), lease' = Released(b),
         UNCHANGED <<front, at, ran>>, ~Changing(b), ~Changing(b)'
  PROVE  Promise!LetGo(b)
<1>1. ASSUME NEW m \in Members PROVE visible'[m] = visible[m]
  <2>1. lease'[m] = IF lease[m] = b THEN "none" ELSE lease[m]
    BY ReleasedEffect DEF IInv
  <2>2. CASE lease[m] # b
    BY <2>1, <2>2, OthersVisible
  <2>3. CASE lease[m] = b
    BY <2>1, <2>3, BatchesAssumption DEF visible
  <2> QED
    BY <2>2, <2>3
<1>2. wanted[b] = "none" /\ \A c \in Batches : wanted'[c] = wanted[c]
  BY OthersChanging
<1>3. visible' = visible /\ wanted' = wanted
  BY <1>1, <1>2 DEF visible, wanted
<1> QED
  BY <1>2, <1>3 DEF Promise!LetGo, Promise!GiveBack, Released

LEMMA DiscardLetsGo ==
  ASSUME IInv, NEW b \in Batches, Discard(b), UNCHANGED <<memory, evars>>,
         ~Changing(b)
  PROVE  Promise!LetGo(b)
<1>1. OthersSame(b) /\ phase'[b] = "absent"
  BY DEF Discard, OthersSame, SameBatch, IInv, TypeOK
<1> QED
  BY <1>1, LetsGo DEF Discard, Changing, Live, StorePhases, BarrierPhases, memory, evars

\* Taking the leases: member by member, and all let go after a failure.
LEMMA SeenOfAcquire ==
  ASSUME IInv, NEW b \in Batches, Acquire(b)
  PROVE  (\E m \in Members : Promise!Take(b, m)) \/ Promise!LetGo(b)
<1> DEFINE m == First(todo[b])
<1>1. /\ m \in Members /\ UNCHANGED <<memory, evars>> /\ ~Changing(b)
  BY FirstIsMember DEF Acquire, IInv, TypeOK, Changing, Live, StorePhases, BarrierPhases
<1>2. CASE lease[m] = "none"
  <2> HIDE DEF m
  <2>1. /\ lease' = [lease EXCEPT ![m] = b]
        /\ UNCHANGED <<phase, chosen, dir, mutated, syncs, failure>>
    BY <1>2 DEF Acquire, m
  <2>2. UNCHANGED <<visible, wanted>>
    BY <1>1, <1>2, <2>1, BatchesAssumption
       DEF visible, wanted, Changing, memory, IInv, TypeOK
  <2>3. Promise!Take(b, m)
    BY <1>1, <1>2, <2>1, <2>2 DEF Promise!Take, evars
  <2> QED
    BY <1>1, <2>3
<1>3. CASE lease[m] # "none"
  BY <1>1, <1>3, DiscardLetsGo DEF Acquire
<1> QED
  BY <1>2, <1>3

\* Starting a store loop: the first that has anything to store begins the change.
LEMMA SeenOfStartStores ==
  ASSUME IInv, NEW b \in Batches, StartStores(b)
  PROVE  (\E v \in Version : Promise!Open(b, v)) \/ UNCHANGED Promise!vars
<1>1. /\ phase[b] \in StorePhases /\ UNCHANGED <<memory, lease, chosen, dir, syncs, evars>>
      /\ phase' = IF Stores(b, phase[b]) = {} THEN [phase EXCEPT ![b] = NextPhase(@)]
                  ELSE phase
      /\ mutated' = [mutated EXCEPT ![b] = @ \/ Stores(b, phase[b]) # {}]
      /\ todo' = [todo EXCEPT ![b] = Stores(b, phase[b])]
  BY DEF StartStores
<1>2. /\ OthersSame(b) /\ phase[b] \in Live /\ phase'[b] \in Live
      /\ mutated'[b] = (mutated[b] \/ Stores(b, phase[b]) # {})
  BY <1>1 DEF OthersSame, SameBatch, IInv, TypeOK, Live, StorePhases, BarrierPhases,
     NextPhase
<1>3. CASE mutated[b] \/ Stores(b, phase[b]) = {}
  <2>1. Changing(b)' = Changing(b)
    BY <1>2, <1>3 DEF Changing, IInv, TypeOK
  <2> QED
    BY <1>1, <1>2, <2>1, Unseen DEF memory, evars
<1>4. CASE ~mutated[b] /\ Stores(b, phase[b]) # {}
  <2> DEFINE v == Replacement(dir[b])
  <2>1. ~Changing(b) /\ Changing(b)' /\ v \in Version /\ dir' = dir
    BY <1>1, <1>2, <1>4, Versions DEF Changing
  <2>2. /\ HeldBy(b) # {} /\ b # "none"
        /\ \A m \in HeldBy(b) : visible[m] = Version \ {v}
    <3>1. HeldBy(b) = chosen[b] /\ chosen[b] # {}
      BY <1>2 DEF IInv, BatchInv, Live, StorePhases, BarrierPhases
    <3>2. ASSUME NEW m \in Members, lease[m] = b PROVE visible[m] = Version \ {v}
      <4>1. front[m] = Expected(dir[b])
        BY <1>2, <1>4, <3>2, Unmutated
      <4>2. {Expected(dir[b])} = Version \ {v}
        BY DEF Version, Expected, Replacement
      <4> QED
        BY <2>1, <3>2, <4>1, <4>2 DEF visible
    <3> QED
      BY <3>1, <3>2, BatchesAssumption DEF HeldBy
  <2>3. wanted' = [wanted EXCEPT ![b] = v] /\ wanted[b] = "none"
    BY <1>2, <2>1, OthersChanging DEF wanted
  <2>4. visible' = [m \in Members |-> IF lease[m] = b THEN Version ELSE visible[m]]
    <3>1. ASSUME NEW m \in Members
          PROVE  visible'[m] = IF lease[m] = b THEN Version ELSE visible[m]
      BY <1>1, <1>2, <2>1, <2>2, OthersVisible DEF visible, memory
    <3> QED
      BY <3>1 DEF visible
  <2>5. Promise!Open(b, v)
    <3>1. Promise!Versions = Version /\ Promise!Held(b) = HeldBy(b)
      BY DEF Promise!Versions, Version, Promise!Held, HeldBy
    <3> HIDE DEF v
    <3> QED
      BY <1>1, <2>2, <2>3, <2>4, <3>1 DEF Promise!Open, Promise!Show, evars
  <2> QED
    BY <2>1, <2>5
<1> QED
  BY <1>3, <1>4

\* A store is not seen: its member shows both versions until the change is over.
LEMMA SeenOfStoreNext ==
  ASSUME IInv, NEW b \in Batches, StoreNext(b)
  PROVE  UNCHANGED Promise!vars
<1> DEFINE m == First(todo[b])
<1>1. /\ phase[b] \in StorePhases /\ phase[b] \in Live /\ m \in todo[b] /\ m \in Members
      /\ lease[m] = b /\ mutated[b]
  <2>1. /\ phase[b] \in StorePhases /\ phase[b] \in Live /\ m \in todo[b]
        /\ todo[b] \in SUBSET Members
    BY FirstIsMember DEF StoreNext, IInv, TypeOK, Live
  <2>2. todo[b] \subseteq chosen[b] /\ HeldBy(b) = chosen[b] /\ mutated[b]
    BY <2>1, StoresAreChosen DEF IInv, BatchInv
  <2> QED
    BY <2>1, <2>2 DEF HeldBy
<1> HIDE DEF m
<1>2. /\ \A x \in Members \ {m} : front'[x] = front[x]
      /\ phase' \in {phase, [phase EXCEPT ![b] = NextPhase(@)]}
      /\ todo' = [todo EXCEPT ![b] = @ \ {m}]
      /\ UNCHANGED <<lease, chosen, dir, mutated, syncs, at, ran>>
  BY <1>1 DEF StoreNext, StorePhases, IInv, TypeOK, m
<1>3. OthersSame(b) /\ phase'[b] \in Live
  BY <1>1, <1>2 DEF OthersSame, SameBatch, IInv, TypeOK, Live, StorePhases, BarrierPhases,
     NextPhase
<1>4. Changing(b)' = Changing(b) /\ Changing(b)
  BY <1>1, <1>2, <1>3 DEF Changing
<1> QED
  BY <1>1, <1>2, <1>3, <1>4, Unseen

\* The last barrier ends the change: every member of the batch shows the wanted
\* version only, and is given back.
LEMMA SeenOfBarrier ==
  ASSUME IInv, NEW b \in Batches, Barrier(b)
  PROVE  Promise!Close(b) \/ UNCHANGED Promise!vars
<1>1. /\ phase[b] \in BarrierPhases /\ phase' = [phase EXCEPT ![b] = NextPhase(@)]
      /\ lease' = (IF phase[b] = "FrontsPublished" THEN Released(b) ELSE lease)
      /\ UNCHANGED <<memory, chosen, dir, todo, mutated, at, ran>>
      /\ syncs' = [syncs EXCEPT ![b] = @ + 1]
  BY DEF Barrier
<1>2. OthersSame(b) /\ phase[b] \in Live /\ phase'[b] = NextPhase(phase[b])
  BY <1>1 DEF OthersSame, SameBatch, IInv, TypeOK, Live
<1>3. CASE phase[b] # "FrontsPublished"
  <2>1. phase'[b] \in Live
    BY <1>1, <1>2, <1>3 DEF NextPhase, BarrierPhases, Live, StorePhases
  <2> QED
    BY <1>1, <1>2, <1>3, <2>1, Unseen DEF Changing, memory
<1>4. CASE phase[b] = "FrontsPublished"
  <2> DEFINE v == Replacement(dir[b])
  <2>1. Changing(b) /\ ~Changing(b)' /\ v # "none"
    <3>1. mutated[b]
      BY <1>2, <1>4 DEF IInv, BatchInv
    <3>2. phase'[b] = "Complete"
      BY <1>2, <1>4 DEF NextPhase
    <3> QED
      BY <1>2, <3>1, <3>2, Versions DEF Changing, Live, StorePhases, BarrierPhases
  <2>2. \A m \in Members : lease'[m] = IF lease[m] = b THEN "none" ELSE lease[m]
    BY <1>1, <1>4, ReleasedEffect DEF IInv
  <2>3. wanted[b] = v /\ wanted' = [wanted EXCEPT ![b] = "none"]
    BY <1>2, <2>1, OthersChanging DEF wanted
  <2>4. ASSUME NEW m \in Members
        PROVE  visible'[m] = IF lease[m] = b THEN {v} ELSE visible[m]
    <3>1. CASE lease[m] = b
      <4>1. front[m] = v
        BY <1>2, <1>4, <3>1, LiveMember DEF Image, Guarded, NewFront
      <4> QED
        BY <1>1, <2>2, <3>1, <4>1 DEF visible, memory
    <3>2. CASE lease[m] # b
      BY <1>1, <1>2, <2>2, <3>2, OthersVisible DEF memory
    <3> QED
      BY <3>1, <3>2
  <2>5. visible' = [m \in Members |-> IF lease[m] = b THEN {v} ELSE visible[m]]
    BY <2>4 DEF visible
  <2> HIDE DEF v
  <2>6. Promise!Close(b)
    BY <1>1, <1>4, <2>1, <2>3, <2>5
       DEF Promise!Close, Promise!Show, Promise!GiveBack, Released
  <2> QED
    BY <2>6
<1> QED
  BY <1>3, <1>4

\* Every other step of a batch is not seen, or lets go of what it has not changed.
LEMMA SeenOfBatch ==
  ASSUME IInv, NEW b \in Batches,
         \/ \E S \in (SUBSET Members) \ {{}}, d \in {"Apply", "Revert"} : Prepare(b, S, d)
         \/ Preflight(b) \/ Fail(b) \/ Drop(b)
  PROVE  Promise!LetGo(b) \/ UNCHANGED Promise!vars
<1>1. ASSUME NEW S \in (SUBSET Members) \ {{}}, NEW d, Prepare(b, S, d)
      PROVE  UNCHANGED Promise!vars
  <2>1. /\ OthersSame(b) /\ ~Changing(b) /\ ~Changing(b)'
        /\ UNCHANGED <<front, lease, at, ran>>
    BY <1>1
       DEF Prepare, OthersSame, SameBatch, Changing, Live, StorePhases, BarrierPhases,
           IInv, TypeOK, memory, evars
  <2> QED
    BY <2>1, Unseen
<1>2. CASE Preflight(b)
  <2>1. ~Changing(b) /\ UNCHANGED <<memory, evars>>
    BY <1>2 DEF Preflight, Changing, Live, StorePhases, BarrierPhases
  <2>2. CASE Discard(b)
    BY <2>1, <2>2, DiscardLetsGo
  <2>3. CASE /\ phase' = [phase EXCEPT ![b] = "Prepared"]
             /\ UNCHANGED <<lease, todo, chosen, dir, mutated, syncs, failure>>
    <3>1. OthersSame(b) /\ ~mutated[b] /\ ~Changing(b)'
      BY <1>2, <2>3 DEF Preflight, OthersSame, SameBatch, Changing, IInv, TypeOK, BatchInv
    <3> QED
      BY <2>1, <2>3, <3>1, Unseen DEF memory, evars
  <2> QED
    BY <1>2, <2>2, <2>3 DEF Preflight
<1>3. CASE Fail(b)
  <2>1. UNCHANGED <<memory, chosen, dir, todo, mutated, syncs, evars>>
    BY <1>3 DEF Fail
  <2>2. CASE mutated[b]
    <3>1. UNCHANGED <<lease, phase>>
      BY <1>3, <2>2 DEF Fail
    <3> QED
      BY <2>1, <3>1, Unseen DEF OthersSame, SameBatch, Changing, memory, evars
  <2>3. CASE ~mutated[b]
    <3>1. lease' = Released(b) /\ phase' = [phase EXCEPT ![b] = "Aborted"]
      BY <1>3, <2>3 DEF Fail
    <3>2. OthersSame(b) /\ ~Changing(b) /\ ~Changing(b)'
      BY <2>1, <2>3, <3>1 DEF OthersSame, SameBatch, Changing, IInv, TypeOK
    <3> QED
      BY <2>1, <3>1, <3>2, LetsGo DEF memory, evars
  <2> QED
    BY <2>2, <2>3
<1>4. CASE Drop(b)
  <2>1. CASE Changing(b)
    <3>1. UNCHANGED <<lease, phase, todo, chosen, dir, mutated, syncs, memory, evars>>
      BY <1>4, <2>1 DEF Drop, Changing
    <3> QED
      BY <3>1, Unseen DEF OthersSame, SameBatch, Changing, memory, evars
  <2>2. CASE ~Changing(b)
    BY <1>4, <2>2, DiscardLetsGo DEF Drop, Changing
  <2> QED
    BY <2>1, <2>2
<1> QED
  BY <1>1, <1>2, <1>3, <1>4

\* What a thread decodes is a version its member shows, or the guard of a
\* member that is being changed.
LEMMA DecodesVisible ==
  ASSUME IInv, NEW e \in Executors, Execute(e)
  PROVE  Decode(at[e], inF[e], inB[e])
           \in visible[at[e]] \cup (IF visible[at[e]] = Version THEN {"trap"} ELSE {})
<1> DEFINE m == at[e]
           b == lease[m]
           d == Decode(m, inF[e], inB[e])
<1>1. /\ m \in Members /\ FlightInv(e) /\ inF[e] # "none"
      /\ m \in Split => inB[e] # "none"
      /\ epc[e] = "run"
  BY DEF Execute, IInv, TypeOK
<1>2. d \in {"old", "new", "trap"}
  BY <1>1, NeverDecodesTorn
<1>3. CASE b # "none" /\ Changing(b)
  <2>1. visible[m] = Version
    BY <1>1, <1>3 DEF visible
  <2> QED
    BY <1>2, <2>1 DEF Version
<1>4. CASE ~(b # "none" /\ Changing(b))
  <2>1. visible[m] = {front[m]}
    BY <1>1, <1>4 DEF visible
  <2>2. /\ inF[e] = front[m] /\ (m \in Split => inB[e] = back[m])
        /\ front[m] = back[m] /\ front[m] # "guard"
    <3>1. CASE Quiet(m)
      <4>1. front[m] = back[m] /\ back[m] \in Version
        BY <1>1, <3>1 DEF IInv, MemberInv, TypeOK
      <4> QED
        BY <1>1, <3>1, <4>1, Versions DEF FlightInv
    <3>2. CASE ~Quiet(m)
      <4>1. b \in Batches /\ phase[b] \in Live /\ ~mutated[b]
        BY <1>1, <1>4, <3>2 DEF Quiet, Changing, IInv, TypeOK, MemberInv
      <4>2. /\ front[m] = Expected(dir[b]) /\ back[m] = Expected(dir[b])
            /\ inF[e] \in {"none", front[m]} /\ inB[e] \in {"none", back[m]}
        BY <1>1, <4>1, Unmutated
      <4> QED
        BY <1>1, <4>2, Versions
    <3> QED
      BY <3>1, <3>2
  <2>3. d = front[m]
    BY <2>2 DEF Decode
  <2> QED
    BY <2>1, <2>3
<1> QED
  BY <1>3, <1>4

LEMMA SeenOfExecutor ==
  ASSUME IInv, NEW e \in Executors,
         \/ \E m \in Members : Enter(e, m)
         \/ FetchFront(e) \/ FetchBack(e) \/ Execute(e) \/ HandlerReturns(e)
  PROVE  \/ \E m \in Members : Promise!Enter(e, m)
         \/ Promise!Run(e) \/ UNCHANGED Promise!vars
<1>1. UNCHANGED <<visible, wanted, lease>>
  <2>1. UNCHANGED <<memory, bvars>>
    BY DEF Enter, FetchFront, FetchBack, Execute, HandlerReturns
  <2> QED
    BY <2>1 DEF visible, wanted, Changing, memory, bvars
<1>2. ASSUME NEW m \in Members, Enter(e, m) PROVE Promise!Enter(e, m)
  BY <1>1, <1>2 DEF Enter, Promise!Enter
<1>3. CASE FetchFront(e) \/ FetchBack(e) \/ HandlerReturns(e)
  BY <1>1, <1>3 DEF FetchFront, FetchBack, HandlerReturns, Promise!vars
<1>4. CASE Execute(e)
  BY <1>1, <1>4, DecodesVisible DEF Execute, Promise!Run, Promise!Versions, Version
<1> QED
  BY <1>2, <1>3, <1>4

\* Synchronized publication implements BatchSwitch: a batch changes all of its
\* members or none, a thread meets versions of members that are being changed
\* only, and a change that was begun keeps them until its last barrier.
THEOREM Refinement == Spec => SwitchesTogether
<1>1. Init => Promise!Init
  <2> SUFFICES ASSUME Init PROVE Promise!Init
    OBVIOUS
  <2>1. visible = [m \in Members |-> {"old"}] /\ wanted = [b \in Batches |-> "none"]
    BY DEF Init, visible, wanted, Changing, Live, StorePhases, BarrierPhases
  <2>2. at \in [Executors -> Members]
    BY MembersAssumption DEF Init
  <2> QED
    BY <2>1, <2>2 DEF Init, Promise!Init
<1>2. IInv /\ [Next]_vars => [Promise!Next]_(Promise!vars)
  <2> SUFFICES ASSUME IInv, [Next]_vars PROVE [Promise!Next]_(Promise!vars)
    OBVIOUS
  <2> DEFINE Seen(b) == \/ \E m \in Members : Promise!Take(b, m)
                        \/ Promise!LetGo(b) \/ Promise!Close(b)
                        \/ \E v \in Version : Promise!Open(b, v)
  <2>1. ASSUME NEW b \in Batches, NEW S \in (SUBSET Members) \ {{}},
               NEW d \in {"Apply", "Revert"}, Prepare(b, S, d)
        PROVE  Seen(b) \/ UNCHANGED Promise!vars
    BY <2>1, SeenOfBatch
  <2>2. ASSUME NEW b \in Batches,
               Acquire(b) \/ Preflight(b) \/ Advance(b) \/ Fail(b) \/ Drop(b)
        PROVE  Seen(b) \/ UNCHANGED Promise!vars
    BY <2>2, SeenOfAcquire, SeenOfStartStores, SeenOfStoreNext, SeenOfBarrier, SeenOfBatch
       DEF Advance
  <2>3. ASSUME NEW e \in Executors,
               \/ \E m \in Members : Enter(e, m)
               \/ FetchFront(e) \/ FetchBack(e) \/ Execute(e) \/ HandlerReturns(e)
        PROVE  \/ \E m \in Members : Promise!Enter(e, m)
               \/ Promise!Run(e) \/ UNCHANGED Promise!vars
    BY <2>3, SeenOfExecutor
  <2>4. CASE UNCHANGED vars
    BY <2>4 DEF vars, memory, bvars, evars, visible, wanted, Changing, Promise!vars
  <2>5. (\E b \in Batches : Seen(b)) => Promise!Next
    BY DEF Promise!Next, Promise!Versions, Version
  <2>6. (\E e \in Executors : Promise!Run(e) \/ \E m \in Members : Promise!Enter(e, m))
          => Promise!Next
    BY DEF Promise!Next
  <2> HIDE DEF Seen
  <2> QED
    BY <2>1, <2>2, <2>3, <2>4, <2>5, <2>6 DEF Next
<1> QED
  BY <1>1, <1>2, Invariant, PTL DEF Spec, SwitchesTogether, Promise!Spec
=============================================================================
