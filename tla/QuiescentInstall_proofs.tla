----------------------- MODULE QuiescentInstall_proofs -----------------------
(***************************************************************************)
(* Proofs about QuiescentInstall, for every source, every set of plans,    *)
(* publishers and executors, and every sequence of generations.            *)
(***************************************************************************)
EXTENDS QuiescentInstall, TLAPS

At(p, i, S) == pub[p].plan = i /\ pub[p].step \in S

\* Irrevocable: the call that publishes i has passed its last check.
Installed(i) == image[i] = "live" /\ handle[i] # "retired"

\* A poisoned lease holds the instruction.
Shut(u) == \E p \in Publishers : lease[p].poisoned /\ Src(u) \in lease[p].held

\* A call is writing the plan's source, or one that failed has left it shut.
Broken(i) ==
  \E p \in Publishers :
    /\ lease[p].poisoned /\ Source(Reads(i)) \subseteq lease[p].held
    /\ pub[p] = NoCall \/ pub[p].plan = i

AllOwned(i) == \A k \in DOMAIN Locks[i] : \A u \in Locks[i][k] : owner[u] = i

Writing == {"write", "sync", "restore", "resync"}

\* A lease that holds something is of the current generation, and leases are
\* disjoint.
LeaseInv ==
  /\ \A p \in Publishers : lease[p].held # {} => lease[p].identity = generation
  /\ \A p, q \in Publishers : p # q => lease[p].held \cap lease[q].held = {}

\* The current bytes of the plan are those after its first k steps.
Shows(i, k) == \A u \in Reads(i) : code[u] = Overlay(i, k, u)

\* A call holds what its plan reads, and is poisoned from the first store on.
HoldsInv(p) ==
  \/ pub[p] = NoCall
  \/ /\ pub[p].plan \in Plans /\ pub[p].step # "idle"
     /\ pub[p].gen = generation
     /\ Source(Reads(pub[p].plan)) \subseteq lease[p].held
     /\ lease[p].poisoned <=> pub[p].step \in Writing

\* What a call has done by the step it is at.
PhaseInv(p) ==
  LET i == pub[p].plan
      k == pub[p].k
  IN  /\ pub[p].step \in PreWrite =>
           ~Installed(i)
      /\ pub[p].step = "reserve" =>
           \A j \in DOMAIN Locks[i] : j < k => \A u \in Locks[i][j] : owner[u] = i
      /\ pub[p].step = "reserve" => k >= 1
      /\ pub[p].step \in PreWrite \ {"reserve"} => AllOwned(i)
      /\ pub[p].step \in {"reserve", "stage"} => image[i] # "staged"
      /\ pub[p].step \in PreWrite \ {"commit"} => batch[i] = "off"
      /\ pub[p].step \in {"prepare", "route", "commit"} =>
           image[i] = "staged" /\ handle[i] = "absent"
      /\ pub[p].step = "route" => Routed(i, pub[p].gen) # {}
      /\ pub[p].step = "commit" => made[i] = pub[p].gen
      /\ pub[p].step = "commit" =>
           (batch[i] = "staged" <=> Routed(i, made[i]) # {})
      /\ pub[p].step \in {"write", "sync"} =>
           image[i] = "live" /\ handle[i] = "absent" /\ i \notin receipts
      /\ pub[p].step = "write" => k \in DOMAIN Steps[i] /\ Shows(i, k - 1)
      /\ pub[p].step = "sync" => Shows(i, Len(Steps[i]))
      /\ pub[p].step \in {"restore", "resync"} =>
           image[i] = "live" /\ handle[i] = "active" /\ Image(i) \subseteq lease[p].held
      /\ pub[p].step = "restore" =>
           k \in DOMAIN Steps[i] /\ Shows(i, Len(Steps[i]) + 1 - k)
      /\ pub[p].step = "resync" => Shows(i, 0)

CallInv(p) == HoldsInv(p) /\ PhaseInv(p)

\* An installed plan owns its bytes, is of the current generation and routed,
\* and its final bytes are in place unless its source is shut for good or by
\* the call that writes it.
InstalledInv(i) ==
  Installed(i) =>
    /\ AllOwned(i) /\ made[i] = generation
    /\ batch[i] = IF Routed(i, made[i]) # {} THEN "committed" ELSE "off"
    /\ Broken(i) \/ (i \in receipts /\ Shows(i, Len(Steps[i])))

\* A plan that is not installed has left nothing but what its call made.
AbsentInv(i) ==
  /\ ~Installed(i) => /\ i \notin receipts /\ batch[i] # "committed"
                      /\ handle[i] \in {"absent", "retired"}
  /\ handle[i] = "active" => i \in receipts
  /\ handle[i] # "absent" => image[i] = "live"
  /\ image[i] = "staged" =>
       \E p \in Publishers : At(p, i, {"prepare", "route", "commit"})
  /\ batch[i] = "staged" => \E p \in Publishers : At(p, i, {"commit"})
  /\ handle[i] = "absent" /\ image[i] = "live" =>
       \E p \in Publishers : At(p, i, {"write", "sync"})
  /\ \A u \in Units : owner[u] = i => Installed(i) \/ Busy(i)

\* Bytes of a plan are where the plan edits, and only while it is installed.
CodeInv(u) ==
  \A i \in Plans : \A k \in DOMAIN Steps[i] :
    code[u] = <<i, k>> => Installed(i) /\ u \in Steps[i][k].edits

\* A fetched instruction is current, or a probe's opcode, or behind a gate.
ViewInv(e, u) ==
  \/ view[e][u] = code[u]
  \/ view[e][u] \in {Orig, Probed} /\ code[u] \in {Orig, Probed}
  \/ /\ Shut(u)
     /\ \A i \in Plans : view[e][u] \in Image(i) => Installed(i)

\* Displaced instructions that are not heads.
Marker(i, u) == u \in Touched(i) \ Heads(i)

\* Executors are outside what a lease holds, in the generated code of installed
\* plans only, and at a marker only if it is a legal entry.
ExecInv(e) ==
  /\ pc[e] \notin Held
  /\ pc[e] # Lost
  /\ \A i \in Plans : pc[e] \in Image(i) => Installed(i)
  /\ \A u \in Units : \A i \in Plans :
       pc[e] = Src(u) /\ Installed(i) /\ Marker(i, u) => u \in Entries[generation]
  /\ trap[e] => \E u \in Units : \E i \in Plans :
       pc[e] = Src(u) /\ Installed(i) /\ Marker(i, u)

SignalInv == \A i \in Plans : Active(i) => Verified

ProbeInv == probe # "none" => \A u \in ProbeUnits : owner[u] = "probe"

IInv ==
  /\ TypeOK /\ LeaseInv /\ SignalInv /\ ProbeInv
  /\ \A p \in Publishers : CallInv(p)
  /\ \A i \in Plans : InstalledInv(i) /\ AbsentInv(i)
  /\ \A u \in Units : CodeInv(u)
  /\ \A e \in Executors : ExecInv(e) /\ \A u \in Units : ViewInv(e, u)

-----------------------------------------------------------------------------
(* The plans.                                                              *)

\* A plan has steps; each has its head among its edits, which are an interval
\* inside its span, and the locks cover all spans.
LEMMA StepFacts ==
  ASSUME NEW i \in Plans
  PROVE  /\ Len(Steps[i]) \in Nat /\ Len(Steps[i]) >= 1
         /\ DOMAIN Steps[i] = 1 .. Len(Steps[i])
         /\ \A k \in DOMAIN Steps[i] :
              /\ Steps[i][k].head \in Units
              /\ Steps[i][k].span \subseteq Units
              /\ Steps[i][k].edits \subseteq Steps[i][k].span
              /\ Steps[i][k].head \in Steps[i][k].edits
              /\ \E last \in Units : Steps[i][k].edits = Steps[i][k].head .. last
         /\ \A k, l \in DOMAIN Steps[i] :
              k # l => Steps[i][k].edits \cap Steps[i][l].edits = {}
  <1> DEFINE R == [head: Units, edits: SUBSET Units, span: SUBSET Units]
  <1>1. Steps[i] \in Seq(R) /\ Steps[i] # <<>>
    BY PlanAssumption
  <1>2. /\ Len(Steps[i]) \in Nat /\ Len(Steps[i]) >= 1
        /\ DOMAIN Steps[i] = 1 .. Len(Steps[i])
        /\ \A k \in DOMAIN Steps[i] : Steps[i][k] \in R
    <2> HIDE DEF R
    <2> QED BY <1>1
  <1>3. \A k \in DOMAIN Steps[i] : WellFormed(Steps[i][k])
    BY PlanAssumption
  <1>4. StepsApart(Steps[i])
    BY PlanAssumption
  <1>5. \A k \in DOMAIN Steps[i] : /\ Steps[i][k].head \in Units
                                   /\ Steps[i][k].span \subseteq Units
    BY <1>2
  <1>6. \A k \in DOMAIN Steps[i] :
          /\ Steps[i][k].edits \subseteq Steps[i][k].span
          /\ Steps[i][k].head \in Steps[i][k].edits
          /\ \E last \in Units : Steps[i][k].edits = Steps[i][k].head .. last
    BY <1>3 DEF WellFormed
  <1> QED BY <1>2, <1>4, <1>5, <1>6, Zenon DEF StepsApart

\* What a plan edits it reads, what it reads it locks, and it reads something.
LEMMA PlanFacts ==
  ASSUME NEW i \in Plans
  PROVE  /\ Touched(i) \subseteq Reads(i) /\ Heads(i) \subseteq Touched(i)
         /\ Reads(i) \subseteq Units /\ Heads(i) # {}
         /\ \A u \in Reads(i) : \E k \in DOMAIN Locks[i] : u \in Locks[i][k]
         /\ i \notin {"none", "probe", "src"}
         /\ \A k \in DOMAIN Steps[i] : Steps[i][k].edits \subseteq Touched(i)
         /\ \A k \in DOMAIN Steps[i] : Steps[i][k].span \subseteq Reads(i)
         /\ \A k \in DOMAIN Steps[i] : <<i, k>> \in Image(i)
  <1>1. Touched(i) \subseteq Reads(i) /\ Heads(i) \subseteq Touched(i)
        /\ Reads(i) \subseteq Units
    BY StepFacts DEF Touched, Reads, Heads
  <1>2. Heads(i) # {}
    <2>1. 1 \in DOMAIN Steps[i]
      BY StepFacts
    <2> QED BY <2>1 DEF Heads
  <1>3. \A u \in Reads(i) : \E k \in DOMAIN Locks[i] : u \in Locks[i][k]
    BY PlanAssumption DEF Reads
  <1>4. i \notin {"none", "probe", "src"}
    BY PlanAssumption
  <1> QED BY <1>1, <1>2, <1>3, <1>4 DEF Touched, Reads, Image

\* The last writer of an instruction is its only one.
LEMMA OverlayFacts ==
  ASSUME NEW i \in Plans, NEW k \in 0 .. Len(Steps[i]), NEW u
  PROVE  /\ \A l \in DOMAIN Steps[i] : u \in Steps[i][l].edits =>
              Overlay(i, k, u) = IF l <= k THEN <<i, l>> ELSE Orig
         /\ u \notin Touched(i) => Overlay(i, k, u) = Orig
  <1> DEFINE W == {j \in 1 .. k : u \in Steps[i][j].edits}
  <1>0. /\ k \in Int /\ Len(Steps[i]) \in Nat
        /\ DOMAIN Steps[i] = 1 .. Len(Steps[i]) /\ 1 .. k \subseteq DOMAIN Steps[i]
    BY StepFacts
  <1>1. Overlay(i, k, u) = IF W = {} THEN Orig ELSE <<i, Max(W)>>
    BY DEF Overlay
  <1>2. ASSUME NEW l \in DOMAIN Steps[i], u \in Steps[i][l].edits
        PROVE  Overlay(i, k, u) = IF l <= k THEN <<i, l>> ELSE Orig
    <2>1. \A j \in DOMAIN Steps[i] : u \in Steps[i][j].edits => j = l
      BY <1>2, StepFacts
    <2>2. CASE l <= k
      <3>1. l \in W /\ \A j \in W : j = l
        BY <2>1, <2>2, <1>0, <1>2
      <3>2. W = {l} /\ l \in Int
        BY <3>1, <1>0
      <3>3. Max({l}) = l
        BY <3>2 DEF Max
      <3> QED BY <1>1, <2>2, <3>2, <3>3
    <2>3. CASE ~(l <= k)
      <3>1. W = {}
        BY <2>1, <2>3, <1>0
      <3> QED BY <1>1, <2>3, <3>1
    <2> QED BY <2>2, <2>3
  <1>3. ASSUME u \notin Touched(i) PROVE Overlay(i, k, u) = Orig
    <2>1. W = {}
      BY <1>0, <1>3, PlanFacts
    <2> QED BY <1>1, <2>1
  <1> QED BY <1>2, <1>3

\* A step changes what it edits, from the original bytes to its own.
LEMMA OverlaySteps ==
  ASSUME NEW i \in Plans, NEW k \in DOMAIN Steps[i], NEW u
  PROVE  /\ k \in 1 .. Len(Steps[i]) /\ k \in 0 .. Len(Steps[i])
         /\ k - 1 \in 0 .. Len(Steps[i])
         /\ u \notin Steps[i][k].edits => Overlay(i, k, u) = Overlay(i, k - 1, u)
         /\ u \in Steps[i][k].edits =>
              Overlay(i, k, u) = <<i, k>> /\ Overlay(i, k - 1, u) = Orig
  <1>1. /\ k \in 1 .. Len(Steps[i]) /\ k \in 0 .. Len(Steps[i])
        /\ k - 1 \in 0 .. Len(Steps[i]) /\ k \in Int
        /\ DOMAIN Steps[i] = 1 .. Len(Steps[i]) /\ Len(Steps[i]) \in Nat
    BY StepFacts
  <1>2. ASSUME u \in Steps[i][k].edits
        PROVE  Overlay(i, k, u) = <<i, k>> /\ Overlay(i, k - 1, u) = Orig
    <2>1. Overlay(i, k, u) = IF k <= k THEN <<i, k>> ELSE Orig
      BY <1>1, <1>2, OverlayFacts
    <2>2. Overlay(i, k - 1, u) = IF k <= k - 1 THEN <<i, k>> ELSE Orig
      BY <1>1, <1>2, OverlayFacts
    <2> QED BY <1>1, <2>1, <2>2
  <1>3. ASSUME u \notin Steps[i][k].edits
        PROVE  Overlay(i, k, u) = Overlay(i, k - 1, u)
    <2>1. CASE u \notin Touched(i)
      <3>1. Overlay(i, k, u) = Orig
        BY <1>1, <2>1, OverlayFacts
      <3>2. Overlay(i, k - 1, u) = Orig
        BY <1>1, <2>1, OverlayFacts
      <3> QED BY <3>1, <3>2
    <2>2. CASE u \in Touched(i)
      <3>1. PICK l \in DOMAIN Steps[i] : u \in Steps[i][l].edits
        BY <2>2 DEF Touched
      <3>2. Overlay(i, k, u) = IF l <= k THEN <<i, l>> ELSE Orig
        BY <1>1, <3>1, OverlayFacts
      <3>3. Overlay(i, k - 1, u) = IF l <= k - 1 THEN <<i, l>> ELSE Orig
        BY <1>1, <3>1, OverlayFacts
      <3>4. l # k /\ l \in Int
        BY <1>1, <1>3, <3>1
      <3> QED BY <1>1, <3>2, <3>3, <3>4
    <2> QED BY <2>1, <2>2
  <1> QED BY <1>1, <1>2, <1>3

\* Before the first step there are original bytes, after the last the plan's.
LEMMA EndsOfOverlay ==
  ASSUME NEW i \in Plans, NEW u
  PROVE  /\ Overlay(i, 0, u) = Orig
         /\ Final(i, u) = Overlay(i, Len(Steps[i]), u)
         /\ u \in Touched(i) =>
              \E k \in DOMAIN Steps[i] : u \in Steps[i][k].edits /\ Final(i, u) = <<i, k>>
         /\ \A k \in DOMAIN Steps[i] : u \in Steps[i][k].edits => Final(i, u) = <<i, k>>
         /\ u \in Touched(i) => Final(i, u) \in Image(i)
         /\ u \notin Touched(i) => Final(i, u) = Orig
  <1>1. /\ 0 \in 0 .. Len(Steps[i]) /\ Len(Steps[i]) \in 0 .. Len(Steps[i])
        /\ DOMAIN Steps[i] = 1 .. Len(Steps[i])
    BY StepFacts
  <1>2. Overlay(i, 0, u) = Orig
    <2>1. CASE u \notin Touched(i)
      BY <1>1, <2>1, OverlayFacts
    <2>2. CASE u \in Touched(i)
      <3>1. PICK l \in DOMAIN Steps[i] : u \in Steps[i][l].edits
        BY <2>2 DEF Touched
      <3>2. Overlay(i, 0, u) = IF l <= 0 THEN <<i, l>> ELSE Orig
        BY <1>1, <3>1, OverlayFacts
      <3> QED BY <1>1, <3>2
    <2> QED BY <2>1, <2>2
  <1>3. \A k \in DOMAIN Steps[i] : u \in Steps[i][k].edits => Final(i, u) = <<i, k>>
    <2> SUFFICES ASSUME NEW k \in DOMAIN Steps[i], u \in Steps[i][k].edits
                 PROVE  Final(i, u) = <<i, k>>
      OBVIOUS
    <2>1. Final(i, u) = IF k <= Len(Steps[i]) THEN <<i, k>> ELSE Orig
      BY <1>1, OverlayFacts DEF Final
    <2> QED BY <1>1, <2>1
  <1>4. u \in Touched(i) =>
          \E k \in DOMAIN Steps[i] : u \in Steps[i][k].edits /\ Final(i, u) = <<i, k>>
    BY <1>3 DEF Touched
  <1>5. u \notin Touched(i) => Final(i, u) = Orig
    BY <1>1, OverlayFacts DEF Final
  <1>6. u \in Touched(i) => Final(i, u) \in Image(i)
    BY <1>4 DEF Image
  <1> QED BY <1>2, <1>3, <1>4, <1>5, <1>6 DEF Final

\* Generated code, instructions and the other places and bytes are distinct.
LEMMA Distinct ==
  ASSUME NEW i \in Plans, NEW x \in Image(i)
  PROVE  /\ \E k \in DOMAIN Steps[i] : x = <<i, k>>
         /\ x \notin {Orig, Probed, Out, Lost}
         /\ \A u : x # Src(u)
         /\ \A j \in Plans : x \in Image(j) => i = j
         /\ x[1] = i /\ x[2] \in DOMAIN Steps[i] /\ x = <<x[1], x[2]>>
  <1>1. PICK k \in DOMAIN Steps[i] : x = <<i, k>>
    BY DEF Image
  <1>2. k >= 1 /\ k \in Int /\ k # 0
    BY StepFacts
  <1>3. i # "src"
    BY PlanFacts
  <1> QED BY <1>1, <1>2, <1>3 DEF Image, Orig, Probed, Out, Lost, Src

\* Markers are neither heads nor the first of anything: what precedes a marker
\* is displaced by the same step.
LEMMA MarkerFacts ==
  ASSUME NEW i \in Plans, NEW u \in Units, Marker(i, u)
  PROVE  /\ u - 1 \in Touched(i)
         /\ \A k \in DOMAIN Steps[i] :
              u \in Steps[i][k].edits <=> u - 1 \in Steps[i][k].edits
  <1>1. PICK k \in DOMAIN Steps[i] : u \in Steps[i][k].edits
    BY DEF Marker, Touched
  <1>2. u # Steps[i][k].head
    BY DEF Marker, Heads
  <1>3. PICK last \in Units : Steps[i][k].edits = Steps[i][k].head .. last
    BY StepFacts
  <1>4. Steps[i][k].head \in Int /\ u \in Int /\ last \in Int
    BY StepFacts DEF Units
  <1>5. u - 1 \in Steps[i][k].edits
    BY <1>1, <1>2, <1>3, <1>4
  <1>6. \A l \in DOMAIN Steps[i] : u \in Steps[i][l].edits => l = k
    BY <1>1, StepFacts
  <1>7. \A l \in DOMAIN Steps[i] : u - 1 \in Steps[i][l].edits => l = k
    BY <1>5, StepFacts
  <1> QED BY <1>1, <1>5, <1>6, <1>7, PlanFacts

\* A head is the head of the step that edits it.
LEMMA HeadFacts ==
  ASSUME NEW i \in Plans, NEW k \in DOMAIN Steps[i], NEW u \in Steps[i][k].edits
  PROVE  Marker(i, u) <=> Steps[i][k].head # u
  <1>1. u \in Touched(i)
    BY PlanFacts
  <1>2. ASSUME u \in Heads(i) PROVE Steps[i][k].head = u
    <2>1. PICK l \in DOMAIN Steps[i] : Steps[i][l].head = u
      BY <1>2 DEF Heads
    <2>2. u \in Steps[i][l].edits
      BY <2>1, StepFacts
    <2> QED BY <2>1, <2>2, StepFacts
  <1>3. Steps[i][k].head = u => u \in Heads(i)
    BY DEF Heads
  <1> QED BY <1>1, <1>2, <1>3 DEF Marker

\* The last instruction of a step is its greatest.
LEMMA LastFacts ==
  ASSUME NEW i \in Plans, NEW k \in DOMAIN Steps[i]
  PROVE  /\ Max(Steps[i][k].edits) \in Steps[i][k].edits
         /\ Max(Steps[i][k].edits) + 1 \notin Steps[i][k].edits
  <1>1. PICK last \in Units : Steps[i][k].edits = Steps[i][k].head .. last
    BY StepFacts
  <1>2. /\ Steps[i][k].head \in Int /\ last \in Int
        /\ Steps[i][k].head \in Steps[i][k].edits
    BY StepFacts DEF Units
  <1>3. /\ last \in Steps[i][k].edits
        /\ \A y \in Steps[i][k].edits : last >= y /\ y \in Int
    BY <1>1, <1>2
  <1>4. /\ Max(Steps[i][k].edits) \in Steps[i][k].edits
        /\ \A y \in Steps[i][k].edits : Max(Steps[i][k].edits) >= y
    BY <1>3 DEF Max
  <1>5. Max(Steps[i][k].edits) = last
    BY <1>3, <1>4
  <1> QED BY <1>1, <1>2, <1>3, <1>5

-----------------------------------------------------------------------------
(* What the invariant says of calls and owners.                            *)

\* The call of a publisher that is not idle.
LEMMA CallFacts ==
  ASSUME IInv, NEW p \in Publishers, pub[p].step # "idle"
  PROVE  /\ pub[p].plan \in Plans /\ pub[p] # NoCall
         /\ pub[p].gen = generation
         /\ Source(Reads(pub[p].plan)) \subseteq lease[p].held
         /\ lease[p].poisoned <=> pub[p].step \in Writing
         /\ PhaseInv(p)
  BY DEF IInv, CallInv, HoldsInv, NoCall

\* Publishers of different leases never work on the same plan.
LEMMA CallsApart ==
  ASSUME IInv, NEW p \in Publishers, NEW q \in Publishers, p # q,
         pub[p].step # "idle"
  PROVE  pub[q].plan # pub[p].plan
  <1>1. /\ pub[p].plan \in Plans
        /\ Source(Reads(pub[p].plan)) \subseteq lease[p].held
    BY CallFacts
  <1>2. CASE pub[q] = NoCall
    BY <1>1, <1>2, PlanFacts DEF NoCall
  <1>3. CASE pub[q] # NoCall
    <2>1. Source(Reads(pub[q].plan)) \subseteq lease[q].held
      BY <1>3 DEF IInv, CallInv, HoldsInv
    <2>2. lease[p].held \cap lease[q].held = {}
      BY DEF IInv, LeaseInv
    <2>3. Reads(pub[p].plan) # {}
      BY <1>1, PlanFacts
    <2>4. Source(Reads(pub[p].plan)) # {}
      BY <2>3 DEF Source
    <2> QED BY <1>1, <2>1, <2>2, <2>4
  <1> QED BY <1>2, <1>3

\* Two owners have no instruction in common.
LEMMA OwnersApart ==
  ASSUME NEW i \in Plans, NEW j \in Plans, i # j, AllOwned(i), AllOwned(j)
  PROVE  Reads(i) \cap Reads(j) = {}
  <1>1. \A u \in Reads(i) : owner[u] = i
    BY PlanFacts DEF AllOwned
  <1>2. \A u \in Reads(j) : owner[u] = j
    BY PlanFacts DEF AllOwned
  <1> QED BY <1>1, <1>2

\* Who owns a plan's locks owns what it reads.
LEMMA OwnedReads ==
  ASSUME NEW i \in Plans, AllOwned(i)
  PROVE  \A u \in Reads(i) : owner[u] = i
  BY PlanFacts DEF AllOwned

\* A plan whose call has passed its last check is installed.
LEMMA WriterInstalled ==
  ASSUME IInv, NEW p \in Publishers, pub[p].step \in Writing
  PROVE  Installed(pub[p].plan) /\ AllOwned(pub[p].plan)
  <1>1. pub[p].step # "idle"
    BY DEF Writing
  <1>2. PhaseInv(p) /\ pub[p].plan \in Plans
    BY <1>1, CallFacts
  <1>3. Installed(pub[p].plan)
    BY <1>2 DEF PhaseInv, Writing, Installed
  <1> QED BY <1>2, <1>3 DEF IInv, InstalledInv

\* The next step of a call.
LEMMA GotoFacts ==
  ASSUME TypeOK, NEW p \in Publishers, NEW s \in Stages, NEW k \in Nat,
         Goto(p, s, k)
  PROVE  /\ pub' \in [Publishers -> [step: Stages, plan: PlanOrNone,
                                     gen: 0 .. Len(Entries), k: Nat]]
         /\ pub'[p].step = s /\ pub'[p].k = k
         /\ pub'[p].plan = pub[p].plan /\ pub'[p].gen = pub[p].gen
         /\ \A q \in Publishers : q # p => pub'[q] = pub[q]
  BY ZenonT(60) DEF TypeOK, Goto

\* The end of a call.
LEMMA DoneFacts ==
  ASSUME TypeOK, NEW p \in Publishers, pub' = [pub EXCEPT ![p] = NoCall]
  PROVE  /\ pub' \in [Publishers -> [step: Stages, plan: PlanOrNone,
                                     gen: 0 .. Len(Entries), k: Nat]]
         /\ pub'[p] = NoCall /\ pub'[p].step = "idle"
         /\ \A q \in Publishers : q # p => pub'[q] = pub[q]
  <1>1. 0 \in 0 .. Len(Entries)
    BY PlanAssumption
  <1>2. NoCall \in [step: Stages, plan: PlanOrNone, gen: 0 .. Len(Entries), k: Nat]
    BY <1>1 DEF NoCall, Stages, PlanOrNone
  <1> QED BY <1>2 DEF TypeOK, NoCall

\* Setting the poison of a lease.
LEMMA PoisonFacts ==
  ASSUME TypeOK, NEW p \in Publishers, NEW b \in BOOLEAN,
         lease' = [lease EXCEPT ![p].poisoned = b]
  PROVE  /\ lease' \in [Publishers -> [held: Scopes \cup {{}},
                                       identity: 0 .. Len(Entries), poisoned: BOOLEAN]]
         /\ lease'[p].poisoned = b
         /\ \A q \in Publishers : /\ q # p => lease'[q] = lease[q]
                                  /\ lease'[q].held = lease[q].held
                                  /\ lease'[q].identity = lease[q].identity
  BY ZenonT(60) DEF TypeOK

-----------------------------------------------------------------------------
(* What a step about one plan leaves alone.                                *)

\* A step of publisher p about plan i keeps what holds of other calls and plans.
LEMMA OthersKept ==
  ASSUME IInv, NEW p \in Publishers, NEW i \in Plans,
         pub[p].plan = i \/ (pub[p] = NoCall /\ ~lease[p].poisoned),
         \A q \in Publishers :
           q # p => pub[q].plan # i /\ pub'[q] = pub[q] /\ lease'[q] = lease[q],
         \A j \in Plans :
           j # i => /\ image'[j] = image[j] /\ batch'[j] = batch[j]
                    /\ made'[j] = made[j] /\ handle'[j] = handle[j]
                    /\ j \in receipts' <=> j \in receipts,
         \A u \in Units : \A j \in Plans : j # i => (owner'[u] = j <=> owner[u] = j),
         \A u \in Units : code'[u] # code[u] => u \in Reads(i) /\ AllOwned(i),
         generation' = generation
  PROVE  /\ \A q \in Publishers : q # p => CallInv(q)'
         /\ \A j \in Plans : j # i => InstalledInv(j)' /\ AbsentInv(j)'
  <1>1. ASSUME NEW j \in Plans, j # i
        PROVE  /\ Installed(j)' <=> Installed(j)
               /\ AllOwned(j) => AllOwned(j)'
               /\ AllOwned(j) => \A u \in Reads(j) : code'[u] = code[u]
               /\ AllOwned(j) => \A k : Shows(j, k) => Shows(j, k)'
    <2>1. Installed(j)' <=> Installed(j)
      BY <1>1 DEF Installed
    <2>2. AllOwned(j) => AllOwned(j)'
      <3>1. \A k \in DOMAIN Locks[j] : Locks[j][k] \subseteq Units
        BY PlanAssumption
      <3> QED BY <1>1, <3>1 DEF AllOwned
    <2>3. AllOwned(j) => \A u \in Reads(j) : code'[u] = code[u]
      BY <1>1, OwnersApart, PlanFacts
    <2>4. AllOwned(j) => \A k : Shows(j, k) => Shows(j, k)'
      BY <2>3 DEF Shows
    <2> QED BY <2>1, <2>2, <2>3, <2>4
  <1>2. ASSUME NEW q \in Publishers, q # p
        PROVE  CallInv(q)'
    <2>1. CallInv(q) /\ pub[q].plan # i /\ pub'[q] = pub[q] /\ lease'[q] = lease[q]
      BY <1>2 DEF IInv
    <2>2. HoldsInv(q)'
      BY <2>1 DEF CallInv, HoldsInv
    <2>3. CASE pub[q] = NoCall
      <3>1. pub'[q].step = "idle"
        BY <2>1, <2>3 DEF NoCall
      <3> QED BY <2>2, <3>1 DEF CallInv, PhaseInv, PreWrite
    <2>4. CASE pub[q] # NoCall
      <3>0. PICK j \in Plans : j = pub[q].plan
        BY <2>1, <2>4 DEF CallInv, HoldsInv
      <3>1. j # i
        BY <2>1, <3>0
      <3>2. /\ Installed(j)' <=> Installed(j)
            /\ AllOwned(j) => AllOwned(j)'
            /\ AllOwned(j) => \A k : Shows(j, k) => Shows(j, k)'
        BY <1>1, <3>1
      <3>3. /\ image'[j] = image[j] /\ batch'[j] = batch[j] /\ made'[j] = made[j]
            /\ handle'[j] = handle[j] /\ (j \in receipts' <=> j \in receipts)
        BY <3>1
      <3>4. pub[q].step \in Writing => AllOwned(j)
        BY <3>0, WriterInstalled
      <3>5. PhaseInv(q)
        BY <2>1 DEF CallInv
      <3>6. \A k \in DOMAIN Locks[j] : \A u \in Locks[j][k] :
              owner[u] = j => owner'[u] = j
        <4>1. \A k \in DOMAIN Locks[j] : Locks[j][k] \subseteq Units
          BY <3>1, PlanAssumption
        <4> QED BY <3>1, <4>1
      <3>7. /\ pub'[q].plan = j /\ pub[q].plan = j
            /\ pub'[q] = pub[q] /\ lease'[q] = lease[q]
        BY <2>1, <3>0
      <3>8. PhaseInv(q)'
        BY <3>2, <3>3, <3>4, <3>5, <3>6, <3>7 DEF PhaseInv, Writing
      <3> QED BY <2>2, <3>8 DEF CallInv
    <2> QED BY <2>3, <2>4
  <1>3. ASSUME NEW j \in Plans, j # i
        PROVE  InstalledInv(j)' /\ AbsentInv(j)'
    <2>1. /\ Installed(j)' <=> Installed(j)
          /\ AllOwned(j) => AllOwned(j)'
          /\ AllOwned(j) => \A k : Shows(j, k) => Shows(j, k)'
      BY <1>1, <1>3
    <2>2. /\ image'[j] = image[j] /\ batch'[j] = batch[j] /\ made'[j] = made[j]
          /\ handle'[j] = handle[j] /\ (j \in receipts' <=> j \in receipts)
      BY <1>3
    <2>3. Broken(j) => Broken(j)'
      <3>1. ASSUME NEW q \in Publishers, lease[q].poisoned,
                   Source(Reads(j)) \subseteq lease[q].held,
                   pub[q] = NoCall \/ pub[q].plan = j
            PROVE  Broken(j)'
        <4>1. q # p
          BY <1>3, <3>1, PlanFacts DEF NoCall
        <4>2. pub'[q] = pub[q] /\ lease'[q] = lease[q]
          BY <4>1
        <4> QED BY <3>1, <4>2 DEF Broken
      <3> QED BY <3>1 DEF Broken
    <2>4. InstalledInv(j) /\ AbsentInv(j)
      BY DEF IInv
    <2>5. InstalledInv(j)'
      BY <2>1, <2>2, <2>3, <2>4 DEF InstalledInv
    <2>6. \A q \in Publishers : pub[q].plan = j => pub'[q] = pub[q]
      BY <1>3, PlanFacts DEF NoCall
    <2>7. \A S : (\E q \in Publishers : At(q, j, S))
                 => (\E q \in Publishers : At(q, j, S)')
      BY <2>6 DEF At
    <2>8. Busy(j) => Busy(j)'
      BY <2>6 DEF Busy
    <2>9. \A u \in Units : owner'[u] = j => owner[u] = j
      BY <1>3
    <2>10. AbsentInv(j)'
      BY <2>1, <2>2, <2>4, <2>7, <2>8, <2>9 DEF AbsentInv
    <2> QED BY <2>5, <2>10
  <1> QED BY <1>2, <1>3

\* The bytes in memory depend on which plans are installed.
LEMMA CodeKept ==
  ASSUME IInv, code' = code, \A j \in Plans : Installed(j) => Installed(j)'
  PROVE  \A u \in Units : CodeInv(u)'
  BY DEF IInv, CodeInv

\* So do the fetched ones, and on what is shut.
LEMMA ViewKept ==
  ASSUME IInv, code' = code, view' = view,
         \A u \in Units : Shut(u) => Shut(u)',
         \A j \in Plans : Installed(j) => Installed(j)'
  PROVE  \A e \in Executors : \A u \in Units : ViewInv(e, u)'
  BY DEF IInv, ViewInv

\* Executors stand still while leases and installed plans stay.
LEMMA ExecKept ==
  ASSUME IInv, pc' = pc, trap' = trap, generation' = generation,
         \A p \in Publishers : lease'[p].held = lease[p].held,
         \A j \in Plans : Installed(j)' <=> Installed(j)
  PROVE  \A e \in Executors : ExecInv(e)'
  BY DEF IInv, ExecInv, Held, Marker, Touched, Heads, Image

\* Barriers leave every executor with the current bytes.
LEMMA ViewSynced ==
  ASSUME view' = Synchronized, code' = code
  PROVE  \A e \in Executors : \A u \in Units : ViewInv(e, u)'
  BY DEF ViewInv, Synchronized

\* A poisoned lease that stays keeps shut what it holds.
LEMMA ShutKept ==
  ASSUME \A p \in Publishers : /\ lease[p].poisoned => lease'[p].poisoned
                               /\ lease[p].held = lease'[p].held
  PROVE  \A u \in Units : Shut(u) => Shut(u)'
  BY DEF Shut

-----------------------------------------------------------------------------
(* The lease.                                                              *)

\* An idle call that nothing else concerns.
LEMMA IdleKept ==
  ASSUME NEW p \in Publishers, pub'[p] = NoCall
  PROVE  CallInv(p)'
  BY DEF CallInv, HoldsInv, PhaseInv, NoCall, PreWrite

\* A step of leases alone keeps what holds of the plans, if it neither poisons
\* nor gives up a poisoned lease.
LEMMA PlansKept ==
  ASSUME IInv,
         UNCHANGED <<code, owner, image, batch, made, handle, receipts>>,
         UNCHANGED <<pub, generation>>,
         \A p \in Publishers : lease[p].poisoned => lease'[p] = lease[p]
  PROVE  \A i \in Plans : InstalledInv(i)' /\ AbsentInv(i)'
  <1> SUFFICES ASSUME NEW i \in Plans PROVE InstalledInv(i)' /\ AbsentInv(i)'
    OBVIOUS
  <1>1. InstalledInv(i) /\ AbsentInv(i)
    BY DEF IInv
  <1>2. /\ Installed(i)' <=> Installed(i)
        /\ AllOwned(i)' <=> AllOwned(i)
        /\ \A k : Shows(i, k)' <=> Shows(i, k)
    BY DEF Installed, AllOwned, Shows
  <1>3. Broken(i) => Broken(i)'
    BY DEF Broken
  <1>4. InstalledInv(i)'
    BY <1>1, <1>2, <1>3 DEF InstalledInv
  <1>5. AbsentInv(i)'
    BY <1>1, <1>2 DEF AbsentInv, At, Busy
  <1> QED BY <1>4, <1>5

\* A call whose lease and surroundings stay.
LEMMA CallKept ==
  ASSUME NEW p \in Publishers, CallInv(p), lease'[p] = lease[p],
         UNCHANGED <<code, owner, image, batch, made, handle, receipts>>,
         UNCHANGED <<pub, generation>>
  PROVE  CallInv(p)'
  <1>1. \A i : Installed(i)' <=> Installed(i)
    BY DEF Installed
  <1>2. \A i : AllOwned(i)' <=> AllOwned(i)
    BY DEF AllOwned
  <1>3. \A i, k : Shows(i, k)' <=> Shows(i, k)
    BY DEF Shows
  <1>4. HoldsInv(p)'
    BY DEF CallInv, HoldsInv
  <1>5. PhaseInv(p)'
    BY <1>1, <1>2, <1>3 DEF CallInv, PhaseInv
  <1> QED BY <1>4, <1>5 DEF CallInv

\* A publisher with a free lease has no call.
LEMMA FreeIsIdle ==
  ASSUME IInv, NEW p \in Publishers, lease[p].held = {}
  PROVE  pub[p] = NoCall
  <1>1. \A i \in Plans : Source(Reads(i)) # {}
    BY PlanFacts DEF Source
  <1> QED BY <1>1 DEF IInv, CallInv, HoldsInv

\* A lease is granted: disjoint from the others, and nobody is inside.
LEMMA AcquireKeeps ==
  ASSUME IInv, NEW p \in Publishers, NEW S \in Scopes, AcquireLease(p, S)
  PROVE  IInv'
  <1> USE DEF AcquireLease, bytes, assets, calls, signal, env, execs
  <1>1. /\ lease[p] = Free /\ lease[p].held = {} /\ ~lease[p].poisoned
        /\ TypeOK /\ generation \in 0 .. Len(Entries)
    BY DEF IInv, Free, TypeOK, Generations
  <1>2. /\ lease'[p] = [held |-> S, identity |-> generation, poisoned |-> FALSE]
        /\ lease'[p].held = S /\ lease'[p].identity = generation
        /\ ~lease'[p].poisoned
        /\ \A q \in Publishers : q # p => lease'[q] = lease[q]
    BY <1>1 DEF TypeOK
  <1>3. TypeOK'
    BY <1>1 DEF TypeOK
  <1>4. LeaseInv'
    <2>1. \A q \in Publishers : S \cap lease[q].held = {}
      BY DEF Held
    <2> QED BY <1>2, <2>1 DEF IInv, LeaseInv
  <1>5. SignalInv' /\ ProbeInv'
    BY DEF IInv, SignalInv, ProbeInv, Active, Verified
  <1>6. \A q \in Publishers : CallInv(q)'
    <2>1. pub'[p] = NoCall
      BY <1>1, FreeIsIdle
    <2>2. \A q \in Publishers : q # p => CallInv(q)'
      BY <1>2, CallKept DEF IInv
    <2> QED BY <2>1, <2>2, IdleKept
  <1>7. \A i \in Plans : InstalledInv(i)' /\ AbsentInv(i)'
    BY <1>1, <1>2, PlansKept
  <1>8. \A j \in Plans : Installed(j) <=> Installed(j)'
    BY DEF Installed
  <1>9. \A u \in Units : CodeInv(u)'
    BY <1>8, CodeKept
  <1>10. \A e \in Executors : \A u \in Units : ViewInv(e, u)'
    <2>1. \A u \in Units : Shut(u) => Shut(u)'
      BY <1>1, <1>2 DEF Shut
    <2> QED BY <1>8, <2>1, ViewKept
  <1>11. \A e \in Executors : ExecInv(e)'
    <2> SUFFICES ASSUME NEW e \in Executors PROVE ExecInv(e)'
      OBVIOUS
    <2>1. ExecInv(e)
      BY DEF IInv
    <2>2. pc'[e] \notin Held'
      BY <1>2, <2>1 DEF Held, ExecInv
    <2> QED BY <1>8, <2>1, <2>2 DEF ExecInv
  <1> QED BY <1>3, <1>4, <1>5, <1>6, <1>7, <1>9, <1>10, <1>11 DEF IInv

\* A lease whose call is over is given back.
LEMMA ReleaseKeeps ==
  ASSUME IInv, NEW p \in Publishers, ReleaseLease(p)
  PROVE  IInv'
  <1> USE DEF ReleaseLease, bytes, assets, calls, signal, env, execs
  <1>1. ~lease[p].poisoned /\ TypeOK /\ 0 \in 0 .. Len(Entries) /\ pub'[p] = NoCall
    BY PlanAssumption DEF IInv
  <1>2. /\ lease'[p] = Free /\ lease'[p].held = {} /\ ~lease'[p].poisoned
        /\ \A q \in Publishers : q # p => lease'[q] = lease[q]
    BY <1>1 DEF TypeOK, Free
  <1>3. TypeOK'
    BY <1>1 DEF TypeOK, Free
  <1>4. LeaseInv'
    BY <1>2 DEF IInv, LeaseInv
  <1>5. SignalInv' /\ ProbeInv'
    BY DEF IInv, SignalInv, ProbeInv, Active, Verified
  <1>6. \A q \in Publishers : CallInv(q)'
    <2>1. \A q \in Publishers : q # p => CallInv(q)'
      BY <1>2, CallKept DEF IInv
    <2> QED BY <1>1, <2>1, IdleKept
  <1>7. \A i \in Plans : InstalledInv(i)' /\ AbsentInv(i)'
    BY <1>1, <1>2, PlansKept
  <1>8. \A j \in Plans : Installed(j) <=> Installed(j)'
    BY DEF Installed
  <1>9. \A u \in Units : CodeInv(u)'
    BY <1>8, CodeKept
  <1>10. \A e \in Executors : \A u \in Units : ViewInv(e, u)'
    <2>1. \A u \in Units : Shut(u) => Shut(u)'
      BY <1>1, <1>2 DEF Shut
    <2> QED BY <1>8, <2>1, ViewKept
  <1>11. \A e \in Executors : ExecInv(e)'
    <2> SUFFICES ASSUME NEW e \in Executors PROVE ExecInv(e)'
      OBVIOUS
    <2>1. ExecInv(e)
      BY DEF IInv
    <2>2. pc'[e] \notin Held'
      BY <1>2, <2>1 DEF Held, ExecInv
    <2> QED BY <1>8, <2>1, <2>2 DEF ExecInv
  <1> QED BY <1>3, <1>4, <1>5, <1>6, <1>7, <1>9, <1>10, <1>11 DEF IInv

-----------------------------------------------------------------------------
(* Publication up to the last check.                                       *)

\* A call that has not passed the last check, in terms of its plan.
LEMMA EarlyCall ==
  ASSUME IInv, NEW p \in Publishers, pub[p].step \in PreWrite
  PROVE  \E i \in Plans :
           /\ pub[p].plan = i /\ ~Installed(i) /\ ~lease[p].poisoned
           /\ Source(Reads(i)) \subseteq lease[p].held /\ pub[p].gen = generation
           /\ i \notin receipts /\ batch[i] # "committed"
           /\ handle[i] \in {"absent", "retired"}
           /\ \A q \in Publishers : q # p => pub[q].plan # i
           /\ ~(handle[i] = "absent" /\ image[i] = "live")
           /\ CallInv(p) /\ AbsentInv(i)
  <1>1. pub[p].step # "idle" /\ pub[p].step \notin Writing
    BY DEF PreWrite, Writing
  <1>2. PICK i \in Plans : pub[p].plan = i
    BY <1>1, CallFacts
  <1>3. /\ ~lease[p].poisoned /\ Source(Reads(i)) \subseteq lease[p].held
        /\ pub[p].gen = generation /\ PhaseInv(p)
    BY <1>1, <1>2, CallFacts DEF IInv, TypeOK
  <1>4. ~Installed(i)
    BY <1>2, <1>3 DEF PhaseInv
  <1>5. AbsentInv(i) /\ CallInv(p)
    BY DEF IInv
  <1>6. \A q \in Publishers : q # p => pub[q].plan # i
    BY <1>1, <1>2, CallsApart
  <1>7. ~(handle[i] = "absent" /\ image[i] = "live")
    BY <1>2, <1>4, <1>5, <1>6 DEF AbsentInv, At, PreWrite
  <1> QED BY <1>2, <1>3, <1>4, <1>5, <1>6, <1>7 DEF AbsentInv

\* What a step of the call leaves of the rest, as long as neither the source
\* nor the set of installed plans changes.
LEMMA EarlyKept ==
  ASSUME IInv, UNCHANGED <<bytes, lease, env, execs>>,
         \A j \in Plans : Installed(j)' <=> Installed(j)
  PROVE  /\ LeaseInv'
         /\ \A u \in Units : CodeInv(u)'
         /\ \A e \in Executors : ExecInv(e)' /\ \A u \in Units : ViewInv(e, u)'
  <1> USE DEF bytes, env, execs
  <1>1. LeaseInv'
    BY DEF IInv, LeaseInv
  <1>2. \A u \in Units : CodeInv(u)'
    BY CodeKept
  <1>3. \A e \in Executors : ExecInv(e)'
    BY ExecKept
  <1>4. \A u \in Units : Shut(u) => Shut(u)'
    BY DEF Shut
  <1>5. \A e \in Executors : \A u \in Units : ViewInv(e, u)'
    BY <1>4, ViewKept
  <1> QED BY <1>1, <1>2, <1>3, <1>5

\* A step of a call that is not yet at the last check: what it must show.
LEMMA EarlyStep ==
  ASSUME IInv, TypeOK', NEW p \in Publishers, NEW i \in Plans,
         pub[p].plan = i \/ (pub[p] = NoCall /\ ~lease[p].poisoned),
         UNCHANGED <<bytes, lease, env, execs, handle, receipts>>,
         \A q \in Publishers : q # p => pub[q].plan # i /\ pub'[q] = pub[q],
         \A j \in Plans : j # i => /\ image'[j] = image[j] /\ batch'[j] = batch[j]
                                   /\ made'[j] = made[j],
         \A u \in Units : \A j \in Plans : j # i => (owner'[u] = j <=> owner[u] = j),
         \A u \in Units : owner[u] = "probe" => owner'[u] = "probe",
         ~Installed(i), ~Installed(i)', SignalInv',
         CallInv(p)', AbsentInv(i)'
  PROVE  IInv'
  <1>1. \A j \in Plans : Installed(j)' <=> Installed(j)
    BY DEF Installed
  <1>2. /\ LeaseInv'
        /\ \A u \in Units : CodeInv(u)'
        /\ \A e \in Executors : ExecInv(e)' /\ \A u \in Units : ViewInv(e, u)'
    BY <1>1, EarlyKept
  <1>3. /\ \A q \in Publishers : q # p => CallInv(q)'
        /\ \A j \in Plans : j # i => InstalledInv(j)' /\ AbsentInv(j)'
    BY OthersKept DEF bytes, env
  <1>4. InstalledInv(i)'
    BY DEF InstalledInv
  <1>5. ProbeInv'
    BY PlanAssumption DEF IInv, ProbeInv, env
  <1> QED BY <1>2, <1>3, <1>4, <1>5 DEF IInv

\* A publication starts: its plan is not installed, as its head is not there.
LEMMA PublishKeeps ==
  ASSUME IInv, NEW p \in Publishers, NEW i \in Plans, NEW g \in Generations,
         Publish(p, i, g)
  PROVE  IInv'
  <1> DEFINE c == [step |-> "reserve", plan |-> i, gen |-> g, k |-> 1]
  <1>1. /\ TypeOK /\ pub[p] = NoCall /\ ~lease[p].poisoned
        /\ lease[p].identity = g /\ Source(Reads(i)) \subseteq lease[p].held
        /\ ~Busy(i) /\ \A u \in Reads(i) : code[u] = Orig
        /\ UNCHANGED <<bytes, assets, lease, signal, env, execs>>
        /\ pub' = [pub EXCEPT ![p] = c]
    BY DEF IInv, Publish, Covers
  <1>2. Source(Reads(i)) # {} /\ Heads(i) # {} /\ Heads(i) \subseteq Touched(i)
        /\ Touched(i) \subseteq Reads(i)
    BY PlanFacts DEF Source
  <1>3. g = generation
    BY <1>1, <1>2 DEF IInv, LeaseInv
  <1>4. c \in [step: Stages, plan: PlanOrNone, gen: 0 .. Len(Entries), k: Nat]
    BY PlanAssumption DEF Stages, PreWrite, PlanOrNone, Generations
  <1>5. pub'[p] = c /\ \A q \in Publishers : q # p => pub'[q] = pub[q] /\ pub[q].plan # i
    BY <1>1, <1>4 DEF TypeOK, Busy
  <1>6. TypeOK'
    BY <1>1, <1>4 DEF TypeOK, bytes, assets, signal, env, execs
  <1>7. ~Installed(i)
    <2>1. SUFFICES ASSUME Installed(i) PROVE FALSE
      OBVIOUS
    <2>2. Broken(i) \/ Shows(i, Len(Steps[i]))
      BY <2>1 DEF IInv, InstalledInv
    <2>3. CASE Broken(i)
      <3>1. PICK q \in Publishers :
              lease[q].poisoned /\ Source(Reads(i)) \subseteq lease[q].held
        BY <2>3 DEF Broken
      <3>2. lease[p].held \cap lease[q].held = {}
        BY <1>1, <3>1 DEF IInv, LeaseInv
      <3> QED BY <1>1, <1>2, <3>1, <3>2
    <2>4. CASE Shows(i, Len(Steps[i]))
      <3>1. PICK u \in Heads(i) : TRUE
        BY <1>2
      <3>2. Overlay(i, Len(Steps[i]), u) \in Image(i)
        BY <1>2, <3>1, EndsOfOverlay
      <3>3. Overlay(i, Len(Steps[i]), u) # Orig
        BY <3>2, Distinct
      <3> QED BY <1>1, <1>2, <2>4, <3>1, <3>3 DEF Shows
    <2> QED BY <2>2, <2>3, <2>4
  <1>8. ~Installed(i)' /\ SignalInv'
    BY <1>1, <1>7 DEF Installed, assets, signal, IInv, SignalInv, Active, Verified
  <1>9. AbsentInv(i) /\ ~(handle[i] = "absent" /\ image[i] = "live")
        /\ image[i] # "staged" /\ batch[i] = "off"
    BY <1>1, <1>7 DEF IInv, AbsentInv, Busy, At, TypeOK
  <1>10. CallInv(p)'
    <2>1. HoldsInv(p)'
      BY <1>1, <1>3, <1>5 DEF HoldsInv, Writing, env, TypeOK
    <2>2. \A j \in DOMAIN Locks[i] : ~(j < 1)
      BY PlanAssumption
    <2>3. PhaseInv(p)'
      BY <1>1, <1>5, <1>8, <1>9, <2>2 DEF PhaseInv, PreWrite, assets
    <2> QED BY <2>1, <2>3 DEF CallInv
  <1>11. AbsentInv(i)'
    <2>1. Busy(i)'
      BY <1>5 DEF Busy
    <2> QED BY <1>1, <1>7, <1>8, <1>9, <2>1 DEF AbsentInv, assets
  <1> QED BY <1>1, <1>5, <1>6, <1>7, <1>8, <1>10, <1>11, EarlyStep DEF assets

\* A refusal leaves what a plan without a call leaves.
LEMMA AbandonKeeps ==
  ASSUME IInv, NEW p \in Publishers, pub[p].step \in PreWrite, Abandon(p)
  PROVE  IInv'
  <1>1. PICK i \in Plans :
          /\ pub[p].plan = i /\ ~Installed(i) /\ i \notin receipts
          /\ batch[i] # "committed" /\ handle[i] \in {"absent", "retired"}
          /\ \A q \in Publishers : q # p => pub[q].plan # i
          /\ ~(handle[i] = "absent" /\ image[i] = "live") /\ AbsentInv(i)
    BY EarlyCall
  <1>2. /\ TypeOK /\ owner' = Unreserved(p)
        /\ image' = [image EXCEPT ![i] = IF @ = "staged" THEN "none" ELSE @]
        /\ batch' = [batch EXCEPT ![i] = IF @ = "staged" THEN "off" ELSE @]
        /\ pub' = [pub EXCEPT ![p] = NoCall]
        /\ UNCHANGED <<bytes, made, handle, receipts, lease, signal, env, execs>>
    BY <1>1 DEF Abandon, IInv
  <1>3. /\ pub' \in [Publishers -> [step: Stages, plan: PlanOrNone,
                                    gen: 0 .. Len(Entries), k: Nat]]
        /\ pub'[p] = NoCall /\ \A q \in Publishers : q # p => pub'[q] = pub[q]
    BY <1>2, DoneFacts
  <1>4. \A u \in Units : owner'[u] = IF owner[u] = i THEN "none" ELSE owner[u]
    BY <1>1, <1>2 DEF Unreserved
  <1>5. owner' \in [Units -> PlanOrNone \cup {"probe"}]
    BY <1>1, <1>2 DEF Unreserved, TypeOK, PlanOrNone
  <1>6. /\ image' \in [Plans -> {"none", "staged", "live"}]
        /\ image'[i] = IF image[i] = "staged" THEN "none" ELSE image[i]
        /\ batch' \in [Plans -> {"off", "staged", "committed"}]
        /\ batch'[i] = IF batch[i] = "staged" THEN "off" ELSE batch[i]
        /\ \A j \in Plans : j # i => image'[j] = image[j] /\ batch'[j] = batch[j]
    BY <1>2 DEF TypeOK
  <1>7. TypeOK'
    BY <1>2, <1>3, <1>5, <1>6 DEF TypeOK, bytes, signal, env, execs
  <1>8. ~Installed(i)'
    BY <1>1, <1>2, <1>6 DEF Installed
  <1>9. SignalInv'
    BY <1>2, <1>6 DEF IInv, SignalInv, Active, Verified, signal
  <1>10. CallInv(p)'
    BY <1>3, IdleKept
  <1>11. i \notin {"none", "probe"}
    BY PlanFacts
  <1>12. AbsentInv(i)'
    BY <1>1, <1>2, <1>4, <1>6, <1>8, <1>11 DEF AbsentInv
  <1> QED BY <1>1, <1>2, <1>3, <1>4, <1>6, <1>7, <1>8, <1>9, <1>10, <1>11, <1>12,
             EarlyStep, PlanFacts

\* The next lock is taken, or refused.
LEMMA ReserveKeeps ==
  ASSUME IInv, NEW p \in Publishers, Reserve(p)
  PROVE  IInv'
  <1>0. pub[p].step = "reserve" /\ pub[p].step \in PreWrite /\ TypeOK
    BY DEF Reserve, PreWrite, IInv
  <1>1. PICK i \in Plans :
          /\ pub[p].plan = i /\ ~Installed(i) /\ ~lease[p].poisoned
          /\ Source(Reads(i)) \subseteq lease[p].held /\ pub[p].gen = generation
          /\ i \notin receipts /\ batch[i] # "committed"
          /\ handle[i] \in {"absent", "retired"}
          /\ \A q \in Publishers : q # p => pub[q].plan # i
          /\ ~(handle[i] = "absent" /\ image[i] = "live")
          /\ CallInv(p) /\ AbsentInv(i)
    BY <1>0, EarlyCall
  <1> DEFINE k == pub[p].k
  <1>2. /\ k \in Nat /\ k >= 1 /\ image[i] # "staged" /\ batch[i] = "off"
        /\ \A j \in DOMAIN Locks[i] : j < k => \A u \in Locks[i][j] : owner[u] = i
    BY <1>0, <1>1 DEF CallInv, PhaseInv, PreWrite, TypeOK
  <1>3. /\ Len(Locks[i]) \in Nat /\ DOMAIN Locks[i] = 1 .. Len(Locks[i])
        /\ \A j \in DOMAIN Locks[i] : Locks[i][j] \subseteq Units
    BY PlanAssumption
  <1>4. CASE ~(k > Len(Locks[i])) /\ ~(\A u \in Locks[i][k] : owner[u] = "none")
    BY <1>0, <1>1, <1>4, AbandonKeeps DEF Reserve
  <1>5. CASE k > Len(Locks[i])
    <2>1. Goto(p, "stage", 0) /\ UNCHANGED <<bytes, assets, lease, signal, env, execs>>
      BY <1>1, <1>5 DEF Reserve
    <2>2. /\ pub' \in [Publishers -> [step: Stages, plan: PlanOrNone,
                                      gen: 0 .. Len(Entries), k: Nat]]
          /\ pub'[p].step = "stage" /\ pub'[p].plan = i /\ pub'[p].gen = generation
          /\ \A q \in Publishers : q # p => pub'[q] = pub[q]
      BY <1>0, <1>1, <2>1, GotoFacts DEF Stages, PreWrite
    <2>3. TypeOK'
      BY <1>0, <2>1, <2>2 DEF TypeOK, bytes, assets, signal, env, execs
    <2>4. ~Installed(i)' /\ SignalInv'
      BY <1>1, <2>1 DEF Installed, assets, signal, IInv, SignalInv, Active, Verified
    <2>5. AllOwned(i)'
      BY <1>2, <1>3, <1>5, <2>1 DEF AllOwned, assets
    <2>6. HoldsInv(p)'
      BY <1>0, <1>1, <2>1, <2>2 DEF HoldsInv, Writing, env, TypeOK
    <2>7. PhaseInv(p)'
      BY <1>2, <2>1, <2>2, <2>4, <2>5 DEF PhaseInv, PreWrite, assets
    <2>8. AbsentInv(i)'
      <3>1. Busy(i)'
        BY <2>2 DEF Busy
      <3> QED BY <1>1, <1>2, <2>1, <2>4, <3>1 DEF AbsentInv, assets
    <2> QED BY <1>1, <2>1, <2>2, <2>3, <2>4, <2>6, <2>7, <2>8, EarlyStep
            DEF assets, CallInv
  <1>6. CASE ~(k > Len(Locks[i])) /\ \A u \in Locks[i][k] : owner[u] = "none"
    <2>1. /\ owner' = [u \in Units |-> IF u \in Locks[i][k] THEN i ELSE owner[u]]
          /\ Goto(p, "reserve", k + 1)
          /\ UNCHANGED <<bytes, image, batch, made, handle, receipts>>
          /\ UNCHANGED <<lease, signal, env, execs>>
      BY <1>1, <1>6 DEF Reserve
    <2>2. /\ pub' \in [Publishers -> [step: Stages, plan: PlanOrNone,
                                      gen: 0 .. Len(Entries), k: Nat]]
          /\ pub'[p].step = "reserve" /\ pub'[p].plan = i /\ pub'[p].gen = generation
          /\ pub'[p].k = k + 1
          /\ \A q \in Publishers : q # p => pub'[q] = pub[q]
      BY <1>0, <1>1, <1>2, <2>1, GotoFacts DEF Stages, PreWrite
    <2>3. /\ owner' \in [Units -> PlanOrNone \cup {"probe"}]
          /\ \A u \in Units : owner'[u] = IF u \in Locks[i][k] THEN i ELSE owner[u]
      BY <1>0, <2>1 DEF TypeOK, PlanOrNone
    <2>4. TypeOK'
      BY <1>0, <2>1, <2>2, <2>3 DEF TypeOK, bytes, signal, env, execs
    <2>5. ~Installed(i)' /\ SignalInv'
      BY <1>1, <2>1 DEF Installed, signal, IInv, SignalInv, Active, Verified
    <2>6. HoldsInv(p)'
      BY <1>0, <1>1, <2>1, <2>2 DEF HoldsInv, Writing, env, TypeOK
    <2>7. \A j \in DOMAIN Locks[i] : j < k + 1 => \A u \in Locks[i][j] : owner'[u] = i
      <3>1. \A j \in DOMAIN Locks[i] : j < k + 1 => j < k \/ j = k
        BY <1>2, <1>3
      <3> QED BY <1>2, <1>3, <2>3, <3>1
    <2>8. k + 1 >= 1
      BY <1>2
    <2>9. PhaseInv(p)'
      BY <1>2, <2>1, <2>2, <2>5, <2>7, <2>8 DEF PhaseInv, PreWrite
    <2>10. AbsentInv(i)'
      <3>1. Busy(i)'
        BY <2>2 DEF Busy
      <3> QED BY <1>1, <1>2, <2>1, <2>5, <3>1 DEF AbsentInv
    <2>11. \A u \in Units : u \in Locks[i][k] => owner[u] = "none"
      BY <1>6
    <2>12. \A u \in Units : \A j \in Plans : j # i => (owner'[u] = j <=> owner[u] = j)
      BY <2>3, <2>11, PlanFacts
    <2>13. \A u \in Units : owner[u] = "probe" => owner'[u] = "probe"
      BY <2>3, <2>11
    <2> QED BY <1>1, <2>1, <2>2, <2>4, <2>5, <2>6, <2>9, <2>10, <2>12, <2>13,
               EarlyStep DEF CallInv
  <1> QED BY <1>4, <1>5, <1>6

\* The image is mapped, or found there.
LEMMA StageKeeps ==
  ASSUME IInv, NEW p \in Publishers, Stage(p)
  PROVE  IInv'
  <1>0. pub[p].step = "stage" /\ pub[p].step \in PreWrite /\ TypeOK
    BY DEF Stage, PreWrite, IInv
  <1>1. PICK i \in Plans :
          /\ pub[p].plan = i /\ ~Installed(i) /\ ~lease[p].poisoned
          /\ Source(Reads(i)) \subseteq lease[p].held /\ pub[p].gen = generation
          /\ i \notin receipts /\ batch[i] # "committed"
          /\ handle[i] \in {"absent", "retired"}
          /\ \A q \in Publishers : q # p => pub[q].plan # i
          /\ ~(handle[i] = "absent" /\ image[i] = "live")
          /\ CallInv(p) /\ AbsentInv(i)
    BY <1>0, EarlyCall
  <1>2. AllOwned(i) /\ batch[i] = "off"
    BY <1>0, <1>1 DEF CallInv, PhaseInv, PreWrite
  <1>3. CASE image[i] # "none"
    BY <1>0, <1>1, <1>3, AbandonKeeps DEF Stage
  <1>4. CASE image[i] = "none"
    <2>1. /\ image' = [image EXCEPT ![i] = "staged"]
          /\ Goto(p, "prepare", 0)
          /\ UNCHANGED <<bytes, owner, batch, made, handle, receipts>>
          /\ UNCHANGED <<lease, signal, env, execs>>
      BY <1>1, <1>4 DEF Stage
    <2>2. /\ pub' \in [Publishers -> [step: Stages, plan: PlanOrNone,
                                      gen: 0 .. Len(Entries), k: Nat]]
          /\ pub'[p].step = "prepare" /\ pub'[p].plan = i /\ pub'[p].gen = generation
          /\ \A q \in Publishers : q # p => pub'[q] = pub[q]
      BY <1>0, <1>1, <2>1, GotoFacts DEF Stages, PreWrite
    <2>3. /\ image' \in [Plans -> {"none", "staged", "live"}] /\ image'[i] = "staged"
          /\ \A j \in Plans : j # i => image'[j] = image[j]
      BY <1>0, <2>1 DEF TypeOK
    <2>4. TypeOK'
      BY <1>0, <2>1, <2>2, <2>3 DEF TypeOK, bytes, signal, env, execs
    <2>5. ~Installed(i)' /\ SignalInv'
      BY <2>1, <2>3 DEF Installed, signal, IInv, SignalInv, Active, Verified
    <2>6. HoldsInv(p)'
      BY <1>0, <1>1, <2>1, <2>2 DEF HoldsInv, Writing, env, TypeOK
    <2>7. handle[i] = "absent"
      BY <1>1, <1>4 DEF AbsentInv
    <2>8. AllOwned(i)'
      BY <1>2, <2>1 DEF AllOwned
    <2>9. PhaseInv(p)'
      BY <1>2, <2>1, <2>2, <2>3, <2>5, <2>7, <2>8 DEF PhaseInv, PreWrite
    <2>10. AbsentInv(i)'
      <3>1. Busy(i)' /\ At(p, i, {"prepare", "route", "commit"})'
        BY <2>2 DEF Busy, At
      <3> QED BY <1>1, <1>2, <2>1, <2>3, <2>5, <2>7, <3>1 DEF AbsentInv
    <2> QED BY <1>1, <2>1, <2>2, <2>3, <2>4, <2>5, <2>6, <2>9, <2>10, EarlyStep
            DEF CallInv
  <1> QED BY <1>3, <1>4

\* The router is there or installed, or no route is needed.
LEMMA PrepareKeeps ==
  ASSUME IInv, NEW p \in Publishers, Prepare(p)
  PROVE  IInv'
  <1>0. pub[p].step = "prepare" /\ pub[p].step \in PreWrite /\ TypeOK
    BY DEF Prepare, PreWrite, IInv
  <1>1. PICK i \in Plans :
          /\ pub[p].plan = i /\ ~Installed(i) /\ ~lease[p].poisoned
          /\ Source(Reads(i)) \subseteq lease[p].held /\ pub[p].gen = generation
          /\ i \notin receipts /\ batch[i] # "committed"
          /\ handle[i] \in {"absent", "retired"}
          /\ \A q \in Publishers : q # p => pub[q].plan # i
          /\ ~(handle[i] = "absent" /\ image[i] = "live")
          /\ CallInv(p) /\ AbsentInv(i)
    BY <1>0, EarlyCall
  <1>2. /\ AllOwned(i) /\ batch[i] = "off" /\ image[i] = "staged"
        /\ handle[i] = "absent" /\ generation \in 0 .. Len(Entries)
    BY <1>0, <1>1 DEF CallInv, PhaseInv, PreWrite, TypeOK, Generations
  <1>3. CASE Routed(i, pub[p].gen) = {} /\ Goto(p, "commit", 0)
    <2>1. /\ Routed(i, generation) = {}
          /\ made' = [made EXCEPT ![i] = generation] /\ Goto(p, "commit", 0)
          /\ UNCHANGED <<owner, image, batch, handle, receipts, signal>>
          /\ UNCHANGED <<bytes, lease, env, execs>>
      <3>1. "commit" # "route"
        OBVIOUS
      <3> QED BY <1>1, <1>3 DEF Prepare
    <2>2. /\ pub' \in [Publishers -> [step: Stages, plan: PlanOrNone,
                                      gen: 0 .. Len(Entries), k: Nat]]
          /\ pub'[p].step = "commit" /\ pub'[p].plan = i /\ pub'[p].gen = generation
          /\ \A q \in Publishers : q # p => pub'[q] = pub[q]
      BY <1>0, <1>1, <2>1, GotoFacts DEF Stages, PreWrite
    <2>3. /\ made' \in [Plans -> 0 .. Len(Entries)] /\ made'[i] = generation
          /\ \A j \in Plans : j # i => made'[j] = made[j]
      BY <1>0, <1>2, <2>1 DEF TypeOK
    <2>4. TypeOK'
      BY <1>0, <2>1, <2>2, <2>3 DEF TypeOK, bytes, signal, env, execs
    <2>5. ~Installed(i)' /\ SignalInv'
      BY <1>1, <2>1 DEF Installed, signal, IInv, SignalInv, Active, Verified
    <2>6. HoldsInv(p)'
      BY <1>0, <1>1, <2>1, <2>2 DEF HoldsInv, Writing, env, TypeOK
    <2>7. AllOwned(i)'
      BY <1>2, <2>1 DEF AllOwned
    <2>8. PhaseInv(p)'
      BY <1>2, <2>1, <2>2, <2>3, <2>5, <2>7 DEF PhaseInv, PreWrite
    <2>9. AbsentInv(i)'
      <3>1. Busy(i)' /\ At(p, i, {"prepare", "route", "commit"})'
        BY <2>2 DEF Busy, At
      <3> QED BY <1>1, <1>2, <2>1, <2>5, <3>1 DEF AbsentInv
    <2> QED BY <1>1, <2>1, <2>2, <2>3, <2>4, <2>5, <2>6, <2>8, <2>9, EarlyStep
            DEF CallInv
  <1>4. CASE Routed(i, pub[p].gen) # {} /\ Goto(p, "route", 0)
    <2>1. /\ Routed(i, generation) # {}
          /\ sigill' = "router" /\ armed' = TRUE
          /\ UNCHANGED assets /\ UNCHANGED <<bytes, lease, env, execs>>
      BY <1>1, <1>4 DEF Prepare
    <2>2. /\ pub' \in [Publishers -> [step: Stages, plan: PlanOrNone,
                                      gen: 0 .. Len(Entries), k: Nat]]
          /\ pub'[p].step = "route" /\ pub'[p].plan = i /\ pub'[p].gen = generation
          /\ \A q \in Publishers : q # p => pub'[q] = pub[q]
      BY <1>0, <1>1, <1>4, GotoFacts DEF Stages, PreWrite
    <2>3. TypeOK'
      BY <1>0, <2>1, <2>2 DEF TypeOK, bytes, assets, env, execs
    <2>4. ~Installed(i)' /\ SignalInv'
      BY <1>1, <2>1 DEF Installed, assets, IInv, SignalInv, Active, Verified
    <2>5. HoldsInv(p)'
      BY <1>0, <1>1, <2>1, <2>2 DEF HoldsInv, Writing, env, TypeOK
    <2>6. AllOwned(i)'
      BY <1>2, <2>1 DEF AllOwned, assets
    <2>7. PhaseInv(p)'
      BY <1>2, <2>1, <2>2, <2>4, <2>6 DEF PhaseInv, PreWrite, assets
    <2>8. AbsentInv(i)'
      <3>1. Busy(i)' /\ At(p, i, {"prepare", "route", "commit"})'
        BY <2>2 DEF Busy, At
      <3> QED BY <1>1, <1>2, <2>1, <2>4, <3>1 DEF AbsentInv, assets
    <2> QED BY <1>1, <2>1, <2>2, <2>3, <2>4, <2>5, <2>7, <2>8, EarlyStep
            DEF CallInv, assets
  <1> QED BY <1>1, <1>3, <1>4 DEF Prepare

\* The routes are staged.
LEMMA RouteKeeps ==
  ASSUME IInv, NEW p \in Publishers, Route(p)
  PROVE  IInv'
  <1>0. pub[p].step = "route" /\ pub[p].step \in PreWrite /\ TypeOK /\ Verified
    BY DEF Route, PreWrite, IInv
  <1>1. PICK i \in Plans :
          /\ pub[p].plan = i /\ ~Installed(i) /\ ~lease[p].poisoned
          /\ Source(Reads(i)) \subseteq lease[p].held /\ pub[p].gen = generation
          /\ i \notin receipts /\ batch[i] # "committed"
          /\ handle[i] \in {"absent", "retired"}
          /\ \A q \in Publishers : q # p => pub[q].plan # i
          /\ ~(handle[i] = "absent" /\ image[i] = "live")
          /\ CallInv(p) /\ AbsentInv(i)
    BY <1>0, EarlyCall
  <1>2. /\ AllOwned(i) /\ batch[i] = "off" /\ image[i] = "staged"
        /\ handle[i] = "absent" /\ generation \in 0 .. Len(Entries)
        /\ Routed(i, generation) # {}
    BY <1>0, <1>1 DEF CallInv, PhaseInv, PreWrite, TypeOK, Generations
  <1>3. /\ batch' = [batch EXCEPT ![i] = "staged"]
        /\ made' = [made EXCEPT ![i] = generation] /\ Goto(p, "commit", 0)
        /\ UNCHANGED <<bytes, owner, image, handle, receipts, lease, signal, env, execs>>
    BY <1>1 DEF Route
  <1>4. /\ pub' \in [Publishers -> [step: Stages, plan: PlanOrNone,
                                    gen: 0 .. Len(Entries), k: Nat]]
        /\ pub'[p].step = "commit" /\ pub'[p].plan = i /\ pub'[p].gen = generation
        /\ \A q \in Publishers : q # p => pub'[q] = pub[q]
    BY <1>0, <1>1, <1>3, GotoFacts DEF Stages, PreWrite
  <1>5. /\ made' \in [Plans -> 0 .. Len(Entries)] /\ made'[i] = generation
        /\ batch' \in [Plans -> {"off", "staged", "committed"}] /\ batch'[i] = "staged"
        /\ \A j \in Plans : j # i => made'[j] = made[j] /\ batch'[j] = batch[j]
    BY <1>0, <1>2, <1>3 DEF TypeOK
  <1>6. TypeOK'
    BY <1>0, <1>3, <1>4, <1>5 DEF TypeOK, bytes, signal, env, execs
  <1>7. ~Installed(i)' /\ SignalInv'
    BY <1>0, <1>1, <1>3 DEF Installed, signal, SignalInv, Active, Verified
  <1>8. HoldsInv(p)'
    BY <1>0, <1>1, <1>3, <1>4 DEF HoldsInv, Writing, env, TypeOK
  <1>9. AllOwned(i)'
    BY <1>2, <1>3 DEF AllOwned
  <1>10. PhaseInv(p)'
    BY <1>2, <1>3, <1>4, <1>5, <1>7, <1>9 DEF PhaseInv, PreWrite
  <1>11. AbsentInv(i)'
    <2>1. /\ Busy(i)' /\ At(p, i, {"prepare", "route", "commit"})'
          /\ At(p, i, {"commit"})'
      BY <1>4 DEF Busy, At
    <2> QED BY <1>1, <1>2, <1>3, <1>5, <1>7, <2>1 DEF AbsentInv
  <1> QED BY <1>1, <1>3, <1>4, <1>5, <1>6, <1>7, <1>8, <1>10, <1>11, EarlyStep
          DEF CallInv

-----------------------------------------------------------------------------
(* From the last check to the receipt.                                     *)

\* A step of an irrevocable call: what it must show.
LEMMA LateStep ==
  ASSUME IInv, TypeOK', NEW p \in Publishers, NEW i \in Plans,
         pub[p].plan = i \/ (pub[p] = NoCall /\ ~lease[p].poisoned),
         UNCHANGED <<probe, generation>>,
         \A q \in Publishers : /\ lease'[q].held = lease[q].held
                               /\ lease'[q].identity = lease[q].identity,
         \A q \in Publishers :
           q # p => pub[q].plan # i /\ pub'[q] = pub[q] /\ lease'[q] = lease[q],
         \A j \in Plans :
           j # i => /\ image'[j] = image[j] /\ batch'[j] = batch[j]
                    /\ made'[j] = made[j] /\ handle'[j] = handle[j]
                    /\ j \in receipts' <=> j \in receipts,
         \A u \in Units : \A j \in Plans : j # i => (owner'[u] = j <=> owner[u] = j),
         \A u \in Units : owner[u] = "probe" => owner'[u] = "probe",
         \A u \in Units : code'[u] # code[u] => u \in Reads(i) /\ AllOwned(i),
         SignalInv', CallInv(p)', InstalledInv(i)', AbsentInv(i)',
         \A u \in Units : CodeInv(u)',
         \A e \in Executors : ExecInv(e)' /\ \A u \in Units : ViewInv(e, u)'
  PROVE  IInv'
  <1>1. /\ \A q \in Publishers : q # p => CallInv(q)'
        /\ \A j \in Plans : j # i => InstalledInv(j)' /\ AbsentInv(j)'
    BY OthersKept
  <1>2. LeaseInv'
    BY DEF IInv, LeaseInv
  <1>3. ProbeInv'
    BY PlanAssumption DEF IInv, ProbeInv
  <1> QED BY <1>1, <1>2, <1>3 DEF IInv

\* The bytes after some steps are original or of the plan's own edits.
LEMMA OverlayOwn ==
  ASSUME NEW i \in Plans, NEW k \in 0 .. Len(Steps[i]), NEW u
  PROVE  /\ Overlay(i, k, u) = Orig \/ Overlay(i, k, u) \in Image(i)
         /\ \A j \in Plans : \A l \in DOMAIN Steps[j] :
              Overlay(i, k, u) = <<j, l>> => j = i /\ u \in Steps[i][l].edits
  <1>1. CASE u \notin Touched(i)
    <2>1. Overlay(i, k, u) = Orig
      BY <1>1, OverlayFacts
    <2>2. \A j \in Plans : \A l \in DOMAIN Steps[j] : <<j, l>> # Orig
      BY Distinct, PlanFacts
    <2> QED BY <2>1, <2>2
  <1>2. CASE u \in Touched(i)
    <2>1. PICK m \in DOMAIN Steps[i] : u \in Steps[i][m].edits
      BY <1>2 DEF Touched
    <2>2. Overlay(i, k, u) = IF m <= k THEN <<i, m>> ELSE Orig
      BY <2>1, OverlayFacts
    <2>3. \A j \in Plans : \A l \in DOMAIN Steps[j] : <<j, l>> # Orig
      BY Distinct, PlanFacts
    <2>4. <<i, m>> \in Image(i)
      BY PlanFacts
    <2> QED BY <2>1, <2>2, <2>3, <2>4
  <1> QED BY <1>1, <1>2

\* A call past its last check, in terms of its plan.
LEMMA LateCall ==
  ASSUME IInv, NEW p \in Publishers, pub[p].step \in Writing
  PROVE  \E i \in Plans :
           /\ pub[p].plan = i /\ Installed(i) /\ AllOwned(i) /\ lease[p].poisoned
           /\ Source(Reads(i)) \subseteq lease[p].held /\ pub[p].gen = generation
           /\ \A q \in Publishers : q # p => pub[q].plan # i
           /\ image[i] = "live" /\ made[i] = generation
           /\ batch[i] = (IF Routed(i, made[i]) # {} THEN "committed" ELSE "off")
           /\ PhaseInv(p) /\ AbsentInv(i)
  <1>1. pub[p].step # "idle"
    BY DEF Writing
  <1>2. PICK i \in Plans : pub[p].plan = i
    BY <1>1, CallFacts
  <1>3. /\ lease[p].poisoned /\ Source(Reads(i)) \subseteq lease[p].held
        /\ pub[p].gen = generation /\ PhaseInv(p)
    BY <1>1, <1>2, CallFacts
  <1>4. Installed(i) /\ AllOwned(i)
    BY <1>2, WriterInstalled
  <1>5. \A q \in Publishers : q # p => pub[q].plan # i
    BY <1>1, <1>2, CallsApart
  <1>6. AbsentInv(i) /\ image[i] = "live" /\ InstalledInv(i)
    BY <1>4 DEF IInv, Installed
  <1> QED BY <1>2, <1>3, <1>4, <1>5, <1>6 DEF InstalledInv

\* The last check passes: the plan is installed and its lease poisoned.
LEMMA CommitKeeps ==
  ASSUME IInv, NEW p \in Publishers, Commit(p)
  PROVE  IInv'
  <1>0. pub[p].step = "commit" /\ pub[p].step \in PreWrite /\ TypeOK
    BY DEF Commit, PreWrite, IInv
  <1>1. PICK i \in Plans :
          /\ pub[p].plan = i /\ ~Installed(i) /\ ~lease[p].poisoned
          /\ Source(Reads(i)) \subseteq lease[p].held /\ pub[p].gen = generation
          /\ i \notin receipts /\ batch[i] # "committed"
          /\ handle[i] \in {"absent", "retired"}
          /\ \A q \in Publishers : q # p => pub[q].plan # i
          /\ ~(handle[i] = "absent" /\ image[i] = "live")
          /\ CallInv(p) /\ AbsentInv(i)
    BY <1>0, EarlyCall
  <1>2. /\ AllOwned(i) /\ image[i] = "staged" /\ handle[i] = "absent"
        /\ made[i] = generation
        /\ batch[i] = "staged" <=> Routed(i, made[i]) # {}
        /\ batch[i] \in {"off", "staged"}
    BY <1>0, <1>1 DEF CallInv, PhaseInv, PreWrite, TypeOK
  <1>3. /\ \A u \in Reads(i) : code[u] = Orig
        /\ Active(i) => Verified
        /\ image' = [image EXCEPT ![i] = "live"]
        /\ batch' = [batch EXCEPT ![i] = IF @ = "staged" THEN "committed" ELSE @]
        /\ lease' = [lease EXCEPT ![p].poisoned = TRUE]
        /\ Goto(p, "write", 1)
        /\ UNCHANGED <<bytes, owner, made, handle, receipts, signal, env, execs>>
    BY <1>1 DEF Commit
  <1>4. /\ pub' \in [Publishers -> [step: Stages, plan: PlanOrNone,
                                    gen: 0 .. Len(Entries), k: Nat]]
        /\ pub'[p].step = "write" /\ pub'[p].plan = i /\ pub'[p].gen = generation
        /\ pub'[p].k = 1 /\ pub'[p] # NoCall
        /\ \A q \in Publishers : q # p => pub'[q] = pub[q]
    BY <1>0, <1>1, <1>3, GotoFacts DEF Stages, PreWrite, NoCall
  <1>5. /\ image' \in [Plans -> {"none", "staged", "live"}] /\ image'[i] = "live"
        /\ batch' \in [Plans -> {"off", "staged", "committed"}]
        /\ batch'[i] = IF batch[i] = "staged" THEN "committed" ELSE batch[i]
        /\ \A j \in Plans : j # i => image'[j] = image[j] /\ batch'[j] = batch[j]
    BY <1>0, <1>3 DEF TypeOK
  <1>6. /\ lease' \in [Publishers -> [held: Scopes \cup {{}},
                                      identity: 0 .. Len(Entries), poisoned: BOOLEAN]]
        /\ lease'[p].poisoned
        /\ \A q \in Publishers : /\ q # p => lease'[q] = lease[q]
                                 /\ lease'[q].held = lease[q].held
                                 /\ lease'[q].identity = lease[q].identity
    BY <1>0, <1>3, PoisonFacts
  <1>7. TypeOK'
    BY <1>0, <1>3, <1>4, <1>5, <1>6 DEF TypeOK, bytes, signal, env, execs
  <1>8. SignalInv'
    <2>1. Active(i)' => Active(i)
      BY <1>5 DEF Active
    <2>2. \A j \in Plans : Active(j)' => Active(j)
      BY <1>5, <2>1 DEF Active
    <2> QED BY <1>3, <2>2 DEF IInv, SignalInv, Verified, signal
  <1>9. /\ Installed(i)' /\ \A j \in Plans : j # i => (Installed(j)' <=> Installed(j))
        /\ \A j \in Plans : Installed(j) => Installed(j)'
    BY <1>2, <1>3, <1>5 DEF Installed
  <1>10. AllOwned(i)'
    BY <1>2, <1>3 DEF AllOwned
  <1>11. 1 \in DOMAIN Steps[i] /\ Shows(i, 0)'
    BY <1>3, StepFacts, EndsOfOverlay DEF Shows, bytes
  <1>12. CallInv(p)'
    <2>1. HoldsInv(p)'
      BY <1>1, <1>3, <1>4, <1>6 DEF HoldsInv, Writing, env
    <2>2. 1 - 1 = 0
      OBVIOUS
    <2>3. PhaseInv(p)'
      BY <1>1, <1>2, <1>3, <1>4, <1>5, <1>11, <2>2 DEF PhaseInv, PreWrite
    <2> QED BY <2>1, <2>3 DEF CallInv
  <1>13. InstalledInv(i)'
    <2>1. Broken(i)'
      BY <1>1, <1>4, <1>6 DEF Broken
    <2> QED BY <1>2, <1>3, <1>5, <1>10, <2>1 DEF InstalledInv, env
  <1>14. AbsentInv(i)'
    <2>1. At(p, i, {"write", "sync"})'
      BY <1>4 DEF At
    <2> QED BY <1>2, <1>3, <1>5, <1>9, <2>1 DEF AbsentInv
  <1>15. \A u \in Units : CodeInv(u)'
    BY <1>3, <1>9, CodeKept DEF bytes
  <1>16. \A e \in Executors : \A u \in Units : ViewInv(e, u)'
    <2>1. \A u \in Units : Shut(u) => Shut(u)'
      BY <1>6, ShutKept
    <2> QED BY <1>3, <1>9, <2>1, ViewKept DEF bytes
  <1>17. \A e \in Executors : ExecInv(e)'
    <2> SUFFICES ASSUME NEW e \in Executors PROVE ExecInv(e)'
      OBVIOUS
    <2>1. ExecInv(e) /\ pc'[e] = pc[e] /\ trap'[e] = trap[e] /\ generation' = generation
      BY <1>3 DEF IInv, execs, env
    <2>2. pc'[e] \notin Held'
      BY <1>6, <2>1 DEF Held, ExecInv
    <2>3. \A u \in Reads(i) : pc[e] # Src(u)
      BY <1>1, <2>1 DEF Held, ExecInv, Source
    <2>4. \A u : Marker(i, u) => u \in Reads(i)
      BY PlanFacts DEF Marker
    <2> QED BY <1>9, <2>1, <2>2, <2>3, <2>4 DEF ExecInv
  <1>18. /\ UNCHANGED <<probe, generation, code, owner, made, handle, receipts>>
         /\ \A j \in Plans : j # i => image'[j] = image[j] /\ batch'[j] = batch[j]
         /\ \A q \in Publishers :
              q # p => pub[q].plan # i /\ pub'[q] = pub[q] /\ lease'[q] = lease[q]
    BY <1>1, <1>3, <1>4, <1>5, <1>6 DEF bytes, env
  <1> QED BY <1>1, <1>6, <1>7, <1>8, <1>12, <1>13, <1>14, <1>15, <1>16, <1>17, <1>18,
             LateStep

\* One store of a publication.
LEMMA WriteKeeps ==
  ASSUME IInv, NEW p \in Publishers, Write(p)
  PROVE  IInv'
  <1>0. pub[p].step = "write" /\ pub[p].step \in Writing /\ TypeOK
    BY DEF Write, Writing, IInv
  <1>1. PICK i \in Plans :
          /\ pub[p].plan = i /\ Installed(i) /\ AllOwned(i) /\ lease[p].poisoned
          /\ Source(Reads(i)) \subseteq lease[p].held /\ pub[p].gen = generation
          /\ \A q \in Publishers : q # p => pub[q].plan # i
          /\ image[i] = "live" /\ made[i] = generation
          /\ batch[i] = (IF Routed(i, made[i]) # {} THEN "committed" ELSE "off")
          /\ PhaseInv(p) /\ AbsentInv(i)
    BY <1>0, LateCall
  <1>2. PICK k \in DOMAIN Steps[i] : pub[p].k = k /\ Shows(i, k - 1)
    BY <1>0, <1>1 DEF PhaseInv
  <1>3. handle[i] = "absent" /\ i \notin receipts
    BY <1>0, <1>1 DEF PhaseInv
  <1>4. /\ code' = [u \in Units |->
                      IF u \in Steps[i][k].span THEN Overlay(i, k, u) ELSE code[u]]
        /\ IF k = Len(Steps[i]) THEN Goto(p, "sync", 0) ELSE Goto(p, "write", k + 1)
        /\ UNCHANGED <<view, assets, lease, signal, env, execs>>
    BY <1>1, <1>2 DEF Write
  <1>5. /\ k \in 0 .. Len(Steps[i]) /\ k \in 1 .. Len(Steps[i]) /\ k \in Nat
        /\ DOMAIN Steps[i] = 1 .. Len(Steps[i]) /\ Len(Steps[i]) \in Nat
        /\ Steps[i][k].span \subseteq Reads(i)
        /\ Steps[i][k].edits \subseteq Steps[i][k].span
        /\ Reads(i) \subseteq Units
    BY StepFacts, PlanFacts
  <1>6. /\ pub' \in [Publishers -> [step: Stages, plan: PlanOrNone,
                                    gen: 0 .. Len(Entries), k: Nat]]
        /\ pub'[p].plan = i /\ pub'[p].gen = generation
        /\ \/ pub'[p].step = "sync" /\ k = Len(Steps[i])
           \/ pub'[p].step = "write" /\ k < Len(Steps[i]) /\ pub'[p].k = k + 1
        /\ \A q \in Publishers : q # p => pub'[q] = pub[q]
    <2>1. CASE k = Len(Steps[i])
      BY <1>0, <1>1, <1>4, <2>1, GotoFacts DEF Stages, PreWrite
    <2>2. CASE k # Len(Steps[i])
      BY <1>0, <1>1, <1>4, <1>5, <2>2, GotoFacts DEF Stages, PreWrite
    <2> QED BY <2>1, <2>2
  <1>7. \A u \in Units :
          code'[u] = IF u \in Steps[i][k].span THEN Overlay(i, k, u) ELSE code[u]
    BY <1>4
  <1>8. TypeOK'
    <2>1. \A u \in Units : Overlay(i, k, u) \in Bytes
      BY <1>5, OverlayOwn DEF Bytes
    <2>2. code' \in [Units -> Bytes]
      BY <1>0, <1>4, <2>1 DEF TypeOK
    <2> QED BY <1>0, <1>4, <1>6, <2>2 DEF TypeOK, assets, signal, env, execs
  <1>9. \A j \in Plans : Installed(j)' <=> Installed(j)
    BY <1>4 DEF Installed, assets
  <1>10. AllOwned(i)' /\ SignalInv'
    BY <1>1, <1>4 DEF AllOwned, assets, IInv, SignalInv, Active, Verified, signal
  <1>11. Shows(i, k)'
    <2> SUFFICES ASSUME NEW u \in Reads(i) PROVE code'[u] = Overlay(i, k, u)
      BY DEF Shows
    <2>1. CASE u \in Steps[i][k].span
      BY <1>5, <1>7, <2>1
    <2>2. CASE u \notin Steps[i][k].span
      <3>1. Overlay(i, k, u) = Overlay(i, k - 1, u)
        BY <1>5, <2>2, OverlaySteps
      <3> QED BY <1>2, <1>5, <1>7, <2>2, <3>1 DEF Shows
    <2> QED BY <2>1, <2>2
  <1>12. CallInv(p)'
    <2>1. HoldsInv(p)'
      BY <1>1, <1>4, <1>6 DEF HoldsInv, Writing, env
    <2>2. k < Len(Steps[i]) => k + 1 \in DOMAIN Steps[i]
      BY <1>5
    <2>3. (k + 1) - 1 = k
      BY <1>5
    <2>4. PhaseInv(p)'
      BY <1>1, <1>3, <1>4, <1>6, <1>11, <2>2, <2>3 DEF PhaseInv, PreWrite, assets
    <2> QED BY <2>1, <2>4 DEF CallInv
  <1>13. InstalledInv(i)'
    <2>1. Broken(i)'
      BY <1>1, <1>4, <1>6 DEF Broken
    <2> QED BY <1>1, <1>4, <1>10, <2>1 DEF InstalledInv, env, assets
  <1>14. AbsentInv(i)'
    <2>1. At(p, i, {"write", "sync"})' /\ Installed(i)'
      BY <1>1, <1>6, <1>9 DEF At
    <2> QED BY <1>1, <1>3, <1>4, <2>1 DEF AbsentInv, assets
  <1>15. \A u \in Units : CodeInv(u)'
    <2> SUFFICES ASSUME NEW u \in Units, NEW j \in Plans, NEW l \in DOMAIN Steps[j],
                        code'[u] = <<j, l>>
                 PROVE  Installed(j)' /\ u \in Steps[j][l].edits
      BY DEF CodeInv
    <2>1. CASE u \in Steps[i][k].span
      <3>1. Overlay(i, k, u) = <<j, l>>
        BY <1>7, <2>1
      <3>2. j = i /\ u \in Steps[i][l].edits
        BY <1>5, <3>1, OverlayOwn
      <3> QED BY <1>1, <1>9, <3>2
    <2>2. CASE u \notin Steps[i][k].span
      BY <1>7, <1>9, <2>2 DEF IInv, CodeInv
    <2> QED BY <2>1, <2>2
  <1>16. \A e \in Executors : \A u \in Units : ViewInv(e, u)'
    <2> SUFFICES ASSUME NEW e \in Executors, NEW u \in Units PROVE ViewInv(e, u)'
      OBVIOUS
    <2>1. ViewInv(e, u) /\ CodeInv(u) /\ view' = view
      BY <1>4 DEF IInv
    <2>2. Shut(u) => Shut(u)'
      BY <1>4 DEF Shut
    <2>3. CASE u \notin Steps[i][k].span
      BY <1>7, <1>9, <2>1, <2>2, <2>3 DEF ViewInv
    <2>4. CASE u \in Steps[i][k].span
      <3>1. Shut(u)'
        BY <1>1, <1>4, <1>5, <2>4 DEF Shut, Source
      <3>2. \A j \in Plans : view[e][u] \in Image(j) => Installed(j)
        BY <2>1, Distinct DEF ViewInv, CodeInv, Image
      <3> QED BY <1>9, <2>1, <3>1, <3>2 DEF ViewInv
    <2> QED BY <2>3, <2>4
  <1>17. \A e \in Executors : ExecInv(e)'
    BY <1>4, <1>9, ExecKept DEF execs, env
  <1>18. \A u \in Units : code'[u] # code[u] => u \in Reads(i) /\ AllOwned(i)
    BY <1>1, <1>5, <1>7
  <1> QED BY <1>1, <1>4, <1>6, <1>8, <1>10, <1>12, <1>13, <1>14, <1>15, <1>16, <1>17,
             <1>18, LateStep DEF assets, env

\* The barrier ends a publication: the final bytes are in every view.
LEMMA CompleteKeeps ==
  ASSUME IInv, NEW p \in Publishers, Complete(p)
  PROVE  IInv'
  <1>0. pub[p].step = "sync" /\ pub[p].step \in Writing /\ TypeOK
    BY DEF Complete, Writing, IInv
  <1>1. PICK i \in Plans :
          /\ pub[p].plan = i /\ Installed(i) /\ AllOwned(i) /\ lease[p].poisoned
          /\ Source(Reads(i)) \subseteq lease[p].held /\ pub[p].gen = generation
          /\ \A q \in Publishers : q # p => pub[q].plan # i
          /\ image[i] = "live" /\ made[i] = generation
          /\ batch[i] = (IF Routed(i, made[i]) # {} THEN "committed" ELSE "off")
          /\ PhaseInv(p) /\ AbsentInv(i)
    BY <1>0, LateCall
  <1>2. Shows(i, Len(Steps[i]))
    BY <1>0, <1>1 DEF PhaseInv
  <1>3. /\ view' = Synchronized
        /\ lease' = [lease EXCEPT ![p].poisoned = FALSE]
        /\ handle' = [handle EXCEPT ![i] = "active"]
        /\ receipts' = receipts \cup {i}
        /\ pub' = [pub EXCEPT ![p] = NoCall]
        /\ UNCHANGED <<code, owner, image, batch, made, signal, env, execs>>
    BY <1>1 DEF Complete
  <1>4. /\ pub' \in [Publishers -> [step: Stages, plan: PlanOrNone,
                                    gen: 0 .. Len(Entries), k: Nat]]
        /\ pub'[p] = NoCall /\ \A q \in Publishers : q # p => pub'[q] = pub[q]
    BY <1>0, <1>3, DoneFacts
  <1>5. /\ lease' \in [Publishers -> [held: Scopes \cup {{}},
                                      identity: 0 .. Len(Entries), poisoned: BOOLEAN]]
        /\ \A q \in Publishers : /\ q # p => lease'[q] = lease[q]
                                 /\ lease'[q].held = lease[q].held
                                 /\ lease'[q].identity = lease[q].identity
    BY <1>0, <1>3, PoisonFacts
  <1>6. /\ handle' \in [Plans -> {"absent", "active", "dropped", "retired"}]
        /\ handle'[i] = "active" /\ \A j \in Plans : j # i => handle'[j] = handle[j]
        /\ view' \in [Executors -> [Units -> Bytes]]
    BY <1>0, <1>3 DEF TypeOK, Synchronized
  <1>7. TypeOK'
    BY <1>0, <1>3, <1>4, <1>5, <1>6 DEF TypeOK, signal, env, execs
  <1>8. \A j \in Plans : Installed(j)' <=> Installed(j)
    BY <1>1, <1>3, <1>6 DEF Installed
  <1>9. SignalInv' /\ AllOwned(i)' /\ Shows(i, Len(Steps[i]))'
    BY <1>1, <1>2, <1>3 DEF IInv, SignalInv, Active, Verified, signal, AllOwned, Shows
  <1>10. CallInv(p)'
    BY <1>4, IdleKept
  <1>11. InstalledInv(i)'
    BY <1>1, <1>3, <1>9 DEF InstalledInv, env
  <1>12. AbsentInv(i)'
    BY <1>1, <1>3, <1>6, <1>8 DEF AbsentInv
  <1>13. \A u \in Units : CodeInv(u)'
    BY <1>3, <1>8, CodeKept
  <1>14. \A e \in Executors : \A u \in Units : ViewInv(e, u)'
    BY <1>3, ViewSynced
  <1>15. \A e \in Executors : ExecInv(e)'
    BY <1>3, <1>5, <1>8, ExecKept DEF execs, env
  <1>16. /\ UNCHANGED <<probe, generation, code, owner, image, batch, made>>
         /\ \A j \in Plans :
              j # i => handle'[j] = handle[j] /\ (j \in receipts' <=> j \in receipts)
         /\ \A q \in Publishers :
              q # p => pub[q].plan # i /\ pub'[q] = pub[q] /\ lease'[q] = lease[q]
    BY <1>1, <1>3, <1>4, <1>5, <1>6 DEF env
  <1> QED BY <1>1, <1>5, <1>7, <1>9, <1>10, <1>11, <1>12, <1>13, <1>14, <1>15, <1>16,
             LateStep

\* A call past its last check that fails keeps everything behind its lease.
LEMMA FailureKeeps ==
  ASSUME IInv, NEW p \in Publishers, pub[p].step \in {"sync", "resync"},
         pub' = [pub EXCEPT ![p] = NoCall],
         handle' = [handle EXCEPT ![pub[p].plan] =
                      IF pub[p].step = "sync" THEN "dropped" ELSE @],
         UNCHANGED <<bytes, owner, image, batch, made, receipts>>,
         UNCHANGED <<lease, signal, env, execs>>
  PROVE  IInv'
  <1>0. pub[p].step \in Writing /\ TypeOK
    BY DEF Writing, IInv
  <1>1. PICK i \in Plans :
          /\ pub[p].plan = i /\ Installed(i) /\ AllOwned(i) /\ lease[p].poisoned
          /\ Source(Reads(i)) \subseteq lease[p].held /\ pub[p].gen = generation
          /\ \A q \in Publishers : q # p => pub[q].plan # i
          /\ image[i] = "live" /\ made[i] = generation
          /\ batch[i] = (IF Routed(i, made[i]) # {} THEN "committed" ELSE "off")
          /\ PhaseInv(p) /\ AbsentInv(i)
    BY <1>0, LateCall
  <1>2. /\ pub' \in [Publishers -> [step: Stages, plan: PlanOrNone,
                                    gen: 0 .. Len(Entries), k: Nat]]
        /\ pub'[p] = NoCall /\ \A q \in Publishers : q # p => pub'[q] = pub[q]
    BY <1>0, DoneFacts
  <1>3. /\ handle' \in [Plans -> {"absent", "active", "dropped", "retired"}]
        /\ handle'[i] = IF pub[p].step = "sync" THEN "dropped" ELSE handle[i]
        /\ handle'[i] \in {"dropped", "active"}
        /\ handle'[i] = "active" => handle[i] = "active"
        /\ \A j \in Plans : j # i => handle'[j] = handle[j]
    BY <1>0, <1>1 DEF TypeOK, PhaseInv
  <1>4. TypeOK'
    BY <1>0, <1>2, <1>3 DEF TypeOK, bytes, signal, env, execs
  <1>5. \A j \in Plans : Installed(j)' <=> Installed(j)
    BY <1>1, <1>3 DEF Installed
  <1>6. SignalInv' /\ AllOwned(i)'
    BY <1>1 DEF IInv, SignalInv, Active, Verified, signal, AllOwned
  <1>7. CallInv(p)'
    BY <1>2, IdleKept
  <1>8. InstalledInv(i)'
    <2>1. Broken(i)'
      BY <1>1, <1>2 DEF Broken
    <2> QED BY <1>1, <1>6, <2>1 DEF InstalledInv, env
  <1>9. AbsentInv(i)'
    BY <1>1, <1>3, <1>5 DEF AbsentInv
  <1>10. /\ \A u \in Units : CodeInv(u)'
         /\ \A e \in Executors : ExecInv(e)' /\ \A u \in Units : ViewInv(e, u)'
    BY <1>5, EarlyKept
  <1>11. /\ UNCHANGED <<probe, generation, code, owner, image, batch, made>>
         /\ UNCHANGED <<receipts, lease>>
         /\ \A j \in Plans : j # i => handle'[j] = handle[j]
         /\ \A q \in Publishers : q # p => pub[q].plan # i /\ pub'[q] = pub[q]
    BY <1>1, <1>2, <1>3 DEF env, bytes
  <1> QED BY <1>1, <1>4, <1>6, <1>7, <1>8, <1>9, <1>10, <1>11, LateStep

\* A publication fails after its stores: its source stays shut.
LEMMA KeepGatedKeeps ==
  ASSUME IInv, NEW p \in Publishers, KeepGated(p)
  PROVE  IInv'
  BY FailureKeeps DEF KeepGated

\* A retirement fails after its stores: its source stays shut.
LEMMA RetireFailsKeeps ==
  ASSUME IInv, NEW p \in Publishers, RetireFails(p)
  PROVE  IInv'
  <1>1. handle' = [handle EXCEPT ![pub[p].plan] =
                     IF pub[p].step = "sync" THEN "dropped" ELSE @]
    BY DEF RetireFails, assets, IInv, TypeOK
  <1> QED BY <1>1, FailureKeeps DEF RetireFails, assets

-----------------------------------------------------------------------------
(* Retirement.                                                             *)

\* A retirement starts: its lease is poisoned from here on.
LEMMA RetireKeeps ==
  ASSUME IInv, NEW p \in Publishers, NEW i \in Plans, Retire(p, i)
  PROVE  IInv'
  <1> DEFINE c == [step |-> "restore", plan |-> i, gen |-> made[i], k |-> 1]
  <1>1. /\ TypeOK /\ pub[p] = NoCall /\ ~Busy(i) /\ handle[i] = "active"
        /\ ~lease[p].poisoned /\ Source(Reads(i)) \subseteq lease[p].held
        /\ Image(i) \subseteq lease[p].held
        /\ \A u \in Reads(i) : code[u] = Final(i, u)
        /\ lease' = [lease EXCEPT ![p].poisoned = TRUE]
        /\ pub' = [pub EXCEPT ![p] = c]
        /\ UNCHANGED <<bytes, assets, signal, env, execs>>
    BY DEF IInv, Retire, Covers, Drained
  <1>2. /\ i \in receipts /\ Installed(i) /\ image[i] = "live" /\ InstalledInv(i)
        /\ AbsentInv(i)
    BY <1>1 DEF IInv, AbsentInv, Installed
  <1>3. /\ AllOwned(i) /\ made[i] = generation
        /\ batch[i] = (IF Routed(i, made[i]) # {} THEN "committed" ELSE "off")
    BY <1>2 DEF InstalledInv
  <1>4. c \in [step: Stages, plan: PlanOrNone, gen: 0 .. Len(Entries), k: Nat]
    BY <1>1 DEF Stages, PreWrite, PlanOrNone, TypeOK
  <1>5. pub'[p] = c /\ \A q \in Publishers : q # p => pub'[q] = pub[q] /\ pub[q].plan # i
    BY <1>1, <1>4 DEF TypeOK, Busy
  <1>6. /\ lease' \in [Publishers -> [held: Scopes \cup {{}},
                                      identity: 0 .. Len(Entries), poisoned: BOOLEAN]]
        /\ lease'[p].poisoned
        /\ \A q \in Publishers : /\ q # p => lease'[q] = lease[q]
                                 /\ lease'[q].held = lease[q].held
                                 /\ lease'[q].identity = lease[q].identity
    BY <1>1, PoisonFacts
  <1>7. TypeOK'
    BY <1>1, <1>4, <1>6 DEF TypeOK, bytes, assets, signal, env, execs
  <1>8. \A j \in Plans : Installed(j)' <=> Installed(j)
    BY <1>1 DEF Installed, assets
  <1>9. SignalInv' /\ AllOwned(i)'
    BY <1>1, <1>3 DEF IInv, SignalInv, Active, Verified, signal, AllOwned, assets
  <1>10. Shows(i, Len(Steps[i]))'
    BY <1>1, EndsOfOverlay DEF Shows, bytes
  <1>11. CallInv(p)'
    <2>1. HoldsInv(p)'
      BY <1>1, <1>3, <1>5, <1>6 DEF HoldsInv, Writing, env
    <2>2. 1 \in DOMAIN Steps[i] /\ Len(Steps[i]) + 1 - 1 = Len(Steps[i])
      BY StepFacts
    <2>3. PhaseInv(p)'
      BY <1>1, <1>2, <1>5, <1>6, <1>10, <2>2 DEF PhaseInv, PreWrite, assets
    <2> QED BY <2>1, <2>3 DEF CallInv
  <1>12. InstalledInv(i)'
    <2>1. Broken(i)'
      BY <1>1, <1>5, <1>6 DEF Broken
    <2> QED BY <1>1, <1>3, <1>9, <2>1 DEF InstalledInv, env, assets
  <1>13. AbsentInv(i)'
    BY <1>1, <1>2, <1>3, <1>8 DEF AbsentInv, assets
  <1>14. \A u \in Units : CodeInv(u)'
    BY <1>1, <1>8, CodeKept DEF bytes
  <1>15. \A e \in Executors : \A u \in Units : ViewInv(e, u)'
    <2>1. \A u \in Units : Shut(u) => Shut(u)'
      BY <1>6, ShutKept
    <2> QED BY <1>1, <1>8, <2>1, ViewKept DEF bytes
  <1>16. \A e \in Executors : ExecInv(e)'
    BY <1>1, <1>6, <1>8, ExecKept DEF execs, env
  <1>17. /\ UNCHANGED <<probe, generation, code, owner, image, batch, made>>
         /\ UNCHANGED <<handle, receipts>>
         /\ \A q \in Publishers :
              q # p => pub[q].plan # i /\ pub'[q] = pub[q] /\ lease'[q] = lease[q]
    BY <1>1, <1>5, <1>6 DEF env, bytes, assets
  <1> QED BY <1>1, <1>6, <1>7, <1>9, <1>11, <1>12, <1>13, <1>14, <1>15, <1>16, <1>17,
             LateStep

\* One store of a retirement undoes the last step that is left.
LEMMA RestoreKeeps ==
  ASSUME IInv, NEW p \in Publishers, Restore(p)
  PROVE  IInv'
  <1>0. pub[p].step = "restore" /\ pub[p].step \in Writing /\ TypeOK
    BY DEF Restore, Writing, IInv
  <1>1. PICK i \in Plans :
          /\ pub[p].plan = i /\ Installed(i) /\ AllOwned(i) /\ lease[p].poisoned
          /\ Source(Reads(i)) \subseteq lease[p].held /\ pub[p].gen = generation
          /\ \A q \in Publishers : q # p => pub[q].plan # i
          /\ image[i] = "live" /\ made[i] = generation
          /\ batch[i] = (IF Routed(i, made[i]) # {} THEN "committed" ELSE "off")
          /\ PhaseInv(p) /\ AbsentInv(i)
    BY <1>0, LateCall
  <1>2. PICK k \in DOMAIN Steps[i] : pub[p].k = k /\ Shows(i, Len(Steps[i]) + 1 - k)
    BY <1>0, <1>1 DEF PhaseInv
  <1>3. handle[i] = "active" /\ Image(i) \subseteq lease[p].held
    BY <1>0, <1>1 DEF PhaseInv
  <1> DEFINE s == Len(Steps[i]) + 1 - k
  <1>4. /\ code' = [u \in Units |->
                      IF u \in Steps[i][s].span THEN Overlay(i, s - 1, u) ELSE code[u]]
        /\ IF k = Len(Steps[i]) THEN Goto(p, "resync", 0) ELSE Goto(p, "restore", k + 1)
        /\ UNCHANGED <<view, assets, lease, signal, env, execs>>
    BY <1>1, <1>2 DEF Restore, Undone
  <1>5. /\ k \in 1 .. Len(Steps[i]) /\ k \in Nat /\ Len(Steps[i]) \in Nat
        /\ DOMAIN Steps[i] = 1 .. Len(Steps[i])
        /\ s \in DOMAIN Steps[i] /\ s - 1 \in 0 .. Len(Steps[i])
        /\ s - 1 = Len(Steps[i]) + 1 - (k + 1)
        /\ k = Len(Steps[i]) => s - 1 = 0
        /\ k # Len(Steps[i]) => k + 1 \in DOMAIN Steps[i]
    BY StepFacts
  <1>6. /\ Steps[i][s].span \subseteq Reads(i)
        /\ Steps[i][s].edits \subseteq Steps[i][s].span
        /\ Reads(i) \subseteq Units
    BY <1>5, StepFacts, PlanFacts
  <1>7. Shows(i, s) /\ \A u \in Units :
          code'[u] = IF u \in Steps[i][s].span THEN Overlay(i, s - 1, u) ELSE code[u]
    BY <1>2, <1>4
  <1> HIDE DEF s
  <1>8. /\ pub' \in [Publishers -> [step: Stages, plan: PlanOrNone,
                                    gen: 0 .. Len(Entries), k: Nat]]
        /\ pub'[p].plan = i /\ pub'[p].gen = generation
        /\ \/ pub'[p].step = "resync" /\ k = Len(Steps[i])
           \/ pub'[p].step = "restore" /\ k # Len(Steps[i]) /\ pub'[p].k = k + 1
        /\ \A q \in Publishers : q # p => pub'[q] = pub[q]
    <2>1. CASE k = Len(Steps[i])
      BY <1>0, <1>1, <1>4, <2>1, GotoFacts DEF Stages, PreWrite
    <2>2. CASE k # Len(Steps[i])
      BY <1>0, <1>1, <1>4, <1>5, <2>2, GotoFacts DEF Stages, PreWrite
    <2> QED BY <2>1, <2>2
  <1>9. TypeOK'
    <2>1. \A u \in Units : Overlay(i, s - 1, u) \in Bytes
      BY <1>5, OverlayOwn DEF Bytes
    <2>2. code' \in [Units -> Bytes]
      BY <1>0, <1>4, <2>1 DEF TypeOK
    <2> QED BY <1>0, <1>4, <1>8, <2>2 DEF TypeOK, assets, signal, env, execs
  <1>10. \A j \in Plans : Installed(j)' <=> Installed(j)
    BY <1>4 DEF Installed, assets
  <1>11. AllOwned(i)' /\ SignalInv'
    BY <1>1, <1>4 DEF AllOwned, assets, IInv, SignalInv, Active, Verified, signal
  <1>12. Shows(i, s - 1)'
    <2> SUFFICES ASSUME NEW u \in Reads(i) PROVE code'[u] = Overlay(i, s - 1, u)
      BY DEF Shows
    <2>1. CASE u \in Steps[i][s].span
      BY <1>6, <1>7, <2>1
    <2>2. CASE u \notin Steps[i][s].span
      <3>1. Overlay(i, s, u) = Overlay(i, s - 1, u)
        BY <1>5, <1>6, <2>2, OverlaySteps
      <3> QED BY <1>6, <1>7, <2>2, <3>1 DEF Shows
    <2> QED BY <2>1, <2>2
  <1>13. CallInv(p)'
    <2>1. HoldsInv(p)'
      BY <1>1, <1>4, <1>8 DEF HoldsInv, Writing, env
    <2>2. k = Len(Steps[i]) => Shows(i, 0)'
      BY <1>5, <1>12
    <2>3. Shows(i, Len(Steps[i]) + 1 - (k + 1))'
      BY <1>5, <1>12
    <2>4. PhaseInv(p)'
      BY <1>1, <1>3, <1>4, <1>5, <1>8, <2>2, <2>3 DEF PhaseInv, PreWrite, assets
    <2> QED BY <2>1, <2>4 DEF CallInv
  <1>14. InstalledInv(i)'
    <2>1. Broken(i)'
      BY <1>1, <1>4, <1>8 DEF Broken
    <2> QED BY <1>1, <1>4, <1>11, <2>1 DEF InstalledInv, env, assets
  <1>15. AbsentInv(i)'
    <2>1. Installed(i)'
      BY <1>1, <1>10
    <2> QED BY <1>1, <1>3, <1>4, <2>1 DEF AbsentInv, assets
  <1>16. \A u \in Units : CodeInv(u)'
    <2> SUFFICES ASSUME NEW u \in Units, NEW j \in Plans, NEW l \in DOMAIN Steps[j],
                        code'[u] = <<j, l>>
                 PROVE  Installed(j)' /\ u \in Steps[j][l].edits
      BY DEF CodeInv
    <2>1. CASE u \in Steps[i][s].span
      <3>1. Overlay(i, s - 1, u) = <<j, l>>
        BY <1>7, <2>1
      <3>2. j = i /\ u \in Steps[i][l].edits
        BY <1>5, <3>1, OverlayOwn
      <3> QED BY <1>1, <1>10, <3>2
    <2>2. CASE u \notin Steps[i][s].span
      BY <1>7, <1>10, <2>2 DEF IInv, CodeInv
    <2> QED BY <2>1, <2>2
  <1>17. \A e \in Executors : \A u \in Units : ViewInv(e, u)'
    <2> SUFFICES ASSUME NEW e \in Executors, NEW u \in Units PROVE ViewInv(e, u)'
      OBVIOUS
    <2>1. ViewInv(e, u) /\ CodeInv(u) /\ view' = view
      BY <1>4 DEF IInv
    <2>2. Shut(u) => Shut(u)'
      BY <1>4 DEF Shut
    <2>3. CASE u \notin Steps[i][s].span
      BY <1>7, <1>10, <2>1, <2>2, <2>3 DEF ViewInv
    <2>4. CASE u \in Steps[i][s].span
      <3>1. Shut(u)'
        BY <1>1, <1>4, <1>6, <2>4 DEF Shut, Source
      <3>2. \A j \in Plans : view[e][u] \in Image(j) => Installed(j)
        BY <2>1, Distinct DEF ViewInv, CodeInv, Image
      <3> QED BY <1>10, <2>1, <3>1, <3>2 DEF ViewInv
    <2> QED BY <2>3, <2>4
  <1>18. \A e \in Executors : ExecInv(e)'
    BY <1>4, <1>10, ExecKept DEF execs, env
  <1>19. \A u \in Units : code'[u] # code[u] => u \in Reads(i) /\ AllOwned(i)
    BY <1>1, <1>6, <1>7
  <1> QED BY <1>1, <1>4, <1>8, <1>9, <1>11, <1>13, <1>14, <1>15, <1>16, <1>17, <1>18,
             <1>19, LateStep DEF assets, env

\* The barrier ends a retirement: no byte of the plan is left to be routed.
LEMMA RetiredKeeps ==
  ASSUME IInv, NEW p \in Publishers, Retired(p)
  PROVE  IInv'
  <1>0. pub[p].step = "resync" /\ pub[p].step \in Writing /\ TypeOK
    BY DEF Retired, Writing, IInv
  <1>1. PICK i \in Plans :
          /\ pub[p].plan = i /\ Installed(i) /\ AllOwned(i) /\ lease[p].poisoned
          /\ Source(Reads(i)) \subseteq lease[p].held /\ pub[p].gen = generation
          /\ \A q \in Publishers : q # p => pub[q].plan # i
          /\ image[i] = "live" /\ made[i] = generation
          /\ batch[i] = (IF Routed(i, made[i]) # {} THEN "committed" ELSE "off")
          /\ PhaseInv(p) /\ AbsentInv(i)
    BY <1>0, LateCall
  <1>2. Shows(i, 0) /\ Image(i) \subseteq lease[p].held
    BY <1>0, <1>1 DEF PhaseInv
  <1>3. /\ view' = Synchronized
        /\ batch' = [batch EXCEPT ![i] = "off"]
        /\ owner' = Unreserved(p)
        /\ handle' = [handle EXCEPT ![i] = "retired"]
        /\ receipts' = receipts \ {i}
        /\ lease' = [lease EXCEPT ![p].poisoned = FALSE]
        /\ pub' = [pub EXCEPT ![p] = NoCall]
        /\ UNCHANGED <<code, image, made, signal, env, execs>>
    BY <1>1 DEF Retired
  <1>4. /\ pub' \in [Publishers -> [step: Stages, plan: PlanOrNone,
                                    gen: 0 .. Len(Entries), k: Nat]]
        /\ pub'[p] = NoCall /\ \A q \in Publishers : q # p => pub'[q] = pub[q]
    BY <1>0, <1>3, DoneFacts
  <1>5. /\ lease' \in [Publishers -> [held: Scopes \cup {{}},
                                      identity: 0 .. Len(Entries), poisoned: BOOLEAN]]
        /\ \A q \in Publishers : /\ q # p => lease'[q] = lease[q]
                                 /\ lease'[q].held = lease[q].held
                                 /\ lease'[q].identity = lease[q].identity
    BY <1>0, <1>3, PoisonFacts
  <1>6. /\ handle' \in [Plans -> {"absent", "active", "dropped", "retired"}]
        /\ handle'[i] = "retired" /\ \A j \in Plans : j # i => handle'[j] = handle[j]
        /\ batch' \in [Plans -> {"off", "staged", "committed"}]
        /\ batch'[i] = "off" /\ \A j \in Plans : j # i => batch'[j] = batch[j]
        /\ view' \in [Executors -> [Units -> Bytes]]
    BY <1>0, <1>3 DEF TypeOK, Synchronized
  <1>7. \A u \in Units : owner'[u] = IF owner[u] = i THEN "none" ELSE owner[u]
    BY <1>1, <1>3 DEF Unreserved
  <1>8. owner' \in [Units -> PlanOrNone \cup {"probe"}]
    BY <1>0, <1>1, <1>3 DEF Unreserved, TypeOK, PlanOrNone
  <1>9. TypeOK'
    BY <1>0, <1>3, <1>4, <1>5, <1>6, <1>8 DEF TypeOK, signal, env, execs
  <1>10. /\ ~Installed(i)'
         /\ \A j \in Plans : j # i => (Installed(j)' <=> Installed(j))
    BY <1>3, <1>6 DEF Installed
  <1>11. SignalInv'
    BY <1>3, <1>6 DEF IInv, SignalInv, Active, Verified, signal
  <1>12. CallInv(p)'
    BY <1>4, IdleKept
  <1>13. InstalledInv(i)'
    BY <1>10 DEF InstalledInv
  <1>14. i \notin {"none", "probe", "src"}
    BY PlanFacts
  <1>15. AbsentInv(i)'
    BY <1>1, <1>3, <1>6, <1>7, <1>10, <1>14 DEF AbsentInv
  <1>16. \A u \in Units : CodeInv(u)'
    <2> SUFFICES ASSUME NEW u \in Units, NEW j \in Plans, NEW l \in DOMAIN Steps[j],
                        code'[u] = <<j, l>>
                 PROVE  Installed(j)' /\ u \in Steps[j][l].edits
      BY DEF CodeInv
    <2>1. Installed(j) /\ u \in Steps[j][l].edits
      BY <1>3 DEF IInv, CodeInv
    <2>2. j # i
      <3>1. SUFFICES ASSUME j = i PROVE FALSE
        OBVIOUS
      <3>2. u \in Reads(i)
        BY <2>1, <3>1, PlanFacts
      <3>3. code[u] = Orig
        BY <1>2, <3>2, EndsOfOverlay DEF Shows
      <3>4. <<j, l>> # Orig
        BY Distinct, PlanFacts
      <3> QED BY <1>3, <3>3, <3>4
    <2> QED BY <1>10, <2>1, <2>2
  <1>17. \A e \in Executors : \A u \in Units : ViewInv(e, u)'
    BY <1>3, ViewSynced
  <1>18. \A e \in Executors : ExecInv(e)'
    <2> SUFFICES ASSUME NEW e \in Executors PROVE ExecInv(e)'
      OBVIOUS
    <2>1. ExecInv(e) /\ pc'[e] = pc[e] /\ trap'[e] = trap[e] /\ generation' = generation
      BY <1>3 DEF IInv, execs, env
    <2>2. pc'[e] \notin Held'
      BY <1>5, <2>1 DEF Held, ExecInv
    <2>3. \A u \in Reads(i) : pc[e] # Src(u)
      BY <1>1, <2>1 DEF Held, ExecInv, Source
    <2>4. \A u : Marker(i, u) => u \in Reads(i)
      BY PlanFacts DEF Marker
    <2>5. pc[e] \notin Image(i)
      BY <1>2, <2>1 DEF Held, ExecInv
    <2> QED BY <1>10, <2>1, <2>2, <2>3, <2>4, <2>5 DEF ExecInv
  <1>19. /\ UNCHANGED <<probe, generation, code, image, made>>
         /\ \A j \in Plans : j # i => (j \in receipts' <=> j \in receipts)
         /\ \A q \in Publishers :
              q # p => pub[q].plan # i /\ pub'[q] = pub[q] /\ lease'[q] = lease[q]
         /\ \A u \in Units : \A j \in Plans : j # i => (owner'[u] = j <=> owner[u] = j)
         /\ \A u \in Units : owner[u] = "probe" => owner'[u] = "probe"
    <2>1. \A j \in Plans : j # "none"
      BY PlanFacts
    <2> QED BY <1>1, <1>3, <1>4, <1>5, <1>7, <1>14, <2>1 DEF env
  <1> QED BY <1>1, <1>5, <1>6, <1>9, <1>11, <1>12, <1>13, <1>15, <1>16, <1>17, <1>18,
             <1>19, LateStep

-----------------------------------------------------------------------------
(* The rest of the process.                                                *)

\* A step outside the calls, that leaves owners and owned bytes alone.
LEMMA EnvKept ==
  ASSUME IInv,
         UNCHANGED <<image, batch, made, receipts, calls, generation>>,
         \A j \in Plans : \/ handle'[j] = handle[j]
                          \/ handle[j] = "active" /\ handle'[j] = "dropped" /\ ~Busy(j),
         \A u \in Units : \A j \in Plans : owner'[u] = j <=> owner[u] = j,
         \A u \in Units : code'[u] # code[u] => owner[u] \notin Plans
  PROVE  /\ \A p \in Publishers : CallInv(p)'
         /\ \A j \in Plans : /\ InstalledInv(j)' /\ AbsentInv(j)'
                             /\ Installed(j)' <=> Installed(j)
  <1>1. ASSUME NEW j \in Plans
        PROVE  /\ Installed(j)' <=> Installed(j)
               /\ AllOwned(j) => AllOwned(j)'
               /\ AllOwned(j) => \A k : Shows(j, k) => Shows(j, k)'
    <2>1. Installed(j)' <=> Installed(j)
      BY DEF Installed
    <2>2. AllOwned(j) => AllOwned(j)'
      <3>1. \A k \in DOMAIN Locks[j] : Locks[j][k] \subseteq Units
        BY PlanAssumption
      <3> QED BY <3>1 DEF AllOwned
    <2>3. AllOwned(j) => \A u \in Reads(j) : code'[u] = code[u]
      BY OwnedReads, PlanFacts
    <2>4. AllOwned(j) => \A k : Shows(j, k) => Shows(j, k)'
      BY <2>3 DEF Shows
    <2> QED BY <2>1, <2>2, <2>4
  <1>2. ASSUME NEW p \in Publishers PROVE CallInv(p)'
    <2>1. /\ CallInv(p) /\ pub'[p] = pub[p] /\ lease'[p] = lease[p]
          /\ generation' = generation
      BY DEF IInv, calls
    <2>2. HoldsInv(p)'
      BY <2>1 DEF CallInv, HoldsInv
    <2>3. CASE pub[p] = NoCall
      BY <2>1, <2>3, IdleKept
    <2>4. CASE pub[p] # NoCall
      <3>1. PICK j \in Plans : j = pub[p].plan
        BY <2>1, <2>4 DEF CallInv, HoldsInv
      <3>2. /\ Installed(j)' <=> Installed(j)
            /\ AllOwned(j) => AllOwned(j)'
            /\ AllOwned(j) => \A k : Shows(j, k) => Shows(j, k)'
        BY <1>1
      <3>3. handle'[j] = handle[j]
        BY <3>1 DEF Busy
      <3>4. pub[p].step \in Writing => AllOwned(j)
        BY <3>1, WriterInstalled
      <3>5. \A k \in DOMAIN Locks[j] : \A u \in Locks[j][k] :
              owner[u] = j => owner'[u] = j
        <4>1. \A k \in DOMAIN Locks[j] : Locks[j][k] \subseteq Units
          BY PlanAssumption
        <4> QED BY <4>1
      <3>6. PhaseInv(p)'
        BY <2>1, <3>1, <3>2, <3>3, <3>4, <3>5 DEF CallInv, PhaseInv, Writing
      <3> QED BY <2>2, <3>6 DEF CallInv
    <2> QED BY <2>3, <2>4
  <1>3. ASSUME NEW j \in Plans PROVE InstalledInv(j)' /\ AbsentInv(j)'
    <2>1. InstalledInv(j) /\ AbsentInv(j)
      BY DEF IInv
    <2>2. /\ Broken(j) => Broken(j)'
          /\ Busy(j) => Busy(j)'
          /\ \A S : (\E p \in Publishers : At(p, j, S))
                  => (\E p \in Publishers : At(p, j, S)')
      BY DEF Broken, Busy, At, calls
    <2>3. InstalledInv(j)'
      BY <1>1, <2>1, <2>2 DEF InstalledInv
    <2>4. \/ handle'[j] = handle[j]
          \/ handle[j] = "active" /\ handle'[j] = "dropped"
      OBVIOUS
    <2>5. AbsentInv(j)'
      BY <1>1, <2>1, <2>2, <2>4 DEF AbsentInv
    <2> QED BY <2>3, <2>5
  <1> QED BY <1>1, <1>2, <1>3

\* What is left to show of such a step.
LEMMA EnvStep ==
  ASSUME IInv, TypeOK',
         UNCHANGED <<image, batch, made, receipts, calls, generation>>,
         \A j \in Plans : \/ handle'[j] = handle[j]
                          \/ handle[j] = "active" /\ handle'[j] = "dropped" /\ ~Busy(j),
         \A u \in Units : \A j \in Plans : owner'[u] = j <=> owner[u] = j,
         \A u \in Units : code'[u] # code[u] => owner[u] \notin Plans,
         SignalInv', ProbeInv',
         \A u \in Units : CodeInv(u)',
         \A e \in Executors : ExecInv(e)' /\ \A u \in Units : ViewInv(e, u)'
  PROVE  IInv'
  <1>1. /\ \A p \in Publishers : CallInv(p)'
        /\ \A j \in Plans : InstalledInv(j)' /\ AbsentInv(j)'
    BY EnvKept
  <1>2. LeaseInv'
    BY DEF IInv, LeaseInv, calls
  <1> QED BY <1>1, <1>2 DEF IInv

\* Installed plans, leases and bytes stay.
LEMMA SceneryKept ==
  ASSUME IInv, UNCHANGED <<bytes, calls, generation, execs>>,
         \A j \in Plans : Installed(j)' <=> Installed(j)
  PROVE  /\ \A u \in Units : CodeInv(u)'
         /\ \A e \in Executors : ExecInv(e)' /\ \A u \in Units : ViewInv(e, u)'
  <1>1. \A u \in Units : CodeInv(u)'
    BY CodeKept DEF bytes
  <1>2. \A e \in Executors : ExecInv(e)'
    BY ExecKept DEF execs, calls
  <1>3. \A u \in Units : Shut(u) => Shut(u)'
    BY DEF Shut, calls
  <1>4. \A e \in Executors : \A u \in Units : ViewInv(e, u)'
    BY <1>3, ViewKept DEF bytes
  <1> QED BY <1>1, <1>2, <1>4

\* A dropped handle forgets what it owns.
LEMMA DropKeeps ==
  ASSUME IInv, NEW i \in Plans, DropHandle(i)
  PROVE  IInv'
  <1>1. /\ TypeOK /\ handle[i] = "active" /\ ~Busy(i)
        /\ handle' = [handle EXCEPT ![i] = "dropped"]
        /\ UNCHANGED <<owner, bytes, image, batch, made, receipts, calls>>
        /\ UNCHANGED <<signal, env, execs>>
    BY DEF IInv, DropHandle, DroppedOwner
  <1>2. /\ handle' \in [Plans -> {"absent", "active", "dropped", "retired"}]
        /\ handle'[i] = "dropped" /\ \A j \in Plans : j # i => handle'[j] = handle[j]
    BY <1>1 DEF TypeOK
  <1>3. TypeOK'
    BY <1>1, <1>2 DEF TypeOK, bytes, calls, signal, env, execs
  <1>4. \A j \in Plans : Installed(j)' <=> Installed(j)
    BY <1>1, <1>2 DEF Installed
  <1>5. SignalInv' /\ ProbeInv'
    BY <1>1 DEF IInv, SignalInv, Active, Verified, signal, ProbeInv, env
  <1>6. /\ \A u \in Units : CodeInv(u)'
        /\ \A e \in Executors : ExecInv(e)' /\ \A u \in Units : ViewInv(e, u)'
    BY <1>1, <1>4, SceneryKept DEF env
  <1> QED BY <1>1, <1>2, <1>3, <1>5, <1>6, EnvStep DEF bytes, env

\* The probe touches nothing that a plan owns.
LEMMA ProbeKeeps ==
  ASSUME IInv, ProbeReserve \/ ProbeRefused \/ ProbeCommit \/ ProbeToggle
  PROVE  IInv'
  <1>0. TypeOK
    BY DEF IInv
  <1>1. \A j \in Plans : j \notin {"none", "probe"}
    BY PlanFacts
  <1>2. CASE ProbeReserve
    <2>1. /\ \A u \in ProbeUnits : owner[u] = "none"
          /\ probe' = "pending"
          /\ owner' = [u \in Units |-> IF u \in ProbeUnits THEN "probe" ELSE owner[u]]
          /\ UNCHANGED <<bytes, image, batch, made, handle, receipts, calls>>
          /\ UNCHANGED <<signal, generation, execs>>
      BY <1>2 DEF ProbeReserve
    <2>2. owner' \in [Units -> PlanOrNone \cup {"probe"}]
      BY <1>0, <2>1 DEF TypeOK
    <2>3. TypeOK'
      BY <1>0, <2>1, <2>2 DEF TypeOK, bytes, calls, signal, execs
    <2>4. \A u \in Units : \A j \in Plans : owner'[u] = j <=> owner[u] = j
      BY <1>1, <2>1
    <2>5. \A j \in Plans : Installed(j)' <=> Installed(j)
      BY <2>1 DEF Installed
    <2>6. SignalInv' /\ ProbeInv'
      BY <2>1, PlanAssumption DEF IInv, SignalInv, Active, Verified, signal, ProbeInv
    <2>7. /\ \A u \in Units : CodeInv(u)'
          /\ \A e \in Executors : ExecInv(e)' /\ \A u \in Units : ViewInv(e, u)'
      BY <2>1, <2>5, SceneryKept
    <2> QED BY <2>1, <2>3, <2>4, <2>6, <2>7, EnvStep DEF bytes
  <1>3. CASE ProbeRefused
    <2>1. /\ probe = "pending" /\ probe' = "none"
          /\ owner' = [u \in Units |-> IF u \in ProbeUnits THEN "none" ELSE owner[u]]
          /\ UNCHANGED <<bytes, image, batch, made, handle, receipts, calls>>
          /\ UNCHANGED <<signal, generation, execs>>
      BY <1>3 DEF ProbeRefused
    <2>2. owner' \in [Units -> PlanOrNone \cup {"probe"}]
      BY <1>0, <2>1 DEF TypeOK, PlanOrNone
    <2>3. TypeOK'
      BY <1>0, <2>1, <2>2 DEF TypeOK, bytes, calls, signal, execs
    <2>4. \A u \in Units : \A j \in Plans : owner'[u] = j <=> owner[u] = j
      BY <1>1, <2>1 DEF IInv, ProbeInv
    <2>5. \A j \in Plans : Installed(j)' <=> Installed(j)
      BY <2>1 DEF Installed
    <2>6. SignalInv' /\ ProbeInv'
      BY <2>1 DEF IInv, SignalInv, Active, Verified, signal, ProbeInv
    <2>7. /\ \A u \in Units : CodeInv(u)'
          /\ \A e \in Executors : ExecInv(e)' /\ \A u \in Units : ViewInv(e, u)'
      BY <2>1, <2>5, SceneryKept
    <2> QED BY <2>1, <2>3, <2>4, <2>6, <2>7, EnvStep DEF bytes
  <1>4. CASE ProbeCommit
    <2>1. /\ probe = "pending" /\ probe' = "installed"
          /\ UNCHANGED <<bytes, assets, calls, signal, generation, execs>>
      BY <1>4 DEF ProbeCommit
    <2>2. TypeOK'
      BY <1>0, <2>1 DEF TypeOK, bytes, assets, calls, signal, execs
    <2>3. \A j \in Plans : Installed(j)' <=> Installed(j)
      BY <2>1 DEF Installed, assets
    <2>4. SignalInv' /\ ProbeInv'
      BY <2>1 DEF IInv, SignalInv, Active, Verified, signal, ProbeInv, assets
    <2>5. /\ \A u \in Units : CodeInv(u)'
          /\ \A e \in Executors : ExecInv(e)' /\ \A u \in Units : ViewInv(e, u)'
      BY <2>1, <2>3, SceneryKept
    <2> QED BY <2>1, <2>2, <2>4, <2>5, EnvStep DEF bytes, assets
  <1>5. CASE ProbeToggle
    <2>1. PICK opcode \in {Orig, Probed} :
            code' = [u \in Units |-> IF u \in ProbeUnits THEN opcode ELSE code[u]]
      BY <1>5 DEF ProbeToggle
    <2>2. /\ probe = "installed"
          /\ UNCHANGED <<view, assets, calls, signal, env, execs>>
      BY <1>5 DEF ProbeToggle
    <2>3. \A u \in ProbeUnits : owner[u] = "probe"
      BY <2>2 DEF IInv, ProbeInv
    <2>4. code' \in [Units -> Bytes]
      BY <1>0, <2>1 DEF TypeOK, Bytes
    <2>5. TypeOK'
      BY <1>0, <2>2, <2>4 DEF TypeOK, assets, calls, signal, env, execs
    <2>6. \A u \in Units : code'[u] # code[u] => owner[u] \notin Plans
      BY <1>1, <2>1, <2>3
    <2>7. \A j \in Plans : Installed(j)' <=> Installed(j)
      BY <2>2 DEF Installed, assets
    <2>8. SignalInv' /\ ProbeInv'
      BY <2>2 DEF IInv, SignalInv, Active, Verified, signal, ProbeInv, assets, env
    <2>9. \A j \in Plans : \A k \in DOMAIN Steps[j] : <<j, k>> \notin {Orig, Probed}
      BY Distinct, PlanFacts
    <2>10. \A u \in Units : CodeInv(u)'
      BY <2>1, <2>7, <2>9 DEF IInv, CodeInv
    <2>11. ASSUME NEW e \in Executors, NEW u \in Units
           PROVE  ViewInv(e, u)'
      <3>1. ViewInv(e, u) /\ CodeInv(u) /\ view' = view
        BY <2>2 DEF IInv
      <3>2. Shut(u) => Shut(u)'
        BY <2>2 DEF Shut, calls
      <3>3. CASE u \notin ProbeUnits
        BY <2>1, <2>7, <3>1, <3>2, <3>3 DEF ViewInv
      <3>4. CASE u \in ProbeUnits
        <4>1. code'[u] \in {Orig, Probed}
          BY <2>1, <3>4
        <4>2. code[u] \in {Orig, Probed}
          <5>1. SUFFICES ASSUME code[u] \notin {Orig, Probed} PROVE FALSE
            OBVIOUS
          <5>2. PICK j \in Plans : code[u] \in Image(j)
            BY <1>0, <5>1 DEF TypeOK, Bytes
          <5>3. PICK k \in DOMAIN Steps[j] : code[u] = <<j, k>>
            BY <5>2 DEF Image
          <5>4. Installed(j) /\ u \in Reads(j)
            BY <3>1, <5>3, PlanFacts DEF CodeInv
          <5>5. owner[u] = j
            BY <5>4, OwnedReads DEF IInv, InstalledInv
          <5> QED BY <1>1, <2>3, <3>4, <5>5
        <4> QED BY <2>7, <3>1, <3>2, <4>1, <4>2 DEF ViewInv
      <3> QED BY <3>3, <3>4
    <2>12. \A e \in Executors : ExecInv(e)'
      BY <2>2, <2>7, ExecKept DEF execs, calls, env
    <2> QED BY <2>2, <2>5, <2>6, <2>8, <2>10, <2>11, <2>12, EnvStep DEF assets, env
  <1> QED BY <1>2, <1>3, <1>4, <1>5

\* The application takes SIGILL only while no route is active.
LEMMA ForeignKeeps ==
  ASSUME IInv, Foreign
  PROVE  IInv'
  <1>1. /\ TypeOK /\ \A i \in Plans : ~Active(i)
        /\ sigill' = "foreign"
        /\ UNCHANGED <<bytes, assets, calls, armed, env, execs>>
    BY DEF IInv, Foreign
  <1>2. TypeOK'
    BY <1>1 DEF TypeOK, bytes, assets, calls, env, execs
  <1>3. \A j \in Plans : Installed(j)' <=> Installed(j)
    BY <1>1 DEF Installed, assets
  <1>4. SignalInv' /\ ProbeInv'
    BY <1>1 DEF IInv, SignalInv, Active, ProbeInv, assets, env
  <1>5. /\ \A u \in Units : CodeInv(u)'
        /\ \A e \in Executors : ExecInv(e)' /\ \A u \in Units : ViewInv(e, u)'
    BY <1>1, <1>3, SceneryKept DEF env
  <1> QED BY <1>1, <1>2, <1>4, <1>5, EnvStep DEF bytes, assets, env

\* Nothing installed, held or running is left when the source is mapped again.
LEMMA RemapKeeps ==
  ASSUME IInv, Remap
  PROVE  IInv'
  <1>1. /\ TypeOK /\ generation < Len(Entries) /\ Held = {}
        /\ \A u \in Units : owner[u] = "none" /\ code[u] = Orig
        /\ \A e \in Executors : pc[e] = Out
        /\ generation' = generation + 1
        /\ UNCHANGED <<bytes, assets, calls, signal, probe, execs>>
    BY DEF IInv, Remap
  <1>2. TypeOK'
    <2>1. generation' \in Generations
      BY <1>1, PlanAssumption DEF TypeOK, Generations
    <2> QED BY <1>1, <2>1 DEF TypeOK, bytes, assets, calls, signal, execs
  <1>3. \A i \in Plans : ~Installed(i)
    <2> SUFFICES ASSUME NEW i \in Plans, Installed(i) PROVE FALSE
      OBVIOUS
    <2>1. AllOwned(i)
      BY DEF IInv, InstalledInv
    <2>2. PICK u \in Reads(i) : TRUE
      BY PlanFacts
    <2>3. u \in Units /\ i # "none"
      BY <2>2, PlanFacts
    <2> QED BY <1>1, <2>1, <2>2, <2>3, OwnedReads
  <1>4. \A p \in Publishers : lease[p].held = {} /\ pub[p] = NoCall
    BY <1>1, FreeIsIdle DEF Held
  <1>5. LeaseInv' /\ SignalInv' /\ ProbeInv'
    BY <1>1, <1>4 DEF IInv, LeaseInv, SignalInv, Active, Verified, ProbeInv, signal,
                      calls, assets
  <1>6. \A p \in Publishers : CallInv(p)'
    BY <1>1, <1>4, IdleKept DEF calls
  <1>7. \A i \in Plans : ~Installed(i)'
    BY <1>1, <1>3 DEF Installed, assets
  <1>8. \A i \in Plans : InstalledInv(i)' /\ AbsentInv(i)'
    <2> SUFFICES ASSUME NEW i \in Plans PROVE InstalledInv(i)' /\ AbsentInv(i)'
      OBVIOUS
    <2>1. AbsentInv(i) /\ ~Installed(i) /\ ~Installed(i)'
      BY <1>3, <1>7 DEF IInv
    <2>2. AbsentInv(i)'
      BY <1>1, <2>1 DEF AbsentInv, assets, calls, At, Busy
    <2> QED BY <2>1, <2>2 DEF InstalledInv
  <1>9. \A u \in Units : CodeInv(u)'
    BY <1>1, <1>3, <1>7 DEF IInv, CodeInv, bytes
  <1>10. \A e \in Executors : \A u \in Units : ViewInv(e, u)'
    <2>1. \A u \in Units : Shut(u) => Shut(u)'
      BY <1>1 DEF Shut, calls
    <2> QED BY <1>1, <1>3, <2>1, ViewKept DEF bytes
  <1>11. \A e \in Executors : ExecInv(e)'
    <2> SUFFICES ASSUME NEW e \in Executors PROVE ExecInv(e)'
      OBVIOUS
    <2>1. ExecInv(e) /\ pc'[e] = Out /\ pc[e] = Out /\ trap'[e] = trap[e]
      BY <1>1 DEF IInv, execs
    <2>2. Held' = Held
      BY <1>1 DEF Held, calls
    <2>3. \A i \in Plans : Out \notin Image(i)
      BY Distinct
    <2>4. ~trap[e] /\ Out # Lost
      BY <1>3, <2>1 DEF ExecInv, Out, Lost
    <2> QED BY <1>7, <2>1, <2>2, <2>3, <2>4 DEF ExecInv
  <1> QED BY <1>2, <1>5, <1>6, <1>8, <1>9, <1>10, <1>11 DEF IInv

-----------------------------------------------------------------------------
(* Executors.                                                              *)

\* The legal entries of the current generation are instructions.
LEMMA EntryFacts ==
  ASSUME TypeOK
  PROVE  Entries[generation] \subseteq Units
  BY PlanAssumption DEF TypeOK, Generations

\* Where an executor runs, no gate is shut, so what it fetches is current but
\* for a probe's opcodes, and an installed plan's final bytes are in place.
LEMMA AtSource ==
  ASSUME IInv, NEW e \in Executors, NEW u \in Units, pc[e] = Src(u)
  PROVE  /\ ~Shut(u)
         /\ \/ view[e][u] = code[u]
            \/ view[e][u] \in {Orig, Probed} /\ code[u] \in {Orig, Probed}
         /\ \A i \in Plans : Installed(i) /\ u \in Reads(i) =>
              i \in receipts /\ code[u] = Final(i, u)
  <1>1. /\ pc[e] \notin Held /\ ViewInv(e, u)
        /\ \A i \in Plans : InstalledInv(i)
    BY DEF IInv, ExecInv
  <1>2. \A p \in Publishers : Src(u) \notin lease[p].held
    BY <1>1 DEF Held
  <1>3. ~Shut(u)
    BY <1>2 DEF Shut
  <1>4. ASSUME NEW i \in Plans, Installed(i), u \in Reads(i)
        PROVE  i \in receipts /\ code[u] = Final(i, u)
    <2>1. Src(u) \in Source(Reads(i))
      BY <1>4 DEF Source
    <2>2. ~Broken(i)
      BY <1>2, <2>1 DEF Broken
    <2> QED BY <1>1, <1>4, <2>2 DEF InstalledInv, Shows, Final
  <1> QED BY <1>1, <1>3, <1>4 DEF ViewInv

\* A step of one executor alone.
LEMMA ExecStep ==
  ASSUME IInv, NEW e \in Executors,
         UNCHANGED <<bytes, assets, calls, signal, env>>,
         pc' \in [Executors -> Places \cup {Out, Lost}],
         trap' \in [Executors -> BOOLEAN],
         \A f \in Executors : f # e => pc'[f] = pc[f] /\ trap'[f] = trap[f],
         ExecInv(e)'
  PROVE  IInv'
  <1> USE DEF bytes, assets, calls, signal, env
  <1>1. TypeOK'
    BY DEF IInv, TypeOK
  <1>2. LeaseInv' /\ SignalInv' /\ ProbeInv'
    BY DEF IInv, LeaseInv, SignalInv, Active, Verified, ProbeInv
  <1>3. \A p \in Publishers : CallInv(p)'
    BY CallKept DEF IInv
  <1>4. \A i \in Plans : InstalledInv(i)' /\ AbsentInv(i)'
    BY PlansKept
  <1>5. \A i \in Plans : Installed(i)' <=> Installed(i)
    BY DEF Installed
  <1>6. \A u \in Units : CodeInv(u)'
    BY <1>5, CodeKept
  <1>7. \A f \in Executors : \A u \in Units : ViewInv(f, u)'
    <2>1. \A u \in Units : Shut(u) => Shut(u)'
      BY DEF Shut
    <2> QED BY <1>5, <2>1, ViewKept
  <1>8. ASSUME NEW f \in Executors, f # e PROVE ExecInv(f)'
    <2>1. ExecInv(f) /\ pc'[f] = pc[f] /\ trap'[f] = trap[f]
      BY <1>8 DEF IInv
    <2>2. Held' = Held
      BY DEF Held
    <2> QED BY <1>5, <2>1, <2>2 DEF ExecInv
  <1> QED BY <1>1, <1>2, <1>3, <1>4, <1>6, <1>7, <1>8 DEF IInv

\* One executor moves to an admitted place, where it may be.
LEMMA MoveKeeps ==
  ASSUME IInv, NEW e \in Executors, NEW place \in Places \cup {Out},
         place \notin Held,
         pc' = [pc EXCEPT ![e] = place],
         trap' \in [Executors -> BOOLEAN], ~trap'[e],
         \A f \in Executors : f # e => trap'[f] = trap[f],
         UNCHANGED <<bytes, assets, calls, signal, env>>,
         \A i \in Plans : place \in Image(i) => Installed(i),
         \A u \in Units : \A i \in Plans :
           place = Src(u) /\ Installed(i) /\ Marker(i, u) => u \in Entries[generation]
  PROVE  IInv'
  <1>1. /\ pc' \in [Executors -> Places \cup {Out, Lost}]
        /\ pc'[e] = place /\ \A f \in Executors : f # e => pc'[f] = pc[f]
    BY DEF IInv, TypeOK
  <1>2. Held' = Held /\ generation' = generation
    BY DEF Held, calls, env
  <1>3. \A i \in Plans : Installed(i)' <=> Installed(i)
    BY DEF Installed, assets
  <1>4. place # Lost
    <2>1. \A i \in Plans : Lost \notin Image(i)
      BY Distinct
    <2>2. \A u \in Units : Src(u) # Lost
      BY DEF Src, Lost
    <2> QED BY <2>1, <2>2 DEF Places, Source, Out, Lost
  <1>5. ExecInv(e)'
    BY <1>1, <1>2, <1>3, <1>4 DEF ExecInv
  <1> QED BY <1>1, <1>5, ExecStep

\* To an entry, or to an instruction that is no marker, or out of the source.
LEMMA OnwardKeeps ==
  ASSUME IInv, NEW e \in Executors, ~trap[e], NEW w,
         NEW place \in Source(Entries[generation] \cup (Units \cap {w})) \cup {Out},
         Goes(e, place),
         \A i \in Plans : w \in Units /\ Installed(i) => ~Marker(i, w)
  PROVE  IInv'
  <1>1. Entries[generation] \subseteq Units
    BY EntryFacts DEF IInv
  <1>2. place \in Places \cup {Out}
    BY <1>1 DEF Places, Source
  <1>3. \A i \in Plans : place \notin Image(i)
    BY Distinct DEF Source
  <1>4. ASSUME NEW u \in Units, NEW i \in Plans,
               place = Src(u), Installed(i), Marker(i, u)
        PROVE  u \in Entries[generation]
    <2>1. place # Out
      BY <1>4 DEF Src, Out
    <2>2. PICK x \in Entries[generation] \cup (Units \cap {w}) : place = Src(x)
      BY <2>1 DEF Source
    <2>3. x = u
      BY <1>4, <2>2 DEF Src
    <2> QED BY <1>4, <2>2, <2>3
  <1>5. /\ place \notin Held /\ pc' = [pc EXCEPT ![e] = place]
        /\ UNCHANGED <<bytes, assets, calls, signal, env>> /\ trap' = trap
    BY DEF Goes, Admitted
  <1>6. trap' \in [Executors -> BOOLEAN]
    BY <1>5 DEF IInv, TypeOK
  <1> QED BY <1>2, <1>3, <1>4, <1>5, <1>6, MoveKeeps

\* Calls come in through entries.
LEMMA EnterKeeps ==
  ASSUME IInv, NEW e \in Executors, Enter(e)
  PROVE  IInv'
  <1>1. pc[e] = Out
    BY DEF Enter
  <1>2. ~trap[e]
    BY <1>1 DEF IInv, ExecInv, Src, Out
  <1>3. PICK u \in Entries[generation] : Goes(e, Src(u))
    BY DEF Enter
  <1>4. Src(u) \in Source(Entries[generation] \cup (Units \cap {0})) \cup {Out}
    BY DEF Source
  <1>5. 0 \notin Units
    BY DEF Units
  <1> QED BY <1>2, <1>3, <1>4, <1>5, OnwardKeeps

\* Fetching is of the current bytes.
LEMMA FetchKeeps ==
  ASSUME IInv, NEW e \in Executors, NEW u \in Units, Fetch(e, u)
  PROVE  IInv'
  <1> USE DEF assets, calls, signal, env, execs
  <1>1. /\ TypeOK /\ view' = [view EXCEPT ![e][u] = code[u]]
        /\ UNCHANGED <<code, assets, calls, signal, env, execs>>
    BY DEF IInv, Fetch
  <1>2. /\ view' \in [Executors -> [Units -> Bytes]] /\ view'[e][u] = code[u]
        /\ \A f \in Executors : \A w \in Units :
             f # e \/ w # u => view'[f][w] = view[f][w]
    BY <1>1 DEF TypeOK
  <1>3. TypeOK'
    BY <1>1, <1>2 DEF TypeOK
  <1>4. LeaseInv' /\ SignalInv' /\ ProbeInv'
    BY <1>1 DEF IInv, LeaseInv, SignalInv, Active, Verified, ProbeInv
  <1>5. \A p \in Publishers : CallInv(p)'
    BY <1>1, CallKept DEF IInv
  <1>6. \A i \in Plans : InstalledInv(i)' /\ AbsentInv(i)'
    BY <1>1, PlansKept
  <1>7. \A i \in Plans : Installed(i)' <=> Installed(i)
    BY <1>1 DEF Installed
  <1>8. \A w \in Units : CodeInv(w)'
    BY <1>1, <1>7, CodeKept
  <1>9. \A f \in Executors : ExecInv(f)'
    BY <1>1, <1>7, ExecKept
  <1>10. ASSUME NEW f \in Executors, NEW w \in Units PROVE ViewInv(f, w)'
    <2>1. ViewInv(f, w) /\ code' = code /\ (Shut(w) => Shut(w)')
      BY <1>1 DEF IInv, Shut
    <2>2. CASE f = e /\ w = u
      BY <1>2, <2>1, <2>2 DEF ViewInv
    <2>3. CASE ~(f = e /\ w = u)
      <3>1. view'[f][w] = view[f][w]
        BY <1>2, <2>3
      <3> QED BY <1>7, <2>1, <3>1 DEF ViewInv
    <2> QED BY <2>2, <2>3
  <1> QED BY <1>3, <1>4, <1>5, <1>6, <1>8, <1>9, <1>10 DEF IInv
\* What an executor may run: an instruction that no installed plan displaces,
\* the jump of an installed step, or a marker of one.
LEMMA RunWays ==
  ASSUME IInv, NEW e \in Executors, Run(e)
  PROVE  \E u \in Units :
           /\ pc[e] = Src(u) /\ ~trap[e]
           /\ \/ /\ \A i \in Plans : Installed(i) => u \notin Touched(i)
                 /\ \E place \in Onward(u + 1) : Goes(e, place)
              \/ \E i \in Plans : /\ Installed(i) /\ u \in Touched(i)
                                  /\ Goes(e, Final(i, u))
              \/ /\ \E i \in Plans : Installed(i) /\ Marker(i, u)
                 /\ trap' = [trap EXCEPT ![e] = TRUE]
                 /\ UNCHANGED <<bytes, assets, calls, signal, env, pc>>
  <1> DEFINE Falls(u) == \E place \in Onward(u + 1) : Goes(e, place)
             Trap == /\ trap' = [trap EXCEPT ![e] = TRUE]
                     /\ UNCHANGED <<bytes, assets, calls, signal, env, pc>>
  <1>1. PICK u \in Units :
          /\ pc[e] = Src(u) /\ ~trap[e]
          /\ \/ view[e][u] \in {Orig, Probed} /\ Falls(u)
             \/ /\ view[e][u] \notin {Orig, Probed}
                /\ Steps[view[e][u][1]][view[e][u][2]].head = u
                /\ Goes(e, view[e][u])
             \/ /\ view[e][u] \notin {Orig, Probed}
                /\ Steps[view[e][u][1]][view[e][u][2]].head # u /\ Trap
    BY DEF Run
  <1>2. /\ \/ view[e][u] = code[u]
           \/ view[e][u] \in {Orig, Probed} /\ code[u] \in {Orig, Probed}
        /\ \A i \in Plans : Installed(i) /\ u \in Reads(i) => code[u] = Final(i, u)
    BY <1>1, AtSource
  <1>3. TypeOK /\ CodeInv(u)
    BY DEF IInv
  <1>4. CASE view[e][u] \in {Orig, Probed} /\ Falls(u)
    <2>1. ASSUME NEW i \in Plans, Installed(i), u \in Touched(i) PROVE FALSE
      <3>1. u \in Reads(i) /\ Final(i, u) \in Image(i)
        BY <2>1, PlanFacts, EndsOfOverlay
      <3>2. code[u] \in Image(i)
        BY <1>2, <2>1, <3>1
      <3>3. code[u] \notin {Orig, Probed}
        BY <3>2, Distinct
      <3> QED BY <1>2, <1>4, <3>3
    <2> QED BY <1>1, <1>4, <2>1
  <1>5. CASE view[e][u] \notin {Orig, Probed}
    <2>1. view[e][u] = code[u] /\ code[u] \in Bytes
      BY <1>2, <1>3, <1>5 DEF TypeOK
    <2>2. PICK i \in Plans : \E k \in DOMAIN Steps[i] : code[u] = <<i, k>>
      BY <1>5, <2>1 DEF Bytes, Image
    <2>3. PICK k \in DOMAIN Steps[i] : code[u] = <<i, k>>
      BY <2>2
    <2>4. /\ Installed(i) /\ u \in Steps[i][k].edits /\ u \in Touched(i)
          /\ Final(i, u) = <<i, k>>
      BY <1>3, <2>3, PlanFacts, EndsOfOverlay DEF CodeInv
    <2>5. view[e][u] = Final(i, u) /\ view[e][u][1] = i /\ view[e][u][2] = k
      BY <2>1, <2>3, <2>4
    <2>6. CASE Steps[i][k].head = u
      BY <1>1, <1>5, <2>4, <2>5, <2>6
    <2>7. CASE Steps[i][k].head # u
      <3>1. Trap /\ Marker(i, u)
        BY <1>1, <1>5, <2>4, <2>5, <2>7, HeadFacts
      <3> QED BY <1>1, <2>4, <3>1
    <2> QED BY <2>6, <2>7
  <1> QED BY <1>1, <1>4, <1>5, SMTT(30)

\* A jump into the generated code of an installed plan.
LEMMA JumpKeeps ==
  ASSUME IInv, NEW e \in Executors, NEW i \in Plans, NEW u \in Touched(i),
         Installed(i), Final(i, u) \notin Held,
         pc' = [pc EXCEPT ![e] = Final(i, u)],
         trap' \in [Executors -> BOOLEAN], ~trap'[e],
         \A f \in Executors : f # e => trap'[f] = trap[f],
         UNCHANGED <<bytes, assets, calls, signal, env>>
  PROVE  IInv'
  <1>1. PICK place : place = Final(i, u)
    OBVIOUS
  <1>2. place \in Image(i)
    BY <1>1, EndsOfOverlay
  <1>3. /\ \A j \in Plans : place \in Image(j) => Installed(j)
        /\ \A w : place # Src(w)
    BY <1>2, Distinct
  <1>4. place \in Places \cup {Out}
    BY <1>2 DEF Places
  <1> QED BY <1>1, <1>3, <1>4, MoveKeeps

\* An instruction goes on, jumps or faults.
LEMMA RunKeeps ==
  ASSUME IInv, NEW e \in Executors, Run(e)
  PROVE  IInv'
  <1>1. PICK u \in Units :
          /\ pc[e] = Src(u) /\ ~trap[e]
          /\ \/ /\ \A i \in Plans : Installed(i) => u \notin Touched(i)
                /\ \E place \in Onward(u + 1) : Goes(e, place)
             \/ \E i \in Plans : /\ Installed(i) /\ u \in Touched(i)
                                 /\ Goes(e, Final(i, u))
             \/ /\ \E i \in Plans : Installed(i) /\ Marker(i, u)
                /\ trap' = [trap EXCEPT ![e] = TRUE]
                /\ UNCHANGED <<bytes, assets, calls, signal, env, pc>>
    BY RunWays
  <1>2. TypeOK /\ ExecInv(e)
    BY DEF IInv
  <1>3. ASSUME \A i \in Plans : Installed(i) => u \notin Touched(i),
               NEW place \in Onward(u + 1), Goes(e, place)
        PROVE  IInv'
    <2>1. place \in Source(Entries[generation] \cup (Units \cap {u + 1})) \cup {Out}
      BY DEF Onward
    <2>2. ASSUME NEW i \in Plans, u + 1 \in Units, Installed(i), Marker(i, u + 1)
          PROVE  FALSE
      <3>1. (u + 1) - 1 \in Touched(i) /\ (u + 1) - 1 = u
        BY <2>2, MarkerFacts DEF Units
      <3> QED BY <1>3, <2>2, <3>1
    <2> QED BY <1>1, <1>3, <2>1, <2>2, OnwardKeeps
  <1>4. ASSUME NEW i \in Plans, Installed(i), u \in Touched(i), Goes(e, Final(i, u))
        PROVE  IInv'
    <2>1. /\ Final(i, u) \notin Held /\ pc' = [pc EXCEPT ![e] = Final(i, u)]
          /\ trap' = trap
          /\ UNCHANGED <<bytes, assets, calls, signal, env>>
      BY <1>4 DEF Goes, Admitted
    <2>2. trap' \in [Executors -> BOOLEAN] /\ ~trap'[e]
      BY <1>1, <1>2, <2>1 DEF TypeOK
    <2> QED BY <1>4, <2>1, <2>2, JumpKeeps
  <1>5. ASSUME NEW i \in Plans, Installed(i), Marker(i, u),
               trap' = [trap EXCEPT ![e] = TRUE],
               UNCHANGED <<bytes, assets, calls, signal, env, pc>>
        PROVE  IInv'
    <2>1. /\ trap' \in [Executors -> BOOLEAN]
          /\ pc' \in [Executors -> Places \cup {Out, Lost}]
          /\ \A f \in Executors : f # e => trap'[f] = trap[f]
      BY <1>2, <1>5 DEF TypeOK
    <2>2. /\ Held' = Held /\ generation' = generation
          /\ \A j \in Plans : Installed(j)' <=> Installed(j)
      BY <1>5 DEF Held, Installed, calls, assets, env
    <2>3. ExecInv(e)'
      BY <1>1, <1>2, <1>5, <2>2 DEF ExecInv
    <2> QED BY <1>5, <2>1, <2>3, ExecStep
  <1> QED BY <1>1, <1>3, <1>4, <1>5

\* A marker that an executor ran is routed, so its handler finds the way.
LEMMA FaultRouted ==
  ASSUME IInv, NEW e \in Executors, NEW u \in Units, pc[e] = Src(u), trap[e]
  PROVE  /\ sigill = "router"
         /\ \E i \in Plans : Active(i) /\ u \in Routed(i, made[i])
         /\ \A i \in Plans : Active(i) /\ u \in Routed(i, made[i]) => Installed(i)
  <1>1. /\ ExecInv(e) /\ SignalInv
        /\ \A i \in Plans : InstalledInv(i) /\ AbsentInv(i)
    BY DEF IInv
  <1>2. PICK w \in Units, j \in Plans :
          pc[e] = Src(w) /\ Installed(j) /\ Marker(j, w)
    BY <1>1 DEF ExecInv
  <1>3. w = u
    BY <1>2 DEF Src
  <1>4. u \in Entries[generation]
    BY <1>1, <1>2, <1>3 DEF ExecInv
  <1>5. u \in Routed(j, made[j])
    BY <1>1, <1>2, <1>3, <1>4 DEF InstalledInv, Routed, Marker
  <1>6. Active(j)
    BY <1>1, <1>2, <1>5 DEF InstalledInv, Active
  <1>7. sigill = "router"
    BY <1>1, <1>6 DEF SignalInv, Verified
  <1>8. ASSUME NEW i \in Plans, Active(i), u \in Routed(i, made[i])
        PROVE  Installed(i)
    <2>1. batch[i] \in {"staged", "committed"}
      BY <1>8 DEF IInv, TypeOK, Active
    <2>2. Src(u) \in Source(Reads(i))
      BY <1>8, PlanFacts DEF Routed, Source
    <2>3. batch[i] # "staged"
      <3>1. SUFFICES ASSUME batch[i] = "staged" PROVE FALSE
        OBVIOUS
      <3>2. PICK p \in Publishers : pub[p].plan = i /\ pub[p].step = "commit"
        BY <1>1, <3>1 DEF AbsentInv, At
      <3>3. Src(u) \in lease[p].held
        BY <2>2, <3>2, CallFacts
      <3> QED BY <1>1, <3>3 DEF ExecInv, Held
    <2> QED BY <1>1, <2>1, <2>3 DEF AbsentInv
  <1> QED BY <1>5, <1>6, <1>7, <1>8

\* Where the handler sends it.
LEMMA FaultGoes ==
  ASSUME IInv, NEW e \in Executors, Fault(e)
  PROVE  \E i \in Plans : \E u \in Touched(i) :
           /\ Installed(i) /\ pc[e] = Src(u) /\ trap[e]
           /\ Final(i, u) \notin Held /\ pc' = [pc EXCEPT ![e] = Final(i, u)]
           /\ trap' = [trap EXCEPT ![e] = FALSE]
           /\ UNCHANGED <<bytes, assets, calls, signal, env>>
  <1> DEFINE Hits(u) == {i \in Plans : Active(i) /\ u \in Routed(i, made[i])}
  <1>1. PICK u \in Units :
          /\ pc[e] = Src(u) /\ trap[e]
          /\ trap' = [trap EXCEPT ![e] = FALSE]
          /\ IF Hits(u) # {} /\ sigill = "router"
             THEN \E i \in Hits(u) : /\ Admitted(Final(i, u))
                                     /\ pc' = [pc EXCEPT ![e] = Final(i, u)]
             ELSE pc' = [pc EXCEPT ![e] = Lost]
          /\ UNCHANGED <<bytes, assets, calls, signal, env>>
    BY DEF Fault
  <1>2. /\ sigill = "router" /\ Hits(u) # {}
        /\ \A i \in Hits(u) : Installed(i)
    BY <1>1, FaultRouted
  <1>3. PICK i \in Hits(u) :
          Final(i, u) \notin Held /\ pc' = [pc EXCEPT ![e] = Final(i, u)]
    BY <1>1, <1>2 DEF Admitted
  <1>4. i \in Plans /\ u \in Touched(i) /\ Installed(i)
    BY <1>2, <1>3 DEF Routed
  <1> QED BY <1>1, <1>3, <1>4

\* A routed fault continues in generated code.
LEMMA FaultKeeps ==
  ASSUME IInv, NEW e \in Executors, Fault(e)
  PROVE  IInv'
  <1>1. PICK i \in Plans : \E u \in Touched(i) :
          /\ Installed(i) /\ pc[e] = Src(u) /\ trap[e]
          /\ Final(i, u) \notin Held /\ pc' = [pc EXCEPT ![e] = Final(i, u)]
          /\ trap' = [trap EXCEPT ![e] = FALSE]
          /\ UNCHANGED <<bytes, assets, calls, signal, env>>
    BY FaultGoes
  <1>2. PICK u \in Touched(i) :
          /\ Installed(i) /\ Final(i, u) \notin Held
          /\ pc' = [pc EXCEPT ![e] = Final(i, u)]
          /\ trap' = [trap EXCEPT ![e] = FALSE]
          /\ UNCHANGED <<bytes, assets, calls, signal, env>>
    BY <1>1
  <1>3. /\ trap' \in [Executors -> BOOLEAN] /\ ~trap'[e]
        /\ \A f \in Executors : f # e => trap'[f] = trap[f]
    BY <1>2 DEF IInv, TypeOK
  <1> QED BY <1>2, <1>3, JumpKeeps

\* What follows the instructions of a step is no marker of any other.
LEMMA LeaveKeeps ==
  ASSUME IInv, NEW e \in Executors, Leave(e)
  PROVE  IInv'
  <1>0. PICK i \in Plans : \E k \in DOMAIN Steps[i] :
          /\ pc[e] = <<i, k>>
          /\ \E place \in Onward(Max(Steps[i][k].edits) + 1) : Goes(e, place)
    BY DEF Leave
  <1>1. PICK k \in DOMAIN Steps[i] :
          /\ pc[e] = <<i, k>>
          /\ \E place \in Onward(Max(Steps[i][k].edits) + 1) : Goes(e, place)
    BY <1>0
  <1>2. PICK m : m = Max(Steps[i][k].edits)
    OBVIOUS
  <1>3. PICK place \in Source(Entries[generation] \cup (Units \cap {m + 1})) \cup {Out} :
          Goes(e, place)
    BY <1>1, <1>2 DEF Onward
  <1>4. m \in Steps[i][k].edits /\ m + 1 \notin Steps[i][k].edits /\ m \in Units
    BY <1>2, LastFacts, StepFacts
  <1>5. <<i, k>> \in Image(i) /\ m \in Touched(i) /\ m \in Reads(i)
    BY <1>4, PlanFacts
  <1>6. Installed(i) /\ AllOwned(i)
    BY <1>1, <1>5 DEF IInv, ExecInv, InstalledInv
  <1>7. ~trap[e]
    <2>1. \A w : pc[e] # Src(w)
      BY <1>1, <1>5, Distinct
    <2> QED BY <2>1 DEF IInv, ExecInv
  <1>8. ASSUME NEW j \in Plans, m + 1 \in Units, Installed(j), Marker(j, m + 1)
        PROVE  FALSE
    <2>1. /\ (m + 1) - 1 = m /\ (m + 1) - 1 \in Touched(j)
          /\ \A l \in DOMAIN Steps[j] :
               m + 1 \in Steps[j][l].edits <=> (m + 1) - 1 \in Steps[j][l].edits
      BY <1>4, <1>8, MarkerFacts DEF Units
    <2>2. m \in Reads(j) /\ AllOwned(j)
      BY <1>8, <2>1, PlanFacts DEF IInv, InstalledInv
    <2>3. i = j
      BY <1>5, <1>6, <2>2, OwnersApart
    <2>4. m + 1 \in Steps[i][k].edits
      BY <1>4, <2>1, <2>3
    <2> QED BY <1>4, <2>4
  <1> QED BY <1>3, <1>7, <1>8, OnwardKeeps
-----------------------------------------------------------------------------
(* The invariant.                                                          *)

\* Nothing is installed, held or owned at the start.
LEMMA InitKeeps ==
  ASSUME Init
  PROVE  IInv
  <1>1. \A i \in Plans : i # "none" /\ i # "probe"
    BY PlanFacts
  <1>2. TypeOK
    <2>1. 0 \in 0 .. Len(Entries) /\ 1 \in Generations
      BY PlanAssumption DEF Generations
    <2>2. NoCall \in [step: Stages, plan: PlanOrNone, gen: 0 .. Len(Entries), k: Nat]
      BY <2>1 DEF NoCall, Stages, PlanOrNone
    <2>3. Free \in [held: Scopes \cup {{}}, identity: 0 .. Len(Entries),
                    poisoned: BOOLEAN]
      BY <2>1 DEF Free
    <2>4. code \in [Units -> Bytes] /\ view \in [Executors -> [Units -> Bytes]]
      BY DEF Init, Bytes
    <2> QED BY <2>1, <2>2, <2>3, <2>4 DEF Init, TypeOK, PlanOrNone
  <1>3. LeaseInv /\ SignalInv /\ ProbeInv
    BY DEF Init, LeaseInv, Free, SignalInv, Active, ProbeInv
  <1>4. \A p \in Publishers : CallInv(p)
    BY DEF Init, CallInv, HoldsInv, PhaseInv, NoCall, PreWrite
  <1>5. \A i \in Plans : ~Installed(i)
    BY DEF Init, Installed
  <1>6. \A i \in Plans : InstalledInv(i) /\ AbsentInv(i)
    BY <1>1, <1>5 DEF Init, InstalledInv, AbsentInv
  <1>7. \A u \in Units : CodeInv(u)
    <2>1. \A i \in Plans : \A k \in DOMAIN Steps[i] : <<i, k>> # Orig
      BY PlanFacts, Distinct
    <2> QED BY <2>1 DEF Init, CodeInv
  <1>8. \A e \in Executors : \A u \in Units : ViewInv(e, u)
    BY DEF Init, ViewInv
  <1>9. ASSUME NEW e \in Executors PROVE ExecInv(e)
    <2>1. pc[e] = Out /\ ~trap[e] /\ Held = {} /\ Out # Lost
      BY DEF Init, Held, Free, Out, Lost
    <2>2. \A i \in Plans : Out \notin Image(i)
      BY Distinct
    <2> QED BY <1>5, <2>1, <2>2 DEF ExecInv
  <1> QED BY <1>2, <1>3, <1>4, <1>6, <1>7, <1>8, <1>9 DEF IInv

\* Nothing changes.
LEMMA StutterKeeps ==
  ASSUME IInv, UNCHANGED vars
  PROVE  IInv'
  <1> USE DEF vars, bytes, assets, calls, signal, env, execs
  <1>1. TypeOK'
    BY DEF IInv, TypeOK
  <1>2. SignalInv' /\ ProbeInv'
    BY DEF IInv, SignalInv, Active, Verified, ProbeInv
  <1>3. \A j \in Plans : Installed(j)' <=> Installed(j)
    BY DEF Installed
  <1>4. /\ \A u \in Units : CodeInv(u)'
        /\ \A e \in Executors : ExecInv(e)' /\ \A u \in Units : ViewInv(e, u)'
    BY <1>3, SceneryKept
  <1> QED BY <1>1, <1>2, <1>4, EnvStep

\* One step of a call.
LEMMA PublicationKeeps ==
  ASSUME IInv, NEW p \in Publishers, Publication(p)
  PROVE  IInv'
  <1>1. CASE (\E S \in Scopes : AcquireLease(p, S)) \/ ReleaseLease(p)
    BY <1>1, AcquireKeeps, ReleaseKeeps
  <1>2. CASE \E i \in Plans, g \in Generations : Publish(p, i, g)
    BY <1>2, PublishKeeps
  <1>3. CASE Reserve(p) \/ Stage(p) \/ Prepare(p) \/ Route(p) \/ Commit(p)
    BY <1>3, ReserveKeeps, StageKeeps, PrepareKeeps, RouteKeeps, CommitKeeps
  <1>4. CASE Refused(p)
    BY <1>4, AbandonKeeps DEF Refused
  <1>5. CASE Write(p) \/ Complete(p) \/ KeepGated(p)
    BY <1>5, WriteKeeps, CompleteKeeps, KeepGatedKeeps
  <1>6. CASE \E i \in Plans : Retire(p, i)
    BY <1>6, RetireKeeps
  <1>7. CASE Restore(p) \/ Retired(p) \/ RetireFails(p)
    BY <1>7, RestoreKeeps, RetiredKeeps, RetireFailsKeeps
  <1> QED BY <1>1, <1>2, <1>3, <1>4, <1>5, <1>6, <1>7 DEF Publication

\* The invariant holds in every state: whatever publishers, executors, the
\* probe and the application do, and in whatever order they do it.
THEOREM Invariant == Spec => []IInv
<1>1. IInv /\ [Next]_vars => IInv'
  <2> SUFFICES ASSUME IInv, [Next]_vars PROVE IInv'
    OBVIOUS
  <2>1. ASSUME NEW p \in Publishers, Publication(p) PROVE IInv'
    BY <2>1, PublicationKeeps
  <2>2. CASE \/ \E i \in Plans : DropHandle(i)
             \/ ProbeReserve \/ ProbeRefused \/ ProbeCommit \/ ProbeToggle
             \/ Foreign \/ Remap
    BY <2>2, DropKeeps, ProbeKeeps, ForeignKeeps, RemapKeeps
  <2>3. ASSUME NEW e \in Executors, Execution(e) PROVE IInv'
    BY <2>3, EnterKeeps, RunKeeps, FaultKeeps, LeaveKeeps, FetchKeeps DEF Execution
  <2>4. CASE UNCHANGED vars
    BY <2>4, StutterKeeps
  <2> QED BY <2>1, <2>2, <2>3, <2>4 DEF Next
<1>2. Init => IInv
  BY InitKeeps
<1> QED
  BY <1>1, <1>2, PTL DEF Spec

-----------------------------------------------------------------------------
(* What follows.                                                           *)

\* What is owned, written and mapped agree: as long as one byte of a plan is
\* in the source, all of it is owned, mapped and routed and of this generation;
\* a publication that was refused has left nothing.
THEOREM Ownership == Spec => []OwnershipInv
<1>1. IInv => OwnershipInv
  <2> SUFFICES ASSUME IInv PROVE OwnershipInv
    OBVIOUS
  <2>1. \A i \in Plans : \A u \in Units : code[u] \in Image(i) => Installed(i)
    BY DEF IInv, CodeInv, Image
  <2>2. OwnedWhileWritten
    BY <2>1 DEF IInv, InstalledInv, AllOwned, Installed, OwnedWhileWritten
  <2>3. CurrentIdentity
    BY <2>1 DEF IInv, InstalledInv, CurrentIdentity
  <2>4. ASSUME NEW i \in Plans, handle[i] = "absent", ~Busy(i)
        PROVE  /\ \A u \in Units : owner[u] # i /\ code[u] \notin Image(i)
               /\ image[i] = "none" /\ batch[i] = "off"
    <3>1. AbsentInv(i) /\ \A S : ~\E p \in Publishers : At(p, i, S)
      BY <2>4 DEF IInv, At, Busy
    <3>2. image[i] = "none" /\ ~Installed(i)
      BY <2>4, <3>1 DEF IInv, TypeOK, AbsentInv, Installed
    <3>3. batch[i] = "off"
      BY <3>1, <3>2 DEF IInv, TypeOK, AbsentInv
    <3> QED BY <2>1, <2>4, <3>1, <3>2, <3>3 DEF AbsentInv
  <2>5. RefusalLeavesNothing
    BY <2>4 DEF RefusalLeavesNothing
  <2> QED BY <2>2, <2>3, <2>5 DEF IInv, OwnershipInv
<1> QED
  BY <1>1, Invariant, PTL

\* No thread is killed by a marker nobody routes, or run off the heads.
THEOREM NoneLost == Spec => []NoLostThread
<1>1. IInv => NoLostThread
  BY DEF IInv, ExecInv, NoLostThread
<1> QED
  BY <1>1, Invariant, PTL

\* Once the lease of a published plan is gone, its final bytes are in memory
\* and in every thread's view until it is retired.
THEOREM Visible == Spec => []ReceiptIsVisible
<1>1. IInv => ReceiptIsVisible
  <2> SUFFICES ASSUME IInv, NEW i \in receipts, Source(Reads(i)) \cap Held = {},
                      NEW u \in Touched(i)
               PROVE  /\ code[u] = Final(i, u)
                      /\ \A e \in Executors : view[e][u] = Final(i, u)
    BY DEF ReceiptIsVisible
  <2>1. i \in Plans /\ Installed(i)
    BY DEF IInv, TypeOK, AbsentInv
  <2>2. /\ u \in Reads(i) /\ u \in Units
        /\ Source(Reads(i)) # {} /\ Src(u) \in Source(Reads(i))
    BY <2>1, PlanFacts DEF Source
  <2>3. ~Broken(i)
    BY <2>2 DEF Broken, Held
  <2>4. code[u] = Final(i, u)
    BY <2>1, <2>2, <2>3 DEF IInv, InstalledInv, Shows, Final
  <2>5. Final(i, u) \notin {Orig, Probed}
    BY <2>1, EndsOfOverlay, Distinct
  <2>6. ~Shut(u)
    BY <2>2 DEF Shut, Held
  <2>7. \A e \in Executors : view[e][u] = code[u]
    BY <2>2, <2>4, <2>5, <2>6 DEF IInv, ViewInv
  <2> QED BY <2>4, <2>7
<1> QED
  BY <1>1, Invariant, PTL

\* Retirement leaves no byte, fetched byte, route or thread of the plan.
THEOREM Gone == Spec => []RetiredIsGone
<1>1. IInv => RetiredIsGone
  <2> SUFFICES ASSUME IInv, NEW i \in Plans, handle[i] = "retired"
               PROVE  /\ \A u \in Units : /\ code[u] \notin Image(i)
                                          /\ owner[u] = i => Busy(i)
                      /\ \A e \in Executors : \A u \in Units : view[e][u] \notin Image(i)
                      /\ \A e \in Executors : pc[e] \notin Image(i)
                      /\ batch[i] = "off"
    BY DEF RetiredIsGone
  <2>1. ~Installed(i) /\ AbsentInv(i) /\ TypeOK
    BY DEF Installed, IInv
  <2>2. \A u \in Units : code[u] \notin Image(i) /\ (owner[u] = i => Busy(i))
    BY <2>1 DEF IInv, CodeInv, Image, AbsentInv
  <2>3. ASSUME NEW e \in Executors, NEW u \in Units PROVE view[e][u] \notin Image(i)
    <3>1. Orig \notin Image(i) /\ Probed \notin Image(i)
      BY Distinct
    <3> QED BY <2>1, <2>2, <3>1 DEF IInv, ViewInv
  <2>4. \A e \in Executors : pc[e] \notin Image(i)
    BY <2>1 DEF IInv, ExecInv
  <2>5. batch[i] # "staged"
    <3>1. SUFFICES ASSUME batch[i] = "staged" PROVE FALSE
      OBVIOUS
    <3>2. PICK p \in Publishers : pub[p].plan = i /\ pub[p].step = "commit"
      BY <2>1, <3>1 DEF AbsentInv, At
    <3> QED BY <3>2, CallFacts DEF PhaseInv
  <2>6. batch[i] = "off"
    BY <2>1, <2>5 DEF AbsentInv, TypeOK
  <2> QED BY <2>2, <2>3, <2>4, <2>6
<1> QED
  BY <1>1, Invariant, PTL
\* The call of a publisher touches no other lease and call, and writes only
\* what its lease holds; it leaves a poisoned lease alone once it is over.
LEMMA CallStays ==
  ASSUME IInv, NEW q \in Publishers, Publication(q)
  PROVE  /\ \A p \in Publishers : p # q => lease'[p] = lease[p] /\ pub'[p] = pub[p]
         /\ lease[q].poisoned => pub[q] # NoCall
         /\ \A u \in Units : code'[u] # code[u] => Src(u) \in lease[q].held
  <1> DEFINE Others == \A p \in Publishers :
                         p # q => lease'[p] = lease[p] /\ pub'[p] = pub[p]
             Own == lease[q].poisoned => pub[q] # NoCall
             Inside == \A u \in Units : code'[u] # code[u] => Src(u) \in lease[q].held
  <1>0. TypeOK /\ NoCall.step = "idle" /\ ~Free.poisoned
    BY DEF IInv, NoCall, Free
  <1>1. CASE (\E S \in Scopes : AcquireLease(q, S)) \/ ReleaseLease(q)
    <2>1. Others
      BY <1>0, <1>1 DEF AcquireLease, ReleaseLease, TypeOK
    <2>2. Own
      BY <1>0, <1>1 DEF AcquireLease, ReleaseLease
    <2>3. Inside
      BY <1>1 DEF AcquireLease, ReleaseLease, bytes
    <2> QED BY <2>1, <2>2, <2>3
  <1>2. CASE \E i \in Plans, g \in Generations : Publish(q, i, g)
    <2>1. Others
      BY <1>0, <1>2 DEF Publish, TypeOK
    <2>2. Own
      BY <1>2 DEF Publish, Covers
    <2>3. Inside
      BY <1>2 DEF Publish, bytes
    <2> QED BY <2>1, <2>2, <2>3
  <1>3. CASE Reserve(q) \/ Stage(q) \/ Prepare(q) \/ Route(q) \/ Commit(q) \/ Refused(q)
    <2>1. Others
      BY <1>0, <1>3 DEF Reserve, Stage, Prepare, Route, Commit, Refused, Abandon, Goto,
         TypeOK
    <2>2. Own
      BY <1>0, <1>3 DEF Reserve, Stage, Prepare, Route, Commit, Refused, PreWrite
    <2>3. Inside
      BY <1>3 DEF Reserve, Stage, Prepare, Route, Commit, Refused, Abandon, bytes
    <2> QED BY <2>1, <2>2, <2>3
  <1>4. CASE Complete(q) \/ KeepGated(q) \/ Retired(q) \/ RetireFails(q)
    <2>1. Others
      BY <1>0, <1>4 DEF Complete, KeepGated, Retired, RetireFails, TypeOK
    <2>2. Own
      BY <1>0, <1>4 DEF Complete, KeepGated, Retired, RetireFails
    <2>3. Inside
      BY <1>4 DEF Complete, KeepGated, Retired, RetireFails, bytes
    <2> QED BY <2>1, <2>2, <2>3
  <1>5. CASE \E i \in Plans : Retire(q, i)
    <2>1. Others
      BY <1>0, <1>5 DEF Retire, TypeOK
    <2>2. Own
      BY <1>5 DEF Retire, Covers
    <2>3. Inside
      BY <1>5 DEF Retire, bytes
    <2> QED BY <2>1, <2>2, <2>3
  <1>6. CASE Write(q) \/ Restore(q)
    <2>1. Others
      BY <1>0, <1>6 DEF Write, Restore, Goto, TypeOK
    <2>2. Own
      BY <1>0, <1>6 DEF Write, Restore
    <2>3. PICK i \in Plans : i = pub[q].plan
      BY <1>6, CallFacts DEF Write, Restore
    <2>4. Source(Reads(i)) \subseteq lease[q].held
      BY <1>6, <2>3, CallFacts DEF Write, Restore
    <2>5. pub[q].k \in DOMAIN Steps[i] /\ Undone(i, pub[q].k) \in DOMAIN Steps[i]
      <3>1. pub[q].k \in DOMAIN Steps[i]
        BY <1>6, <2>3, CallFacts DEF Write, Restore, PhaseInv
      <3> QED BY <3>1, StepFacts, SMTT(30) DEF Undone
    <2>6. \A u \in Units : code'[u] # code[u] => u \in Reads(i)
      BY <1>6, <2>3, <2>5, PlanFacts DEF Write, Restore
    <2>7. Inside
      BY <2>4, <2>6 DEF Source
    <2> QED BY <2>1, <2>2, <2>7
  <1> QED BY <1>1, <1>2, <1>3, <1>4, <1>5, <1>6 DEF Publication

\* A failure after the first store shuts the gate for good: no later call
\* clears the poison of its lease or writes behind it.
THEOREM PoisonStays == Spec => PoisonIsFinal
<1> DEFINE Untouched ==
      \A p \in Publishers :
        lease[p].poisoned /\ pub[p] = NoCall =>
          /\ lease'[p] = lease[p] /\ pub'[p] = NoCall
          /\ \A u \in Units : Src(u) \in lease[p].held /\ owner[u] \in Plans
                               => code'[u] = code[u]
<1>1. IInv /\ [Next]_vars => [Untouched]_vars
  <2> SUFFICES ASSUME IInv, Next, NEW p \in Publishers,
                      lease[p].poisoned, pub[p] = NoCall
               PROVE  /\ lease'[p] = lease[p] /\ pub'[p] = NoCall
                      /\ \A u \in Units : Src(u) \in lease[p].held /\ owner[u] \in Plans
                                           => code'[u] = code[u]
    OBVIOUS
  <2>1. ASSUME NEW q \in Publishers, Publication(q)
        PROVE  /\ lease'[p] = lease[p] /\ pub'[p] = NoCall
               /\ \A u \in Units : Src(u) \in lease[p].held => code'[u] = code[u]
    <3>1. p # q /\ lease[p].held \cap lease[q].held = {}
      BY <2>1, CallStays DEF IInv, LeaseInv
    <3> QED BY <2>1, <3>1, CallStays
  <2>2. CASE \/ \E i \in Plans : DropHandle(i)
             \/ ProbeReserve \/ ProbeRefused \/ ProbeCommit
    BY <2>2 DEF DropHandle, ProbeReserve, ProbeRefused, ProbeCommit, bytes, calls
  <2>3. CASE ProbeToggle
    <3>1. \A u \in ProbeUnits : owner[u] \notin Plans
      BY <2>3, PlanFacts DEF IInv, ProbeInv, ProbeToggle
    <3>2. \A u \in Units : code'[u] # code[u] => u \in ProbeUnits
      BY <2>3 DEF ProbeToggle
    <3> QED BY <2>3, <3>1, <3>2 DEF ProbeToggle, calls
  <2>4. CASE Foreign \/ Remap
    BY <2>4, SMTT(30) DEF Foreign, Remap, bytes, calls
  <2>5. ASSUME NEW e \in Executors, Execution(e)
        PROVE  code' = code /\ lease' = lease /\ pub' = pub
    BY <2>5 DEF Execution, Enter, Run, Fault, Leave, Fetch, Goes, bytes, calls
  <2> QED BY <2>1, <2>2, <2>3, <2>4, <2>5 DEF Next
<1> QED
  BY <1>1, Invariant, PTL DEF Spec, PoisonIsFinal

-----------------------------------------------------------------------------
(* Hooks come and go atomically.                                           *)

\* What the abstract specification says of a plan's instructions.
LEMMA HookFacts ==
  ASSUME NEW i \in Plans
  PROVE  /\ Hooks!Displaced(i) = Touched(i)
         /\ Hooks!Generated(i) \subseteq Image(i)
  <1>1. Hooks!Displaced(i) = Touched(i)
    BY DEF Hooks!Displaced
  <1>2. Hooks!Generated(i) \subseteq Image(i)
    BY EndsOfOverlay DEF Hooks!Generated, Hooks!Displaced
  <1> QED BY <1>1, <1>2

\* A thread at an instruction of a plan with a receipt, or elsewhere.
LEMMA ReceiptFacts ==
  ASSUME IInv
  PROVE  /\ receipts \subseteq Plans
         /\ \A i \in receipts : Installed(i)
         /\ \A e \in Executors : \A i \in Plans : \A u \in Touched(i) :
              pc[e] = Src(u) /\ Installed(i) => i \in receipts
  <1>1. receipts \subseteq Plans /\ \A i \in receipts : Installed(i)
    BY DEF IInv, TypeOK, AbsentInv
  <1>2. ASSUME NEW e \in Executors, NEW i \in Plans, NEW u \in Touched(i),
               pc[e] = Src(u), Installed(i)
        PROVE  i \in receipts
    <2>1. u \in Reads(i) /\ u \in Units
      BY PlanFacts
    <2> QED BY <1>2, <2>1, AtSource
  <1> QED BY <1>1, <1>2

\* The step that hooks is the receipt.
LEMMA CompleteHooks ==
  ASSUME IInv, NEW p \in Publishers, Complete(p)
  PROVE  \E i \in Plans : Hooks!Hook(i)
  <1>1. PICK i \in Plans : i = pub[p].plan
    BY CallFacts DEF Complete
  <1>2. i \notin receipts /\ Source(Reads(i)) \subseteq lease[p].held
    BY <1>1, CallFacts DEF Complete, PhaseInv
  <1>3. \A e \in Executors : \A u \in Touched(i) : pc[e] # Src(u)
    BY <1>2, PlanFacts DEF IInv, ExecInv, Held, Source
  <1>4. receipts' = receipts \cup {i} /\ pc' = pc
    BY <1>1 DEF Complete, execs
  <1> QED BY <1>2, <1>3, <1>4, HookFacts DEF Hooks!Hook, Hooks!Instruction, Src

\* The step that unhooks is the end of retirement.
LEMMA RetiredUnhooks ==
  ASSUME IInv, NEW p \in Publishers, Retired(p)
  PROVE  \E i \in Plans : Hooks!Unhook(i)
  <1>1. PICK i \in Plans : i = pub[p].plan
    BY CallFacts DEF Retired
  <1>2. /\ handle[i] = "active" /\ Source(Reads(i)) \subseteq lease[p].held
        /\ Image(i) \subseteq lease[p].held
    BY <1>1, CallFacts DEF Retired, PhaseInv
  <1>3. i \in receipts
    BY <1>2 DEF IInv, AbsentInv
  <1>4. \A e \in Executors : /\ pc[e] \notin Image(i)
                             /\ \A u \in Touched(i) : pc[e] # Src(u)
    BY <1>2, PlanFacts DEF IInv, ExecInv, Held, Source
  <1>5. receipts' = receipts \ {i} /\ pc' = pc
    BY <1>1 DEF Retired, execs
  <1>6. \A e \in Executors :
          pc[e] \notin Hooks!Generated(i)
                         \cup {Hooks!Instruction(u) : u \in Hooks!Displaced(i)}
    BY <1>4, HookFacts DEF Hooks!Instruction, Src
  <1> QED BY <1>3, <1>5, <1>6 DEF Hooks!Unhook

\* Where no plan is in force a thread goes on to an original place.
LEMMA OnwardIsOriginal ==
  ASSUME IInv, NEW e \in Executors, NEW w, NEW place \in Onward(w), Goes(e, place),
         \A i \in Plans : Installed(i) => \A u \in Touched(i) : pc[e] # Src(u)
  PROVE  Hooks!Uninstrumented(e) /\ UNCHANGED receipts
  <1>1. Entries[generation] \subseteq Units
    BY EntryFacts DEF IInv
  <1>2. place \in Hooks!Original
    BY <1>1 DEF Onward, Source, Units, Hooks!Original, Hooks!Instruction, Hooks!Outside,
       Src, Out
  <1>3. \A i \in receipts : \A u \in Hooks!Displaced(i) : pc[e] # Hooks!Instruction(u)
    BY ReceiptFacts, HookFacts DEF Hooks!Instruction, Src
  <1>4. pc' = [pc EXCEPT ![e] = place] /\ UNCHANGED receipts
    BY DEF Goes, assets
  <1> QED BY <1>2, <1>3, <1>4 DEF Hooks!Uninstrumented

\* A jump or a routed fault goes to the generated code of the plan in force.
LEMMA JumpIsIntercepted ==
  ASSUME IInv, NEW e \in Executors, NEW i \in Plans, NEW u \in Touched(i),
         Installed(i), pc[e] = Src(u),
         pc' = [pc EXCEPT ![e] = Final(i, u)], UNCHANGED assets
  PROVE  Hooks!Intercepted(e) /\ UNCHANGED receipts
  <1>1. i \in receipts /\ u \in Hooks!Displaced(i)
    BY ReceiptFacts, HookFacts
  <1>2. pc[e] = Hooks!Instruction(u)
    BY DEF Hooks!Instruction, Src
  <1>3. pc' = [pc EXCEPT
          ![e] = [j \in Plans |-> [w \in Touched(j) |-> Final(j, w)]][i][u]]
    OBVIOUS
  <1> QED BY <1>1, <1>2, <1>3 DEF Hooks!Intercepted, assets

\* Whatever an executor does is a step of the abstract thread, or none.
LEMMA ExecutionMaps ==
  ASSUME IInv, NEW e \in Executors, Execution(e)
  PROVE  \/ (Hooks!Intercepted(e) \/ Hooks!Uninstrumented(e)) /\ UNCHANGED receipts
         \/ UNCHANGED <<receipts, pc>>
  <1>1. CASE Enter(e)
    <2>1. PICK u \in Entries[generation] : Goes(e, Src(u))
      BY <1>1 DEF Enter
    <2>2. Src(u) \in Onward(0)
      BY DEF Onward, Source
    <2>3. \A u1 : pc[e] # Src(u1)
      BY <1>1 DEF Enter, Src, Out
    <2> QED BY <2>1, <2>2, <2>3, OnwardIsOriginal
  <1>2. CASE Run(e)
    <2>1. PICK u \in Units :
            /\ pc[e] = Src(u) /\ ~trap[e]
            /\ \/ /\ \A i \in Plans : Installed(i) => u \notin Touched(i)
                  /\ \E place \in Onward(u + 1) : Goes(e, place)
               \/ \E i \in Plans : /\ Installed(i) /\ u \in Touched(i)
                                   /\ Goes(e, Final(i, u))
               \/ /\ \E i \in Plans : Installed(i) /\ Marker(i, u)
                  /\ trap' = [trap EXCEPT ![e] = TRUE]
                  /\ UNCHANGED <<bytes, assets, calls, signal, env, pc>>
      BY <1>2, RunWays
    <2>2. ASSUME \A i \in Plans : Installed(i) => u \notin Touched(i),
                 NEW place \in Onward(u + 1), Goes(e, place)
          PROVE  Hooks!Uninstrumented(e) /\ UNCHANGED receipts
      <3>1. \A i \in Plans : Installed(i) => \A w \in Touched(i) : pc[e] # Src(w)
        BY <2>1, <2>2 DEF Src
      <3> QED BY <2>2, <3>1, OnwardIsOriginal
    <2>3. ASSUME NEW i \in Plans, Installed(i), u \in Touched(i), Goes(e, Final(i, u))
          PROVE  Hooks!Intercepted(e) /\ UNCHANGED receipts
      <3>1. pc' = [pc EXCEPT ![e] = Final(i, u)] /\ UNCHANGED assets
        BY <2>3 DEF Goes
      <3> QED BY <2>1, <2>3, <3>1, JumpIsIntercepted
    <2>4. CASE UNCHANGED <<bytes, assets, calls, signal, env, pc>>
      BY <2>4 DEF assets
    <2> QED BY <2>1, <2>2, <2>3, <2>4
  <1>3. CASE Fault(e)
    <2>1. PICK i \in Plans : \E u \in Touched(i) :
            /\ Installed(i) /\ pc[e] = Src(u)
            /\ pc' = [pc EXCEPT ![e] = Final(i, u)]
            /\ UNCHANGED <<bytes, assets, calls, signal, env>>
      BY <1>3, FaultGoes
    <2> QED BY <2>1, JumpIsIntercepted
  <1>4. CASE Leave(e)
    <2>1. PICK i \in Plans : \E k \in DOMAIN Steps[i] :
            /\ pc[e] = <<i, k>>
            /\ \E place \in Onward(Max(Steps[i][k].edits) + 1) : Goes(e, place)
      BY <1>4 DEF Leave
    <2>2. \A u : pc[e] # Src(u)
      BY <2>1, PlanFacts, Distinct
    <2> QED BY <2>1, <2>2, OnwardIsOriginal
  <1>5. CASE \E u \in Units : Fetch(e, u)
    BY <1>5 DEF Fetch, assets, execs
  <1> QED BY <1>1, <1>2, <1>3, <1>4, <1>5 DEF Execution

\* To the program's threads an installation is atomic: a plan is in force from
\* its receipt to its retirement, and while it is, and only then, each of its
\* instructions leads to its generated code, from whatever entry.
THEOREM Refinement == Spec => RunsHooksAtomically
<1>1. Init => Hooks!AInit
  BY DEF Init, Hooks!AInit, Hooks!Outside, Out
<1>2. IInv /\ [Next]_vars => [Hooks!ANext]_(Hooks!avars)
  <2> SUFFICES ASSUME IInv, [Next]_vars PROVE Hooks!ANext \/ UNCHANGED <<receipts, pc>>
    BY DEF Hooks!avars
  <2>1. ASSUME NEW p \in Publishers, Publication(p)
        PROVE  Hooks!ANext \/ UNCHANGED <<receipts, pc>>
    <3>1. CASE Complete(p)
      BY <3>1, CompleteHooks DEF Hooks!ANext
    <3>2. CASE Retired(p)
      BY <3>2, RetiredUnhooks, SMTT(30) DEF Hooks!ANext
    <3>3. CASE ~Complete(p) /\ ~Retired(p)
      BY <2>1, <3>3 DEF Publication, AcquireLease, ReleaseLease, Publish, Reserve, Stage,
         Prepare, Route, Commit, Refused, Abandon, Write, KeepGated, Retire, Restore,
         RetireFails, assets, execs
    <3> QED BY <3>1, <3>2, <3>3
  <2>2. CASE \/ \E i \in Plans : DropHandle(i)
             \/ ProbeReserve \/ ProbeRefused \/ ProbeCommit \/ ProbeToggle
             \/ Foreign \/ Remap
    BY <2>2 DEF DropHandle, ProbeReserve, ProbeRefused, ProbeCommit, ProbeToggle, Foreign,
       Remap, assets, execs
  <2>3. ASSUME NEW e \in Executors, Execution(e)
        PROVE  Hooks!ANext \/ UNCHANGED <<receipts, pc>>
    BY <2>3, ExecutionMaps DEF Hooks!ANext
  <2>4. CASE UNCHANGED vars
    BY <2>4 DEF vars, assets, execs
  <2> QED BY <2>1, <2>2, <2>3, <2>4 DEF Next
<1> QED
  BY <1>1, <1>2, Invariant, PTL DEF Spec, RunsHooksAtomically, Hooks!Spec

-----------------------------------------------------------------------------
(* Installations as clients of the registry.                               *)

\* The probe's opcode is only where an installed probe is, and the probe owns
\* nothing but its instruction.
ProbedInv == \A u \in Units :
  /\ code[u] = Probed => probe = "installed" /\ u \in ProbeUnits
  /\ owner[u] = "probe" => u \in ProbeUnits

Claimant == Plans \cup {"probe"}

\* What publishers store is original or a plan's.
LEMMA OverlayIsNotProbed ==
  ASSUME NEW i \in Plans, NEW k \in 0 .. Len(Steps[i]), NEW u
  PROVE  Overlay(i, k, u) # Probed
  <1>1. i # "probe"
    BY PlanFacts
  <1>2. CASE u \in Touched(i)
    <2>1. PICK l \in DOMAIN Steps[i] : u \in Steps[i][l].edits
      BY <1>2 DEF Touched
    <2>2. Overlay(i, k, u) = IF l <= k THEN <<i, l>> ELSE Orig
      BY <2>1, OverlayFacts
    <2> QED BY <1>1, <2>2 DEF Orig, Probed
  <1>3. CASE u \notin Touched(i)
    BY <1>3, OverlayFacts DEF Orig, Probed
  <1> QED BY <1>2, <1>3

\* A publisher stores what its plan says, within what its plan owns.
LEMMA StoresOwned ==
  ASSUME IInv, NEW p \in Publishers, Write(p) \/ Restore(p)
  PROVE  /\ pub[p].plan \in Plans /\ owner' = owner /\ probe' = probe
         /\ \A u \in Units : code'[u] # code[u] =>
              owner[u] = pub[p].plan /\ code'[u] # Probed
  <1>1. pub[p].step \in Writing /\ pub[p].step # "idle"
    BY DEF Write, Restore, Writing
  <1>2. PICK i \in Plans : i = pub[p].plan
    BY <1>1, CallFacts
  <1>3. \A u \in Reads(i) : owner[u] = i
    BY <1>1, <1>2, WriterInstalled, OwnedReads
  <1>4. pub[p].k \in DOMAIN Steps[i] /\ Undone(i, pub[p].k) \in DOMAIN Steps[i]
    <2>1. pub[p].k \in DOMAIN Steps[i]
      BY <1>1, <1>2, CallFacts DEF Write, Restore, PhaseInv
    <2> QED BY <2>1, StepFacts, SMTT(30) DEF Undone
  <1>5. \A k \in DOMAIN Steps[i] : /\ k \in 0 .. Len(Steps[i])
                                   /\ k - 1 \in 0 .. Len(Steps[i])
                                   /\ Steps[i][k].span \subseteq Reads(i)
    BY StepFacts, OverlaySteps, PlanFacts
  <1>6. ASSUME NEW u \in Units, code'[u] # code[u]
        PROVE  u \in Reads(i) /\ code'[u] # Probed
    <2>1. ASSUME NEW m \in DOMAIN Steps[i], NEW k \in 0 .. Len(Steps[i]),
                 code' = [v \in Units |-> IF v \in Steps[i][m].span THEN Overlay(i, k, v)
                                                                ELSE code[v]]
          PROVE  u \in Reads(i) /\ code'[u] # Probed
      <3>1. u \in Steps[i][m].span /\ code'[u] = Overlay(i, k, u)
        BY <1>6, <2>1
      <3>2. Overlay(i, k, u) # Probed
        BY OverlayIsNotProbed
      <3> QED BY <1>5, <3>1, <3>2
    <2>2. CASE Write(p)
      BY <1>2, <1>4, <1>5, <2>1, <2>2 DEF Write
    <2>3. CASE Restore(p)
      BY <1>2, <1>4, <1>5, <2>1, <2>3 DEF Restore
    <2> QED BY <2>2, <2>3
  <1>7. owner' = owner /\ probe' = probe
    BY DEF Write, Restore, assets, env
  <1> QED BY <1>2, <1>3, <1>6, <1>7

\* The steps of a publisher that store nothing.
LEMMA CodeOfCall ==
  ASSUME NEW p \in Publishers, Publication(p), ~Write(p), ~Restore(p)
  PROVE  code' = code
  BY SMTT(30) DEF Publication, AcquireLease, ReleaseLease, Publish, Reserve, Stage,
     Prepare, Route, Commit, Refused, Abandon, Complete, KeepGated, Retire, Retired,
     RetireFails, bytes

LEMMA ProbeOfCall ==
  ASSUME NEW p \in Publishers, Publication(p)
  PROVE  probe' = probe
  BY DEF Publication, AcquireLease, ReleaseLease, Publish, Reserve, Stage, Prepare, Route,
     Commit, Refused, Abandon, Write, Complete, KeepGated, Retire, Restore, Retired,
     RetireFails, env

\* No call gives the probe a byte.
LEMMA CallKeepsProbe ==
  ASSUME IInv, NEW p \in Publishers, Publication(p)
  PROVE  \A u \in Units : owner'[u] = "probe" => owner[u] = "probe"
  <1>1. CASE Reserve(p)
    <2>1. pub[p].plan # "probe"
      BY <1>1, CallFacts, PlanFacts DEF Reserve
    <2> QED BY <1>1, <2>1 DEF Reserve, Abandon, Unreserved, assets
  <1>2. CASE Stage(p) \/ Refused(p) \/ Retired(p)
    BY <1>2, SMTT(30) DEF Stage, Refused, Retired, Abandon, Unreserved
  <1>3. CASE ~Reserve(p) /\ ~Stage(p) /\ ~Refused(p) /\ ~Retired(p)
    BY <1>3, SMTT(30) DEF Publication, AcquireLease, ReleaseLease, Publish, Prepare,
       Route, Commit, Write, Complete, KeepGated, Retire, Restore, RetireFails, assets
  <1> QED BY <1>1, <1>2, <1>3

LEMMA ExecutionIsElsewhere ==
  ASSUME NEW e \in Executors, Execution(e)
  PROVE  UNCHANGED <<code, owner, probe>>
  BY DEF Execution, Enter, Run, Fault, Leave, Fetch, Goes, bytes, assets, env

LEMMA ProbedStep ==
  ASSUME IInv, ProbedInv, [Next]_vars
  PROVE  ProbedInv'
  <1>1. ASSUME NEW p \in Publishers, Publication(p) PROVE ProbedInv'
    <2>1. probe' = probe
      BY <1>1, ProbeOfCall
    <2>2. \A u \in Units : owner'[u] = "probe" => owner[u] = "probe"
      BY <1>1, CallKeepsProbe
    <2>3. CASE Write(p) \/ Restore(p)
      BY <2>1, <2>2, <2>3, StoresOwned DEF ProbedInv
    <2>4. CASE ~Write(p) /\ ~Restore(p)
      BY <1>1, <2>1, <2>2, <2>4, CodeOfCall DEF ProbedInv
    <2> QED BY <2>3, <2>4
  <1>2. CASE (\E i \in Plans : DropHandle(i)) \/ Foreign \/ Remap
    <2>1. UNCHANGED <<code, owner, probe>>
      BY <1>2 DEF DropHandle, DroppedOwner, Foreign, Remap, bytes, assets, env
    <2> QED BY <2>1 DEF ProbedInv
  <1>3. CASE ProbeReserve \/ ProbeRefused \/ ProbeCommit
    <2>1. code' = code /\ (probe = "installed" => probe' = "installed")
      BY <1>3 DEF ProbeReserve, ProbeRefused, ProbeCommit, bytes
    <2>2. \A u \in Units : owner'[u] = "probe" => u \in ProbeUnits \/ owner[u] = "probe"
      BY <1>3 DEF ProbeReserve, ProbeRefused, ProbeCommit, assets
    <2> QED BY <2>1, <2>2 DEF ProbedInv
  <1>4. CASE ProbeToggle
    BY <1>4 DEF ProbeToggle, assets, env, ProbedInv
  <1>5. ASSUME NEW e \in Executors, Execution(e) PROVE ProbedInv'
    BY <1>5, ExecutionIsElsewhere DEF ProbedInv
  <1>6. CASE UNCHANGED vars
    BY <1>6 DEF vars, bytes, assets, env, ProbedInv
  <1> QED BY <1>1, <1>2, <1>3, <1>4, <1>5, <1>6 DEF Next

\* Owned bytes that are not original are those of an installed plan that reads
\* them, or of an installed probe.
LEMMA OwnedCode ==
  ASSUME IInv, ProbedInv, NEW u \in Units, code[u] # Orig
  PROVE  \/ owner[u] = "probe" /\ probe = "installed"
         \/ /\ owner[u] \in Plans /\ Installed(owner[u]) /\ u \in Reads(owner[u])
            /\ code[u] \in Image(owner[u])
  <1>1. CASE code[u] = Probed
    BY <1>1 DEF IInv, ProbeInv, ProbedInv
  <1>2. CASE code[u] # Probed
    <2>1. PICK i \in Plans : code[u] \in Image(i)
      BY <1>2 DEF IInv, TypeOK, Bytes
    <2>2. PICK k \in DOMAIN Steps[i] : code[u] = <<i, k>>
      BY <2>1 DEF Image
    <2>3. Installed(i) /\ u \in Reads(i)
      BY <2>2, PlanFacts DEF IInv, CodeInv
    <2>4. owner[u] = i
      BY <2>3, OwnedReads DEF IInv, InstalledInv
    <2> QED BY <2>1, <2>3, <2>4
  <1> QED BY <1>1, <1>2

\* Taking bytes that nobody owns.
LEMMA Takes ==
  ASSUME TypeOK, NEW c \in Claimant, NEW S, \A u \in Units \cap S : owner[u] = "none",
         owner' = [u \in Units |-> IF u \in S THEN c ELSE owner[u]], code' = code
  PROVE  Registry!Take(c) \/ UNCHANGED Registry!vars
  <1>1. "none" \notin Claimant
    BY PlanAssumption DEF Claimant
  <1>2. ASSUME NEW d \in Claimant \ {c}
        PROVE  claims'[d] = claims[d] /\ claims[d] \cap claims'[c] = {}
    BY <1>1, <1>2 DEF claims, Claimant
  <1>3. claims[c] \subseteq claims'[c]
    BY DEF claims, Claimant
  <1>4. claims' \in [Claimant -> SUBSET Units] /\ claims \in [Claimant -> SUBSET Units]
    BY DEF claims, Claimant
  <1>5. CASE claims'[c] = claims[c]
    <2>1. claims' = claims
      BY <1>2, <1>4, <1>5
    <2> QED BY <2>1 DEF Registry!vars
  <1>6. CASE claims'[c] # claims[c]
    BY <1>2, <1>3, <1>4, <1>6 DEF Registry!Take, Claimant
  <1> QED BY <1>5, <1>6

\* Giving them back.
LEMMA GivesBack ==
  ASSUME TypeOK, NEW c \in Claimant, \A u \in Units : owner[u] = c => code[u] = Orig,
         owner' = [u \in Units |-> IF owner[u] = c THEN "none" ELSE owner[u]],
         code' = code
  PROVE  Registry!GiveBack(c) \/ UNCHANGED Registry!vars
  <1>1. "none" \notin Claimant
    BY PlanAssumption DEF Claimant
  <1>2. \A d \in Claimant : claims'[d] = IF d = c THEN {} ELSE claims[d]
    BY <1>1 DEF claims, Claimant
  <1>3. claims' = [claims EXCEPT ![c] = {}]
    BY <1>2 DEF claims, Claimant
  <1>4. \A u \in claims[c] : code[u] = Orig
    BY DEF claims, Claimant
  <1>5. CASE claims[c] = {}
    <2>1. claims' = claims
      BY <1>2, <1>5 DEF claims, Claimant
    <2> QED BY <2>1 DEF Registry!vars
  <1>6. CASE claims[c] # {}
    BY <1>2, <1>3, <1>4, <1>6 DEF Registry!GiveBack, Claimant
  <1> QED BY <1>5, <1>6

\* Storing where one owns.
LEMMA Stores ==
  ASSUME TypeOK, TypeOK', NEW c \in Claimant, owner' = owner,
         \A u \in Units : code'[u] # code[u] => owner[u] = c
  PROVE  Registry!Write(c) \/ UNCHANGED Registry!vars
  <1>1. claims' = claims
    BY DEF claims
  <1>2. \A u \in Units \ claims[c] : code'[u] = code[u]
    BY DEF claims, Claimant
  <1> QED BY <1>1, <1>2 DEF Registry!Write, Registry!vars, TypeOK

\* The registry sees a call reserve lock by lock, store, and give all back when
\* it is refused or has retired its plan.
LEMMA PublicationClaims ==
  ASSUME IInv, IInv', ProbedInv, NEW p \in Publishers, Publication(p)
  PROVE  (\E c \in Claimant : Registry!Take(c) \/ Registry!GiveBack(c) \/ Registry!Write(c))
         \/ UNCHANGED Registry!vars
  <1> DEFINE i == pub[p].plan
             Step == (\E c \in Claimant : \/ Registry!Take(c) \/ Registry!GiveBack(c)
                                          \/ Registry!Write(c))
                     \/ UNCHANGED Registry!vars
  <1>0. TypeOK /\ TypeOK'
    BY DEF IInv
  <1>1. ASSUME UNCHANGED <<code, owner>> PROVE Step
    BY <1>1 DEF claims, Registry!vars
  <1>2. ASSUME Abandon(p), pub[p].step \in PreWrite PROVE Step
    <2>1. i \in Plans /\ ~Installed(i) /\ i \in Claimant /\ i # "probe"
      BY <1>2, EarlyCall, PlanFacts DEF Claimant
    <2>2. \A u \in Units : owner[u] = i => code[u] = Orig
      BY <2>1, OwnedCode
    <2>3. /\ code' = code
          /\ owner' = [u \in Units |-> IF owner[u] = i THEN "none" ELSE owner[u]]
      BY <1>2 DEF Abandon, Unreserved, bytes
    <2> HIDE DEF i
    <2> QED BY <1>0, <2>1, <2>2, <2>3, GivesBack
  <1>3. CASE Reserve(p)
    <2>1. i \in Plans /\ i \in Claimant /\ pub[p].step \in PreWrite
      BY <1>3, CallFacts DEF Reserve, PreWrite, Claimant
    <2>2. CASE Abandon(p)
      BY <1>2, <2>1, <2>2
    <2>3. CASE UNCHANGED <<bytes, assets>>
      BY <1>1, <2>3 DEF bytes, assets
    <2>4. CASE ~Abandon(p) /\ ~UNCHANGED <<bytes, assets>>
      <3> DEFINE S == Locks[i][pub[p].k]
      <3>1. /\ \A u \in S : owner[u] = "none" /\ code' = code
            /\ owner' = [u \in Units |-> IF u \in S THEN i ELSE owner[u]]
        BY <1>3, <2>4 DEF Reserve, bytes, assets
      <3>2. code' = code
        BY <1>3, <2>4 DEF Reserve, bytes, assets
      <3> HIDE DEF S, i
      <3> QED BY <1>0, <2>1, <3>1, <3>2, Takes
    <2> QED BY <2>2, <2>3, <2>4
  <1>4. CASE Stage(p) \/ Refused(p)
    <2>1. CASE Abandon(p)
      BY <1>2, <1>4, <2>1 DEF Stage, Refused, PreWrite
    <2>2. CASE ~Abandon(p)
      BY <1>1, <1>4, <2>2 DEF Stage, Refused, bytes
    <2> QED BY <2>1, <2>2
  <1>5. CASE Retired(p)
    <2>1. /\ i \in Plans /\ i \in Claimant /\ i # "probe"
          /\ \A u \in Reads(i) : code[u] = Orig
      <3>1. i \in Plans /\ Shows(i, 0)
        BY <1>5, CallFacts DEF Retired, PhaseInv
      <3> QED BY <3>1, EndsOfOverlay, PlanFacts DEF Shows, Claimant
    <2>2. \A u \in Units : owner[u] = i => code[u] = Orig
      BY <2>1, OwnedCode
    <2>3. /\ code' = code
          /\ owner' = [u \in Units |-> IF owner[u] = i THEN "none" ELSE owner[u]]
      BY <1>5 DEF Retired, Unreserved
    <2> HIDE DEF i
    <2> QED BY <1>0, <2>1, <2>2, <2>3, GivesBack
  <1>6. CASE Write(p) \/ Restore(p)
    <2>1. i \in Claimant /\ owner' = owner
          /\ \A u \in Units : code'[u] # code[u] => owner[u] = i
      BY <1>6, StoresOwned DEF Claimant
    <2> HIDE DEF i
    <2> QED BY <1>0, <2>1, Stores
  <1>7. CASE \/ \E S \in Scopes : AcquireLease(p, S)
             \/ ReleaseLease(p)
             \/ \E j \in Plans, g \in Generations : Publish(p, j, g)
             \/ Prepare(p) \/ Route(p) \/ Commit(p) \/ Complete(p) \/ KeepGated(p)
             \/ \E j \in Plans : Retire(p, j)
             \/ RetireFails(p)
    <2>1. UNCHANGED <<code, owner>>
      BY <1>7 DEF AcquireLease, ReleaseLease, Publish, Prepare, Route, Commit, Complete,
         KeepGated, Retire, RetireFails, bytes, assets
    <2> QED BY <1>1, <2>1
  <1> QED BY <1>3, <1>4, <1>5, <1>6, <1>7 DEF Publication

\* The probe's steps, which need no lease.
LEMMA ProbeClaims ==
  ASSUME IInv, IInv', ProbedInv, ProbeReserve \/ ProbeRefused \/ ProbeCommit \/ ProbeToggle
  PROVE  (\E c \in Claimant : Registry!Take(c) \/ Registry!GiveBack(c) \/ Registry!Write(c))
         \/ UNCHANGED Registry!vars
  <1>0. TypeOK /\ TypeOK' /\ "probe" \in Claimant /\ "probe" \notin Plans
    BY PlanAssumption DEF IInv, Claimant
  <1>1. CASE ProbeReserve
    BY <1>0, <1>1, Takes DEF ProbeReserve, bytes
  <1>2. CASE ProbeRefused
    <2>1. \A u \in Units : owner[u] = "probe" => code[u] = Orig
      BY <1>0, <1>2, OwnedCode DEF ProbeRefused
    <2>2. \A u \in Units : owner[u] = "probe" <=> u \in ProbeUnits
      BY <1>2 DEF ProbeRefused, IInv, ProbeInv, ProbedInv
    <2>3. /\ code' = code
          /\ owner' = [u \in Units |-> IF owner[u] = "probe" THEN "none" ELSE owner[u]]
      BY <1>2, <2>2 DEF ProbeRefused, bytes
    <2> QED BY <1>0, <2>1, <2>3, GivesBack
  <1>3. CASE ProbeCommit
    BY <1>3 DEF ProbeCommit, bytes, assets, claims, Registry!vars
  <1>4. CASE ProbeToggle
    <2>1. owner' = owner /\ \A u \in Units : code'[u] # code[u] => owner[u] = "probe"
      BY <1>4 DEF ProbeToggle, assets, IInv, ProbeInv
    <2> QED BY <1>0, <2>1, Stores
  <1> QED BY <1>1, <1>2, <1>3, <1>4

\* Installations and the probe are clients as the registry promises them to all
\* others: a byte has one owner, nobody else stores to it, and what is given
\* back is original.
THEOREM OneOwner == Spec => BytesHaveOneOwner
<1>1. Init => Registry!Init /\ ProbedInv
  <2> SUFFICES ASSUME Init PROVE Registry!Init /\ ProbedInv
    OBVIOUS
  <2>1. claims = [c \in Claimant |-> {}]
    BY PlanAssumption DEF Init, claims, Claimant
  <2> QED BY <2>1 DEF Init, Registry!Init, ProbedInv, Orig, Probed, Claimant
<1>2. IInv /\ ProbedInv /\ [Next]_vars => ProbedInv'
  BY ProbedStep
<1>3. IInv /\ IInv' /\ ProbedInv /\ [Next]_vars => [Registry!Next]_(Registry!vars)
  <2> SUFFICES ASSUME IInv, IInv', ProbedInv, [Next]_vars
               PROVE  Registry!Next \/ UNCHANGED Registry!vars
    OBVIOUS
  <2>1. (\E c \in Claimant : Registry!Take(c) \/ Registry!GiveBack(c) \/ Registry!Write(c))
          => Registry!Next
    BY DEF Registry!Next, Claimant
  <2>2. ASSUME NEW p \in Publishers, Publication(p)
        PROVE  Registry!Next \/ UNCHANGED Registry!vars
    BY <2>1, <2>2, PublicationClaims
  <2>3. CASE ProbeReserve \/ ProbeRefused \/ ProbeCommit \/ ProbeToggle
    BY <2>1, <2>3, ProbeClaims
  <2>4. CASE (\E i \in Plans : DropHandle(i)) \/ Foreign \/ Remap
    BY <2>4 DEF DropHandle, DroppedOwner, Foreign, Remap, bytes, assets, claims,
       Registry!vars
  <2>5. ASSUME NEW e \in Executors, Execution(e) PROVE UNCHANGED Registry!vars
    BY <2>5, ExecutionIsElsewhere DEF claims, Registry!vars
  <2>6. CASE UNCHANGED vars
    BY <2>6 DEF vars, bytes, assets, claims, Registry!vars
  <2> QED BY <2>2, <2>3, <2>4, <2>5, <2>6 DEF Next
<1> QED
  BY <1>1, <1>2, <1>3, Invariant, PTL DEF Spec, BytesHaveOneOwner, Registry!Spec
=============================================================================
