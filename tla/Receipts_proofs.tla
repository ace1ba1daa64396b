--------------------------- MODULE Receipts_proofs ---------------------------
(***************************************************************************)
(* Two components whose answer is a receipt that must be true of what they *)
(* cannot see: the admission ledger, which admits a page for a publisher's *)
(* receipt, and the campaign driver, which finds its workers through their *)
(* launch receipts and writes complete.json.  They share no state; each    *)
(* part proves the theorems about one module, for every value of its       *)
(* constants.                                                              *)
(***************************************************************************)
EXTENDS AdmissionGate, Campaign, FiniteSetTheorems, WellFoundedInduction, TLAPS

-----------------------------------------------------------------------------
(* The ledger: its inductive invariant.                                    *)

\* An admitted page was scanned whole, and what the scan saw of the pages
\* around it belongs to its bundle and is what the ledger holds.
AdmittedFacts ==
  \A a \in Pages : state[a] = "Admitted" =>
    /\ Scans(a)
    /\ \A d \in Halo(a) :
         d \in deps[a] /\ d \in Registered /\ Agrees(d, snap[a])

\* The inductive invariant: AdmittedIsCurrent follows from the facts of the
\* admitted pages and the boundary claims of all pages.
LedgerInv ==
  /\ TypeOK /\ IsFiniteSet(ever) /\ PublishedOnce
  /\ BoundariesAgree /\ AdmittedFacts /\ BundlesDisjoint /\ TornIsGated

-----------------------------------------------------------------------------
(* The ledger: facts about the operators.                                  *)

\* The pages of a snapshot that has been registered.
LEMMA SnapshotFacts ==
  ASSUME TypeOK, NEW p \in Registered
  PROVE  /\ snap[p] \in Snapshots /\ snap[p] \in SnapshotType
         /\ snap[p].lo \in Int /\ snap[p].hi \in Int
         /\ p \in snap[p].lo..snap[p].hi /\ snap[p].lo..snap[p].hi \subseteq Pages
         /\ p \in Pages /\ p \in Int
BY AdmissionGateAssumption DEF TypeOK, Registered, SnapshotType

\* A bundle is a set of pages around the entry page and what was added.
LEMMA BundlePages ==
  ASSUME TypeOK, NEW p \in Registered, NEW extras \in Extras
  PROVE  /\ Bundle(p, extras) \subseteq Pages
         /\ Halo(p) \subseteq Bundle(p, extras)
<1>1. Halo(p) \subseteq Pages
  BY SnapshotFacts DEF Halo
<1>2. \A d \in extras : d.page \in Pages
  BY AdmissionGateAssumption DEF DependencyType
<1>3. \A d \in Depends(p, extras) : d.page \in Pages
  BY <1>1, <1>2 DEF Depends
<1>4. ASSUME NEW q \in Halo(p) PROVE q \in Bundle(p, extras)
  <2> DEFINE d == [page |-> q, snap |-> snap[p]]
  <2>1. d \in Depends(p, extras) /\ d.page = q
    BY DEF Depends
  <2> HIDE DEF d
  <2> QED
    BY <2>1 DEF Bundle
<1> QED
  BY <1>3, <1>4 DEF Bundle

\* What validate_plan establishes for the bundle of a plan.
LEMMA ValidBundle ==
  ASSUME NEW p, NEW extras, Valid(p, extras)
  PROVE  /\ \A b \in Bundle(p, extras) : b \in Registered /\ ~Unsafe(b)
         /\ \A d \in Halo(p) : d \in Registered /\ Agrees(d, snap[p])
<1>1. \A b \in Bundle(p, extras) : b \in Registered /\ ~Unsafe(b)
  BY DEF Bundle, Valid
<1>2. ASSUME NEW d \in Halo(p)
      PROVE  d \in Registered /\ Agrees(d, snap[p])
  <2> DEFINE e == [page |-> d, snap |-> snap[p]]
  <2>1. e \in Depends(p, extras)
    BY DEF Depends
  <2>2. e.page \in Registered /\ Agrees(e.page, e.snap)
    BY <2>1 DEF Valid
  <2> QED
    BY <2>2
<1> QED
  BY <1>1, <1>2

\* A page whose bundle holds p is revoked when p changes, and so is p.
LEMMA DirectDependents ==
  ASSUME NEW p \in Registered
  PROVE  /\ p \in Dependents(p) /\ Dependents(p) \subseteq Registered
         /\ \A q \in Registered : p \in deps[q] => q \in Dependents(p)
BY DEF Dependents, Closed

-----------------------------------------------------------------------------
(* The ledger: its invariant holds at first and is kept.                   *)

LEMMA LedgerInvInit == Init => LedgerInv
<1> SUFFICES ASSUME Init PROVE LedgerInv
  OBVIOUS
<1>1. Registered = {}
  BY DEF Init, Registered
<1>2. TypeOK
  BY <1>1 DEF Init, TypeOK
<1>3. IsFiniteSet(ever) /\ PublishedOnce
  BY FS_EmptySet DEF Init, PublishedOnce
<1>4. BoundariesAgree /\ AdmittedFacts /\ BundlesDisjoint /\ TornIsGated
  BY <1>1 DEF Init, BoundariesAgree, AdmittedFacts, BundlesDisjoint, TornIsGated
<1> QED
  BY <1>2, <1>3, <1>4 DEF LedgerInv

LEMMA KeptByRegister ==
  ASSUME LedgerInv, NEW p \in Pages, NEW s \in Snapshots, Register(p, s)
  PROVE  LedgerInv'
<1> USE DEF LedgerInv
<1>1. Registered' = Registered \cup {p} /\ p \notin Registered
  BY DEF Register, Registered, TypeOK
<1>2. \A q \in Pages : q # p => state'[q] = state[q] /\ snap'[q] = snap[q]
  BY DEF Register, TypeOK
<1>3. snap'[p] = s /\ state'[p] = "Unknown"
  BY DEF Register, TypeOK
<1>4. TypeOK'
  BY <1>1, <1>2, <1>3 DEF Register, TypeOK
<1>5. (IsFiniteSet(ever) /\ PublishedOnce)'
  BY DEF Register, PublishedOnce
<1>6. BoundariesAgree'
  <2> SUFFICES ASSUME NEW a \in Registered', NEW b \in Registered', a # b
               PROVE  ~Excludes(snap'[a], b)
    BY DEF BoundariesAgree, Excludes
  <2>1. a \in Pages /\ b \in Pages
    BY DEF Registered
  <2>2. CASE a = p
    BY <1>1, <1>3, <2>1, <2>2 DEF Register, Consistent
  <2>3. CASE b = p
    BY <1>1, <1>2, <2>1, <2>3 DEF Register, Consistent
  <2>4. CASE a # p /\ b # p
    BY <1>1, <1>2, <2>1, <2>4 DEF BoundariesAgree
  <2> QED
    BY <2>2, <2>3, <2>4
<1>7. AdmittedFacts'
  <2> SUFFICES ASSUME NEW a \in Pages, state'[a] = "Admitted"
               PROVE  /\ Scans(a)'
                      /\ \A d \in Halo(a)' : /\ d \in deps'[a] /\ d \in Registered'
                                             /\ Agrees(d, snap[a])'
    BY DEF AdmittedFacts
  <2>1. a # p /\ state[a] = "Admitted" /\ snap'[a] = snap[a]
    BY <1>2, <1>3
  <2>2. Scans(a) /\ \A d \in Halo(a) :
          d \in deps[a] /\ d \in Registered /\ Agrees(d, snap[a])
    BY <2>1 DEF AdmittedFacts
  <2>3. Scans(a)' /\ Halo(a)' = Halo(a)
    BY <2>1, <2>2 DEF Scans, Halo
  <2>4. ASSUME NEW d \in Halo(a) PROVE Agrees(d, snap[a])'
    <3>1. d \in Registered /\ d # p /\ d \in Pages /\ Agrees(d, snap[a])
      BY <1>1, <2>2, <2>4 DEF Registered
    <3> QED
      BY <1>2, <2>1, <3>1 DEF Agrees
  <2> QED
    BY <1>1, <2>2, <2>3, <2>4 DEF Register
<1>8. BundlesDisjoint' /\ TornIsGated'
  BY <1>1, <1>2, <1>3 DEF Register, BundlesDisjoint, TornIsGated, TypeOK
<1> QED
  BY <1>4, <1>5, <1>6, <1>7, <1>8

\* A step that changes no snapshot or bundle, admits nobody and leaves every
\* page registered keeps what is known of the admitted pages.
LEMMA KeptByRevoking ==
  ASSUME LedgerInv, state' \in [Pages -> {"Missing", "Unknown", "Scanning", "Certified",
                          "Admitted", "Invalidated", "Refused", "Poisoned"}],
         UNCHANGED <<snap, deps>>, Registered' = Registered,
         \A a \in Pages : state'[a] = "Admitted" => state[a] = "Admitted"
  PROVE  (BoundariesAgree /\ AdmittedFacts /\ BundlesDisjoint)'
<1>1. BoundariesAgree' /\ BundlesDisjoint'
  BY DEF LedgerInv, BoundariesAgree, BundlesDisjoint, Excludes
<1>2. AdmittedFacts'
  BY DEF LedgerInv, AdmittedFacts, Scans, Halo, Agrees
<1> QED
  BY <1>1, <1>2

LEMMA KeptByRefuse ==
  ASSUME LedgerInv, NEW p \in Pages, Pending(p), Refuse(p), serial' \in Nat
  PROVE  LedgerInv'
<1>1. state' = [state EXCEPT ![p] = "Refused"] /\ p \in Registered
  BY DEF Refuse, Pending
<1>2. Registered' = Registered
  BY <1>1 DEF LedgerInv, TypeOK, Registered
<1>3. TypeOK'
  BY <1>1, <1>2 DEF LedgerInv, TypeOK, Refuse
<1>4. (BoundariesAgree /\ AdmittedFacts /\ BundlesDisjoint)'
  BY <1>1, <1>2, <1>3, KeptByRevoking DEF LedgerInv, TypeOK, Refuse
<1>5. TornIsGated'
  BY <1>1 DEF LedgerInv, TypeOK, TornIsGated, Refuse, Pending, Registered
<1>6. (IsFiniteSet(ever) /\ PublishedOnce)'
  BY DEF LedgerInv, Refuse, PublishedOnce
<1> QED
  BY <1>3, <1>4, <1>5, <1>6 DEF LedgerInv

LEMMA KeptByPlannerPanics ==
  ASSUME LedgerInv, NEW p \in Pages, PlannerPanics(p)
  PROVE  LedgerInv'
<1>1. state' = [state EXCEPT ![p] = "Scanning"] /\ p \in Registered
  BY DEF PlannerPanics, Pending
<1>2. Registered' = Registered
  BY <1>1 DEF LedgerInv, TypeOK, Registered
<1>3. TypeOK'
  BY <1>1, <1>2 DEF LedgerInv, TypeOK, PlannerPanics
<1>4. (BoundariesAgree /\ AdmittedFacts /\ BundlesDisjoint)'
  BY <1>1, <1>2, <1>3, KeptByRevoking DEF LedgerInv, TypeOK, PlannerPanics
<1>5. TornIsGated' /\ (IsFiniteSet(ever) /\ PublishedOnce)'
  BY DEF LedgerInv, TornIsGated, PlannerPanics, PublishedOnce
<1> QED
  BY <1>3, <1>4, <1>5 DEF LedgerInv

LEMMA KeptByPublisherPanics ==
  ASSUME LedgerInv, NEW p \in Pages, NEW extras \in Extras, PublisherPanics(p, extras)
  PROVE  LedgerInv'
<1>1. state' = [state EXCEPT ![p] = "Certified"] /\ p \in Registered
  BY DEF PublisherPanics, Planned, Pending
<1>2. Registered' = Registered
  BY <1>1 DEF LedgerInv, TypeOK, Registered
<1>3. Bundle(p, extras) \subseteq Registered
  BY ValidBundle DEF PublisherPanics, Planned
<1>4. TypeOK'
  BY <1>1, <1>2, <1>3 DEF LedgerInv, TypeOK, PublisherPanics, Planned
<1>5. (BoundariesAgree /\ AdmittedFacts /\ BundlesDisjoint)'
  BY <1>1, <1>2, <1>4, KeptByRevoking DEF LedgerInv, TypeOK, PublisherPanics
<1>6. TornIsGated' /\ (IsFiniteSet(ever) /\ PublishedOnce)'
  BY DEF LedgerInv, TornIsGated, PublisherPanics, PublishedOnce
<1> QED
  BY <1>4, <1>5, <1>6 DEF LedgerInv

LEMMA KeptByPublishedUncertain ==
  ASSUME LedgerInv, NEW p \in Pages, NEW extras \in Extras, NEW receipt,
         PublishedUncertain(p, extras, receipt)
  PROVE  LedgerInv'
<1>1. Bundle(p, extras) \subseteq Registered /\ p \in Registered /\ ~broken
  BY ValidBundle DEF PublishedUncertain, Planned, Pending
<1>2. state' = [q \in Pages |-> IF q \in Bundle(p, extras)
                                THEN "Poisoned" ELSE state[q]]
  BY DEF PublishedUncertain, Poison
<1>3. Registered' = Registered
  BY <1>1, <1>2 DEF Registered
<1>4. TypeOK'
  BY <1>1, <1>2, <1>3 DEF LedgerInv, TypeOK, PublishedUncertain, Planned
<1>5. (BoundariesAgree /\ AdmittedFacts /\ BundlesDisjoint)'
  BY <1>2, <1>3, <1>4, KeptByRevoking DEF TypeOK, PublishedUncertain
<1>6. TornIsGated'
  BY <1>1, <1>2 DEF LedgerInv, TornIsGated, PublishedUncertain, Registered, TypeOK
<1>7. (IsFiniteSet(ever) /\ PublishedOnce)'
  BY DEF LedgerInv, PublishedUncertain, PublishedOnce
<1> QED
  BY <1>4, <1>5, <1>6, <1>7 DEF LedgerInv

LEMMA KeptByPublished ==
  ASSUME LedgerInv, NEW p \in Pages, NEW extras \in Extras, NEW receipt,
         Published(p, extras, receipt)
  PROVE  LedgerInv'
<1>1. /\ p \in Registered /\ p \notin ever /\ ~broken /\ Scans(p)
      /\ state[p] \notin {"Admitted", "Poisoned"} /\ Valid(p, extras)
  BY DEF Published, Planned, Pending
<1>2. state' = [state EXCEPT ![p] = "Admitted"] /\ snap' = snap
  BY DEF Published
<1>3. deps' = [deps EXCEPT ![p] = Bundle(p, extras)]
  BY DEF Published
<1>4. Registered' = Registered
  BY <1>1, <1>2 DEF LedgerInv, TypeOK, Registered
<1>5. TypeOK'
  BY <1>1, <1>2, <1>3, <1>4, BundlePages DEF LedgerInv, TypeOK, Published, Planned
<1>6. (IsFiniteSet(ever) /\ PublishedOnce)'
  <2>1. IsFiniteSet(ever \cup {p}) /\ Cardinality(ever \cup {p}) = Cardinality(ever) + 1
    BY <1>1, FS_AddElement DEF LedgerInv
  <2> QED
    BY <2>1 DEF LedgerInv, Published, PublishedOnce
<1>7. BoundariesAgree'
  BY <1>2, <1>4 DEF LedgerInv, BoundariesAgree, Excludes
<1>8. AdmittedFacts'
  <2> SUFFICES ASSUME NEW a \in Pages, state'[a] = "Admitted"
               PROVE  /\ Scans(a)'
                      /\ \A d \in Halo(a)' : /\ d \in deps'[a] /\ d \in Registered'
                                             /\ Agrees(d, snap[a])'
    BY DEF AdmittedFacts
  <2>1. Halo(a)' = Halo(a) /\ (Scans(a)' <=> Scans(a))
    BY <1>2 DEF Halo, Scans
  <2>2. \A d : Agrees(d, snap[a])' <=> Agrees(d, snap[a])
    BY <1>2 DEF Agrees
  <2>3. CASE a = p
    <3>1. deps'[a] = Bundle(p, extras)
      BY <1>3, <2>3 DEF LedgerInv, TypeOK
    <3>2. Halo(p) \subseteq Bundle(p, extras)
      BY <1>1, BundlePages DEF LedgerInv
    <3>3. \A d \in Halo(p) : d \in Registered /\ Agrees(d, snap[p])
      BY <1>1, ValidBundle
    <3> QED
      BY <1>1, <1>4, <2>1, <2>2, <2>3, <3>1, <3>2, <3>3
  <2>4. CASE a # p
    <3>1. state[a] = "Admitted" /\ deps'[a] = deps[a]
      BY <1>2, <1>3, <2>4 DEF LedgerInv, TypeOK
    <3> QED
      BY <1>4, <2>1, <2>2, <3>1 DEF LedgerInv, AdmittedFacts
  <2> QED
    BY <2>3, <2>4
<1>9. BundlesDisjoint'
  <2>1. \A a \in Pages : state[a] = "Admitted" => deps[a] \cap Bundle(p, extras) = {}
    BY <1>1, ValidBundle DEF Unsafe
  <2> QED
    BY <1>1, <1>2, <1>3, <2>1 DEF LedgerInv, TypeOK, BundlesDisjoint
<1>10. TornIsGated'
  BY <1>1, <1>2 DEF LedgerInv, TypeOK, TornIsGated, Published, Registered
<1> QED
  BY <1>5, <1>6, <1>7, <1>8, <1>9, <1>10 DEF LedgerInv

LEMMA KeptByInvalidate ==
  ASSUME LedgerInv, NEW p \in Pages, NEW s \in Snapshots, Invalidate(p, s)
  PROVE  LedgerInv'
<1>1. p \in Registered /\ Consistent(p, s) /\ p \in s.lo..s.hi
  BY DEF Invalidate
<1>2. snap' = [snap EXCEPT ![p] = s] /\ deps' = deps
  BY DEF Invalidate
<1>3. state' = [q \in Pages |-> IF q \in Dependents(p) /\ state[q] # "Poisoned"
                                THEN "Invalidated" ELSE state[q]]
  BY DEF Invalidate
<1>4. Registered' = Registered
  BY <1>1, <1>3, DirectDependents DEF Registered
<1>5. TypeOK'
  BY <1>1, <1>2, <1>3, <1>4 DEF LedgerInv, TypeOK, Invalidate
<1>6. (IsFiniteSet(ever) /\ PublishedOnce)'
  BY DEF LedgerInv, Invalidate, PublishedOnce
<1>7. BoundariesAgree'
  <2> SUFFICES ASSUME NEW a \in Registered, NEW b \in Registered, a # b
               PROVE  ~Excludes(snap'[a], b)
    BY <1>4 DEF BoundariesAgree, Excludes
  <2>1. a \in Pages /\ b \in Pages
    BY DEF Registered
  <2>2. CASE a = p
    BY <1>1, <1>2, <2>1, <2>2 DEF LedgerInv, TypeOK, Consistent
  <2>3. CASE a # p /\ b = p
    BY <1>1, <1>2, <2>1, <2>3 DEF LedgerInv, TypeOK, Consistent
  <2>4. CASE a # p /\ b # p
    BY <1>2, <2>1, <2>4 DEF LedgerInv, TypeOK, BoundariesAgree
  <2> QED
    BY <2>2, <2>3, <2>4
<1>8. AdmittedFacts'
  <2> SUFFICES ASSUME NEW a \in Pages, state'[a] = "Admitted"
               PROVE  /\ Scans(a)'
                      /\ \A d \in Halo(a)' : /\ d \in deps'[a] /\ d \in Registered'
                                             /\ Agrees(d, snap[a])'
    BY DEF AdmittedFacts
  <2>1. state[a] = "Admitted" /\ a \notin Dependents(p) /\ a \in Registered
    BY <1>3 DEF Registered
  <2>2. a # p /\ p \notin deps[a]
    BY <1>1, <2>1, DirectDependents
  <2>3. snap'[a] = snap[a]
    BY <1>2, <2>2 DEF LedgerInv, TypeOK
  <2>4. Scans(a) /\ \A d \in Halo(a) :
          d \in deps[a] /\ d \in Registered /\ Agrees(d, snap[a])
    BY <2>1 DEF LedgerInv, AdmittedFacts
  <2>5. Scans(a)' /\ Halo(a)' = Halo(a)
    BY <2>3, <2>4 DEF Scans, Halo
  <2>6. ASSUME NEW d \in Halo(a) PROVE Agrees(d, snap[a])'
    <3>1. d # p /\ d \in Pages /\ Agrees(d, snap[a])
      BY <2>2, <2>4, <2>6 DEF Registered
    <3>2. snap'[d] = snap[d]
      BY <1>2, <3>1 DEF LedgerInv, TypeOK
    <3> QED
      BY <2>3, <3>1, <3>2 DEF Agrees
  <2> QED
    BY <1>2, <1>4, <2>4, <2>5, <2>6
<1>9. BundlesDisjoint'
  BY <1>2, <1>3 DEF LedgerInv, BundlesDisjoint
<1>10. TornIsGated'
  BY <1>3 DEF LedgerInv, TypeOK, TornIsGated, Invalidate, Registered
<1> QED
  BY <1>5, <1>6, <1>7, <1>8, <1>9, <1>10 DEF LedgerInv

LEMMA LedgerInvStep == LedgerInv /\ [Next]_vars => LedgerInv'
<1> SUFFICES ASSUME LedgerInv, [Next]_vars PROVE LedgerInv'
  OBVIOUS
<1>1. CASE UNCHANGED vars
  BY <1>1 DEF vars, LedgerInv, TypeOK, Registered, PublishedOnce, BoundariesAgree,
     Excludes, AdmittedFacts, Scans, Halo, Agrees, BundlesDisjoint, TornIsGated
<1>2. CASE Next
  <2> PICK p \in Pages :
        \/ \E s \in Snapshots : Register(p, s) \/ Invalidate(p, s)
        \/ AdmitAgain(p) \/ ScanRefuses(p) \/ PlanRefused(p) \/ PlannerPanics(p)
        \/ \E extras \in Extras :
             \/ PublishedNothing(p, extras) \/ PublisherPanics(p, extras)
             \/ \E receipt \in 0..(serial + 1) :
                  \/ Published(p, extras, receipt)
                  \/ PublishedUncertain(p, extras, receipt)
    BY <1>2 DEF Next
  <2>0. serial \in Nat
    BY DEF LedgerInv, TypeOK
  <2>1. CASE \E s \in Snapshots : Register(p, s) \/ Invalidate(p, s)
    BY <2>1, KeptByRegister, KeptByInvalidate
  <2>2. CASE AdmitAgain(p) \/ ScanRefuses(p) \/ PlanRefused(p)
    BY <2>0, <2>2, KeptByRefuse DEF AdmitAgain, ScanRefuses, PlanRefused
  <2>3. CASE PlannerPanics(p)
    BY <2>3, KeptByPlannerPanics
  <2>4. CASE \E extras \in Extras : PublishedNothing(p, extras)
    BY <2>0, <2>4, KeptByRefuse DEF PublishedNothing, Planned
  <2>5. CASE \E extras \in Extras : PublisherPanics(p, extras)
    BY <2>5, KeptByPublisherPanics
  <2>6. CASE \E extras \in Extras : \E receipt \in 0..(serial + 1) :
               Published(p, extras, receipt)
    BY <2>6, KeptByPublished
  <2>7. CASE \E extras \in Extras : \E receipt \in 0..(serial + 1) :
               PublishedUncertain(p, extras, receipt)
    BY <2>7, KeptByPublishedUncertain
  <2> QED
    BY <2>1, <2>2, <2>3, <2>4, <2>5, <2>6, <2>7
<1> QED
  BY <1>1, <1>2

-----------------------------------------------------------------------------
(* The ledger: the theorems.                                               *)

\* The invariant holds in every reachable state.
THEOREM LedgerInvariant == Spec => []LedgerInv
BY LedgerInvInit, LedgerInvStep, PTL DEF Spec

\* The ledger stays well formed, boundary claims and the count of publications
\* included.
THEOREM WellFormed == Spec => []GateInv
<1>1. LedgerInv => GateInv
  BY DEF LedgerInv, GateInv
<1> QED
  BY <1>1, LedgerInvariant, PTL

\* The scan of an admitted page stays true of every page around it.
THEOREM Current == Spec => []AdmittedIsCurrent
<1>1. LedgerInv => AdmittedIsCurrent
  <2> SUFFICES ASSUME LedgerInv, NEW a \in Pages, state[a] = "Admitted",
                      NEW d \in Registered \cap (a - 1)..(a + 1)
               PROVE  d \in snap[a].lo..snap[a].hi /\ Agrees(d, snap[a])
    BY DEF AdmittedIsCurrent, Agrees
  <2>1. a \in Registered
    BY DEF Registered
  <2>2. /\ snap[a].lo \in Int /\ snap[a].hi \in Int /\ a \in Int /\ d \in Int
        /\ a \in snap[a].lo..snap[a].hi
    BY <2>1, SnapshotFacts DEF LedgerInv
  <2>3. Scans(a) /\ \A q \in Halo(a) : Agrees(q, snap[a])
    BY DEF LedgerInv, AdmittedFacts
  <2>4. d \in snap[a].lo..snap[a].hi
    <3> SUFFICES ASSUME d \notin snap[a].lo..snap[a].hi PROVE FALSE
      OBVIOUS
    <3>1. ~Excludes(snap[a], d)
      BY <2>1, <2>2 DEF LedgerInv, BoundariesAgree
    <3> QED
      BY <2>2, <2>3, <3>1 DEF Scans, Excludes
  <2> QED
    BY <2>3, <2>4 DEF Halo
<1> QED
  BY <1>1, LedgerInvariant, PTL

\* Admitted bundles are disjoint and half-written ones stay gated.
THEOREM Bundles == Spec => []BundleInv
<1>1. LedgerInv => BundleInv
  BY DEF LedgerInv, BundleInv
<1> QED
  BY <1>1, LedgerInvariant, PTL

-----------------------------------------------------------------------------
(* The campaign: its inductive invariant.                                  *)

\* A live worker has the pathname of its group, one that has been launched is
\* in its receipt, and the workers of the calibrations are gone when the cases
\* begin.
WorkerInv(w) ==
  /\ w \in live => at[w] # "unborn" /\ group[seed[w]] = w
  /\ at[w] \in {"launched", "running", "ok"} => launch[seed[w]] = w
  /\ at[w] \in {"running", "ok"} => executed[seed[w]] = 1
  /\ at[w] = "ok" /\ seed[w] = 0 => calibrated
  /\ phase = "calibrations" => seed[w] = 0
  /\ phase = "case" /\ seed[w] = 0 => w \notin live

\* What a receipt and a record of the inspection say of a seed.
Seen == {"absent", "empty", "killed"}
SeedInv(s) ==
  /\ launch[s] # Nobody =>
       seed[launch[s]] = s /\ at[launch[s]] \notin {"unborn", "spawned"}
  /\ executed[s] \in {0, 1}
  /\ executed[s] = 1 /\ s \in Cases => phase = "case"
  /\ record[s] # "none" => launch[s] # Nobody
  /\ record[s] \in Seen /\ s \notin todo => launch[s] \notin live
  /\ record[s] = "listed" => s \in todo
  /\ s \in todo => \/ record[s] = "listed"
                   \/ record[s] = "killed" /\ s = Next1 /\ fd # Nobody

\* Where the driver is, and what that says of the runner and the inspection.
DriverInv ==
  /\ phase = "case" => calibrated
  /\ runner = "running" => pc \in {"wait", "stop", "term", "kill", "cleanup", "exit"}
  /\ report \in {"exited", "stopped"} => runner # "running"
  /\ ~Inspecting => todo = {} /\ fd = Nobody
  /\ fd # Nobody => todo # {} /\ fd = launch[Next1]
  /\ complete => pc \in {"cleanup", "exit"}
  /\ runner = "zero" /\ pc \in {"inspect", "verdict"} =>
       \A s \in Seeds : record[s] = "none" => launch[s] = Nobody

\* A runner that succeeded has no worker at work, and a campaign that was
\* judged has only workers that succeeded and left nothing.
JudgedInv ==
  /\ runner = "zero" => ~Busy
  /\ pc \in {"final", "finish"} \/ complete =>
       /\ runner = "zero" /\ phase = "case" /\ live \cap Workers = {}
       /\ \A s \in Cases : \E w \in Workers : seed[w] = s /\ at[w] = "ok"

CampaignInv ==
  /\ CampaignTypeOK
  /\ \A w \in Workers : WorkerInv(w)
  /\ \A s \in Seeds : SeedInv(s)
  /\ DriverInv /\ JudgedInv

-----------------------------------------------------------------------------
(* The campaign: facts about the operators.                                *)

LEMMA CampaignNames ==
  /\ "none" \notin Workers /\ "stranger" \notin Workers
  /\ 0 \in Seeds /\ Seeds \subseteq Nat /\ Cases \subseteq Seeds /\ 0 \notin Cases
BY CampaignAssumption DEF Seeds

\* The receipts are inspected in order: one of those left is the next.
LEMMA NextReceipt ==
  ASSUME todo \subseteq Seeds, todo # {}
  PROVE  Next1 \in todo
<1> DEFINE R == OpToRel(<, Nat)
<1>1. IsWellFoundedOn(R, Nat)
  BY NatLessThanWellFounded, Zenon
<1>2. \A x, y \in Nat : y < x => <<y, x>> \in R
  BY Zenon DEF OpToRel
<1> HIDE DEF R
<1>3. todo \subseteq Nat
  BY CampaignNames
<1>4. PICK x \in todo : \A y \in todo : ~(<<y, x>> \in R)
  BY <1>1, <1>3, WFMin, Zenon
<1>5. \A y \in todo : y \in Nat /\ x \in Nat
  BY <1>3
<1>6. \A y \in todo : ~(y < x)
  BY <1>2, <1>4, <1>5, Zenon
<1>7. \A y \in todo : x <= y
  BY <1>5, <1>6
<1> QED
  BY <1>7 DEF Next1

-----------------------------------------------------------------------------
(* The campaign: its invariant holds at first and is kept.                 *)

LEMMA CampaignInvInit == CampaignInit => CampaignInv
<1> SUFFICES ASSUME CampaignInit PROVE CampaignInv
  OBVIOUS
<1> USE CampaignNames DEF CampaignInit
<1>1. CampaignTypeOK
  BY DEF CampaignTypeOK, Nobody
<1>2. \A w \in Workers : WorkerInv(w)
  BY DEF WorkerInv
<1>3. \A s \in Seeds : SeedInv(s)
  BY DEF SeedInv, Nobody, Seen
<1>4. DriverInv /\ JudgedInv
  BY DEF DriverInv, JudgedInv, Inspecting, Nobody
<1> QED
  BY <1>1, <1>2, <1>3, <1>4 DEF CampaignInv

\* What the driver does to itself leaves the workers as they are known.
LEMMA WorkersKept ==
  ASSUME CampaignInv, UNCHANGED <<phase, workers, group, live>>
  PROVE  \A w \in Workers : WorkerInv(w)'
BY DEF CampaignInv, WorkerInv, workers

\* The receipts are listed again, for the verdict or for the cleanup.
LEMMA KeptByList ==
  ASSUME CampaignInv, NEW where \in {"inspect", "cleanup"}, List(where),
         UNCHANGED <<phase, runner, workers, groups>>,
         terminating' \in BOOLEAN, failed' \in BOOLEAN, complete' \in BOOLEAN,
         faults' \in BOOLEAN,
         report' \in {"none", "incomplete", "exited", "stopped", "errors"},
         report' \in {"exited", "stopped"} => runner # "running",
         runner = "running" => where = "cleanup",
         complete' => where = "cleanup" /\ (complete \/ pc = "finish")
  PROVE  CampaignInv'
<1>1. CampaignTypeOK'
  BY DEF CampaignInv, CampaignTypeOK, List, Listing, workers, groups
<1>2. \A w \in Workers : WorkerInv(w)'
  BY WorkersKept DEF groups
<1>3. ASSUME NEW s \in Seeds PROVE SeedInv(s)'
  BY DEF CampaignInv, SeedInv, List, Listing, workers, groups, Seen
<1>4. DriverInv'
  BY DEF CampaignInv, DriverInv, List, Listing, workers, Inspecting
<1>5. JudgedInv'
  BY DEF CampaignInv, JudgedInv, List, workers, groups, Busy
<1> QED
  BY <1>1, <1>2, <1>3, <1>4, <1>5 DEF CampaignInv

\* The driver goes on and keeps what it knows of the groups.
LEMMA KeptByMove ==
  ASSUME CampaignInv, todo = {}, UNCHANGED <<phase, todo, fd, record, workers, groups>>
  PROVE  /\ \A w \in Workers : WorkerInv(w)'
         /\ \A s \in Seeds : SeedInv(s)'
<1>1. \A w \in Workers : WorkerInv(w)'
  BY WorkersKept DEF groups
<1>2. \A s \in Seeds : SeedInv(s)'
  BY DEF CampaignInv, SeedInv, workers, groups, Seen
<1> QED
  BY <1>1, <1>2

LEMMA KeptByBeginPhase == CampaignInv /\ BeginPhase => CampaignInv'
<1> SUFFICES ASSUME CampaignInv, BeginPhase PROVE CampaignInv'
  OBVIOUS
<1> USE DEF Elsewhere
<1>0. pc = "phase" /\ ~Inspecting /\ ~complete /\ runner # "running"
  BY DEF CampaignInv, DriverInv, BeginPhase, Inspecting
<1>1. CASE Fail
  BY <1>0, <1>1, KeptByList DEF BeginPhase, Fail, CampaignInv, CampaignTypeOK, command
<1>2. CASE Goto("spawn")
  <2>1. todo = {} /\ fd = Nobody
    BY <1>0 DEF CampaignInv, DriverInv
  <2>2. \A w \in Workers : WorkerInv(w)'
    BY <1>2, <2>1, KeptByMove DEF BeginPhase, Goto
  <2>3. \A s \in Seeds : SeedInv(s)'
    BY <1>2, <2>1, KeptByMove DEF BeginPhase, Goto
  <2>4. CampaignTypeOK'
    BY <1>2 DEF CampaignInv, CampaignTypeOK, BeginPhase, Goto, workers, groups, command
  <2>5. DriverInv' /\ JudgedInv'
    BY <1>0, <1>2, <2>1 DEF CampaignInv, DriverInv, JudgedInv, BeginPhase, Goto,
       Inspecting, workers, groups, Busy, command
  <2> QED
    BY <2>2, <2>3, <2>4, <2>5 DEF CampaignInv
<1> QED
  BY <1>1, <1>2 DEF BeginPhase

LEMMA KeptByStartRunner == CampaignInv /\ StartRunner => CampaignInv'
<1> SUFFICES ASSUME CampaignInv, StartRunner PROVE CampaignInv'
  OBVIOUS
<1>0. pc = "spawn" /\ ~Inspecting /\ ~complete /\ runner # "running"
  BY DEF CampaignInv, DriverInv, StartRunner, Inspecting
<1>1. CASE Fail /\ UNCHANGED runner
  BY <1>0, <1>1, KeptByList DEF StartRunner, Fail, CampaignInv, CampaignTypeOK
<1>2. CASE Goto("wait") /\ runner' = "running"
  <2>1. todo = {} /\ fd = Nobody
    BY <1>0 DEF CampaignInv, DriverInv
  <2>2. \A w \in Workers : WorkerInv(w)'
    BY <1>2, <2>1, KeptByMove DEF StartRunner, Goto
  <2>3. \A s \in Seeds : SeedInv(s)'
    BY <1>2, <2>1, KeptByMove DEF StartRunner, Goto
  <2>4. CampaignTypeOK'
    BY <1>2 DEF CampaignInv, CampaignTypeOK, StartRunner, Goto, workers, groups
  <2>5. DriverInv' /\ JudgedInv'
    BY <1>0, <1>2, <2>1 DEF CampaignInv, DriverInv, JudgedInv, StartRunner, Goto,
       Inspecting, workers, groups, Busy
  <2> QED
    BY <2>2, <2>3, <2>4, <2>5 DEF CampaignInv
<1> QED
  BY <1>1, <1>2 DEF StartRunner

LEMMA KeptByRunnerReturned == CampaignInv /\ RunnerReturned => CampaignInv'
<1> SUFFICES ASSUME CampaignInv, RunnerReturned PROVE CampaignInv'
  OBVIOUS
<1>0. pc = "wait" /\ ~complete /\ runner \in {"zero", "nonzero"}
  BY DEF CampaignInv, DriverInv, RunnerReturned
<1>1. CASE Fail
  BY <1>0, <1>1, KeptByList DEF RunnerReturned, Elsewhere, Fail, CampaignInv, CampaignTypeOK
<1>2. CASE List("inspect") /\ UNCHANGED <<phase, terminating, complete, failed>>
  BY <1>0, <1>2, KeptByList DEF RunnerReturned, Elsewhere, CampaignInv, CampaignTypeOK
<1> QED
  BY <1>1, <1>2 DEF RunnerReturned

\* The wait for the runner is given up.
LEMMA KeptByStop ==
  ASSUME CampaignInv, pc = "wait", Stop, Elsewhere
  PROVE  CampaignInv'
<1>0. ~Inspecting /\ ~complete /\ todo = {} /\ fd = Nobody
  BY DEF CampaignInv, DriverInv, Inspecting
<1>1. \A w \in Workers : WorkerInv(w)'
  BY <1>0, KeptByMove DEF Stop, Elsewhere
<1>2. \A s \in Seeds : SeedInv(s)'
  BY <1>0, KeptByMove DEF Stop, Elsewhere
<1>3. CampaignTypeOK'
  BY DEF CampaignInv, CampaignTypeOK, Stop, Elsewhere, workers, groups, command
<1>4. DriverInv' /\ JudgedInv'
  BY <1>0 DEF CampaignInv, DriverInv, JudgedInv, Stop, Elsewhere, Inspecting,
     workers, groups, Busy, command
<1> QED
  BY <1>1, <1>2, <1>3, <1>4 DEF CampaignInv

\* stop_process returns and the error goes on to run.
LEMMA KeptByReraised ==
  ASSUME CampaignInv, pc \in {"stop", "term", "kill"},
         NEW failing \in BOOLEAN, Reraised(failing), ~failing => runner # "running"
  PROVE  CampaignInv'
<1>0. ~complete /\ complete' = complete /\ failed' = failed
  BY DEF CampaignInv, DriverInv, Reraised, Fail
<1>1. report' \in {"stopped", "errors", "incomplete"} /\ faults' \in BOOLEAN
      /\ (report' = "stopped" => runner # "running")
  BY DEF Reraised
<1> QED
  BY <1>0, <1>1, KeptByList DEF Reraised, Fail, CampaignInv, CampaignTypeOK

\* A signal has been sent to the runner, or could not be.
LEMMA KeptBySignalled ==
  ASSUME CampaignInv, pc \in {"stop", "term"}, NEW next \in {"term", "kill"},
         Signalled(next)
  PROVE  CampaignInv'
<1>0. ~Inspecting /\ ~complete /\ todo = {} /\ fd = Nobody
  BY DEF CampaignInv, DriverInv, Inspecting
<1>1. \A w \in Workers : WorkerInv(w)'
  BY <1>0, KeptByMove DEF Signalled, Goto
<1>2. \A s \in Seeds : SeedInv(s)'
  BY <1>0, KeptByMove DEF Signalled, Goto
<1>3. CampaignTypeOK'
  <2>1. faults \in BOOLEAN /\ (faults' = faults \/ faults' = TRUE)
    BY DEF CampaignInv, CampaignTypeOK, Signalled
  <2>2. faults' \in BOOLEAN
    BY <2>1, Zenon
  <2> QED
    BY <2>2 DEF CampaignInv, CampaignTypeOK, Signalled, Goto, workers, groups
<1>4. DriverInv' /\ JudgedInv'
  BY <1>0 DEF CampaignInv, DriverInv, JudgedInv, Signalled, Goto, Inspecting,
     workers, groups, Busy
<1> QED
  BY <1>1, <1>2, <1>3, <1>4 DEF CampaignInv

LEMMA KeptByStopping ==
  ASSUME CampaignInv, SendTerm \/ AwaitTerm \/ AwaitKill
  PROVE  CampaignInv'
<1>0. faults \in BOOLEAN
  BY DEF CampaignInv, CampaignTypeOK
<1>1. CASE SendTerm
  BY <1>0, <1>1, KeptByReraised, KeptBySignalled DEF SendTerm
<1>2. CASE AwaitTerm
  BY <1>0, <1>2, KeptByReraised, KeptBySignalled DEF AwaitTerm
<1>3. CASE AwaitKill
  BY <1>0, <1>3, KeptByReraised DEF AwaitKill
<1> QED
  BY <1>1, <1>2, <1>3

LEMMA KeptByCancelled == CampaignInv /\ Cancelled => CampaignInv'
<1> SUFFICES ASSUME CampaignInv, Cancelled PROVE CampaignInv'
  OBVIOUS
<1>1. CASE pc = "wait"
  BY <1>1, KeptByStop DEF Cancelled
<1>2. CASE pc # "wait"
  <2>1. ~complete /\ runner # "running"
    BY <1>2 DEF CampaignInv, DriverInv, Cancelled, Interruptible
  <2> QED
    BY <1>2, <2>1, KeptByList DEF Cancelled, Elsewhere, Fail, CampaignInv, CampaignTypeOK,
       command
<1> QED
  BY <1>1, <1>2

-----------------------------------------------------------------------------
(* The campaign: the inspection.                                           *)

\* The record of the next receipt is completed.
LEMMA KeptByRecorded ==
  ASSUME CampaignInv, Inspecting, todo # {},
         NEW what \in {"absent", "empty", "killed", "error"}, Recorded(Next1, what),
         UNCHANGED <<command, workers, groups>>,
         what \in Seen => launch[Next1] \notin live
  PROVE  CampaignInv'
<1>0. Next1 \in todo /\ Next1 \in Seeds
  BY NextReceipt DEF CampaignInv, CampaignTypeOK
<1>1. CampaignTypeOK'
  BY <1>0 DEF CampaignInv, CampaignTypeOK, Recorded, workers, groups, Nobody, command
<1>2. \A w \in Workers : WorkerInv(w)'
  BY WorkersKept DEF Recorded, groups
<1>3. ASSUME NEW s \in Seeds PROVE SeedInv(s)'
  <2>1. CASE s = Next1
    BY <1>0, <2>1 DEF CampaignInv, CampaignTypeOK, SeedInv, Recorded, workers,
       groups, Seen
  <2>2. CASE s # Next1
    <3>1. record'[s] = record[s] /\ (s \in todo' <=> s \in todo)
      BY <2>2 DEF CampaignInv, CampaignTypeOK, Recorded
    <3> QED
      BY <2>2, <3>1 DEF CampaignInv, SeedInv, Recorded, workers, groups, Seen
  <2> QED
    BY <2>1, <2>2
<1>4. DriverInv'
  BY <1>0 DEF CampaignInv, CampaignTypeOK, DriverInv, Recorded, workers, Inspecting,
     command
<1>5. JudgedInv'
  BY DEF CampaignInv, JudgedInv, Recorded, workers, groups, Busy, command
<1> QED
  BY <1>1, <1>2, <1>3, <1>4, <1>5 DEF CampaignInv

\* What the driver knows of the next group when it holds it open, or not.
LEMMA OpenFacts ==
  ASSUME CampaignInv, Inspecting, todo # {}
  PROVE  /\ Next1 \in todo /\ Next1 \in Seeds
         /\ launch[Next1] \in Workers /\ seed[launch[Next1]] = Next1
         /\ launch[Next1] \in live => group[Next1] = launch[Next1]
         /\ fd # Nobody => fd = launch[Next1]
         /\ record[Next1] \in {"listed", "killed"}
<1>1. Next1 \in todo /\ Next1 \in Seeds
  BY NextReceipt DEF CampaignInv, CampaignTypeOK
<1>2. SeedInv(Next1)
  BY <1>1 DEF CampaignInv
<1>3. launch[Next1] \in Workers /\ seed[launch[Next1]] = Next1
  BY <1>1, <1>2 DEF CampaignInv, CampaignTypeOK, SeedInv
<1>4. launch[Next1] \in live => group[Next1] = launch[Next1]
  BY <1>3 DEF CampaignInv, WorkerInv
<1> QED
  BY <1>1, <1>2, <1>3, <1>4 DEF CampaignInv, SeedInv, DriverInv

LEMMA KeptByOpenGroup == CampaignInv /\ OpenGroup => CampaignInv'
<1> SUFFICES ASSUME CampaignInv, OpenGroup PROVE CampaignInv'
  OBVIOUS
<1>0. Inspecting /\ todo # {} /\ fd = Nobody /\ Elsewhere
  BY DEF OpenGroup
<1>1. CASE group[Next1] = Nobody /\ Recorded(Next1, "absent")
  <2>1. launch[Next1] \notin live
    BY <1>0, <1>1, OpenFacts, CampaignNames DEF Nobody
  <2> QED
    BY <1>0, <1>1, <2>1, KeptByRecorded DEF Elsewhere
<1>2. CASE Recorded(Next1, "error")
  BY <1>0, <1>2, KeptByRecorded DEF Elsewhere, Seen
<1>3. CASE /\ group[Next1] # Nobody /\ Authentic(Next1) /\ fd' = group[Next1]
           /\ UNCHANGED <<pc, phase, terminating, todo, record, complete, failed>>
  <2>0. Next1' = Next1 /\ Inspecting'
    BY <1>0, <1>3 DEF Next1, Inspecting
  <2>1. CampaignTypeOK'
    BY <1>0, <1>3, OpenFacts DEF CampaignInv, CampaignTypeOK, Elsewhere, workers, groups,
       command
  <2>2. \A w \in Workers : WorkerInv(w)'
    BY <1>0, <1>3, WorkersKept DEF Elsewhere, groups
  <2>3. \A s \in Seeds : SeedInv(s)'
    BY <1>0, <1>3, <2>0 DEF CampaignInv, SeedInv, Elsewhere, workers, groups, Seen
  <2>4. DriverInv'
    BY <1>0, <1>3, <2>0 DEF CampaignInv, DriverInv, Elsewhere, workers, Authentic,
       command
  <2>5. JudgedInv'
    BY <1>0, <1>3 DEF CampaignInv, JudgedInv, Elsewhere, workers, groups, Busy, command
  <2> QED
    BY <2>1, <2>2, <2>3, <2>4, <2>5 DEF CampaignInv
<1> QED
  BY <1>1, <1>2, <1>3 DEF OpenGroup

LEMMA KeptByKillGroup == CampaignInv /\ KillGroup => CampaignInv'
<1> SUFFICES ASSUME CampaignInv, KillGroup PROVE CampaignInv'
  OBVIOUS
<1>0. Inspecting /\ todo # {} /\ fd # Nobody /\ record[Next1] = "listed"
  BY DEF KillGroup, CampaignInv, DriverInv
<1>00. Next1 \in todo /\ Next1 \in Seeds /\ launch[Next1] \in Workers /\ fd = launch[Next1]
  BY <1>0, OpenFacts
<1>1. CASE fd \notin live
  BY <1>0, <1>00, <1>1, KeptByRecorded DEF KillGroup, groups
<1>2. CASE fd \in live
  <2>1. /\ record' = [record EXCEPT ![Next1] = "killed"]
        /\ dying' = dying \cup {fd}
        /\ UNCHANGED <<pc, phase, terminating, todo, fd, complete, failed>>
        /\ UNCHANGED <<command, workers, group, live>>
    BY <1>2 DEF KillGroup
  <2>2. Next1' = Next1 /\ Inspecting'
    BY <1>0, <2>1 DEF Next1, Inspecting
  <2>3. CampaignTypeOK'
    BY <1>00, <2>1 DEF CampaignInv, CampaignTypeOK, workers, command
  <2>4. \A w \in Workers : WorkerInv(w)'
    BY <2>1, WorkersKept
  <2>5. ASSUME NEW s \in Seeds PROVE SeedInv(s)'
    <3>1. s # Next1 => record'[s] = record[s]
      BY <2>1 DEF CampaignInv, CampaignTypeOK
    <3>2. s = Next1 => record'[s] = "killed"
      BY <1>00, <2>1 DEF CampaignInv, CampaignTypeOK
    <3> QED
      BY <1>0, <1>00, <2>1, <2>2, <3>1, <3>2 DEF CampaignInv, SeedInv, workers, Seen
  <2>6. DriverInv'
    <3>1. \A s \in Seeds : record'[s] = "none" => record[s] = "none"
      BY <1>00, <2>1 DEF CampaignInv, CampaignTypeOK
    <3> QED
      BY <1>0, <2>1, <2>2, <3>1 DEF CampaignInv, DriverInv, workers, command
  <2>7. JudgedInv'
    BY <2>1 DEF CampaignInv, JudgedInv, workers, Busy, command
  <2> QED
    BY <2>3, <2>4, <2>5, <2>6, <2>7 DEF CampaignInv
<1> QED
  BY <1>1, <1>2

LEMMA KeptByAwaitDrain == CampaignInv /\ AwaitDrain => CampaignInv'
<1> SUFFICES ASSUME CampaignInv, AwaitDrain PROVE CampaignInv'
  OBVIOUS
<1>0. Inspecting /\ todo # {} /\ fd # Nobody /\ Elsewhere
  BY DEF AwaitDrain, CampaignInv, DriverInv
<1>1. fd = launch[Next1]
  BY <1>0, OpenFacts
<1>2. CASE fd \notin live /\ Recorded(Next1, "killed")
  BY <1>0, <1>1, <1>2, KeptByRecorded DEF Elsewhere
<1>3. CASE Recorded(Next1, "error")
  BY <1>0, <1>3, KeptByRecorded DEF Elsewhere, Seen
<1> QED
  BY <1>2, <1>3 DEF AwaitDrain

-----------------------------------------------------------------------------
(* The campaign: the verdict.                                              *)

LEMMA KeptByInspected == CampaignInv /\ Inspected => CampaignInv'
<1> SUFFICES ASSUME CampaignInv, Inspected PROVE CampaignInv'
  OBVIOUS
<1>0. pc = "inspect" /\ todo = {} /\ Goto("verdict") /\ Elsewhere /\ ~complete
      /\ fd = Nobody
  BY DEF Inspected, CampaignInv, DriverInv
<1>1. \A w \in Workers : WorkerInv(w)'
  BY <1>0, KeptByMove DEF Goto, Elsewhere
<1>2. \A s \in Seeds : SeedInv(s)'
  BY <1>0, KeptByMove DEF Goto, Elsewhere
<1>3. CampaignTypeOK'
  BY <1>0 DEF CampaignInv, CampaignTypeOK, Goto, Elsewhere, workers, groups, command
<1>4. DriverInv' /\ JudgedInv'
  BY <1>0 DEF CampaignInv, DriverInv, JudgedInv, Goto, Elsewhere, Inspecting,
     workers, groups, Busy, command
<1> QED
  BY <1>1, <1>2, <1>3, <1>4 DEF CampaignInv

\* A clean and complete report: no worker of the phase holds a process.
LEMMA NobodyLeft ==
  ASSUME CampaignInv, pc = "verdict", Clean, runner = "zero", Audited
  PROVE  /\ \A w \in Workers : seed[w] \in SeedsOf(phase) => w \notin live
         /\ \A s \in SeedsOf(phase) : \E w \in Workers : seed[w] = s /\ at[w] = "ok"
<1>0. todo = {}
  BY DEF CampaignInv, DriverInv, Inspecting
<1>1. ASSUME NEW v \in Workers, seed[v] \in SeedsOf(phase), v \in live PROVE FALSE
  <2>0. SeedsOf(phase) \subseteq Seeds
    BY DEF SeedsOf, Seeds
  <2>1. at[v] # "unborn"
    BY <1>1 DEF CampaignInv, WorkerInv
  <2>2. at[v] = "ok"
    BY <1>1, <2>1 DEF Audited
  <2>3. launch[seed[v]] = v
    BY <2>2 DEF CampaignInv, WorkerInv
  <2>4. record[seed[v]] # "none"
    BY <1>1, <2>0, <2>3, CampaignNames DEF CampaignInv, DriverInv, Nobody
  <2>5. record[seed[v]] \in {"listed", "absent", "empty"}
    BY <1>1, <2>0, <2>4 DEF CampaignInv, CampaignTypeOK, Clean
  <2> QED
    BY <1>0, <1>1, <2>0, <2>3, <2>5 DEF CampaignInv, SeedInv, Seen
<1>2. \A s \in SeedsOf(phase) : \E w \in Workers : seed[w] = s /\ at[w] = "ok"
  BY DEF Audited
<1> QED
  BY <1>1, <1>2

LEMMA KeptByJudge == CampaignInv /\ Judge => CampaignInv'
<1> SUFFICES ASSUME CampaignInv, Judge PROVE CampaignInv'
  OBVIOUS
<1>0. pc = "verdict" /\ ~complete /\ todo = {} /\ fd = Nobody /\ runner # "running"
      /\ Elsewhere
  BY DEF Judge, CampaignInv, DriverInv, Inspecting
<1>1. CASE Clean /\ runner = "zero" /\ Audited
  <2>1. /\ pc' = IF phase = "calibrations" THEN "phase" ELSE "final"
        /\ phase' = "case"
        /\ UNCHANGED <<terminating, todo, fd, record, complete, failed, command,
                       workers, groups>>
    BY <1>0, <1>1 DEF Judge, Elsewhere
  <2>2. /\ \A w \in Workers : seed[w] \in SeedsOf(phase) => w \notin live
        /\ \A s \in SeedsOf(phase) : \E w \in Workers : seed[w] = s /\ at[w] = "ok"
    BY <1>0, <1>1, NobodyLeft
  <2>3. phase \in {"calibrations", "case"}
    BY DEF CampaignInv, CampaignTypeOK
  <2>4. calibrated
    <3>1. CASE phase = "calibrations"
      <4>1. \E w \in Workers : seed[w] = 0 /\ at[w] = "ok"
        BY <2>2, <3>1 DEF SeedsOf
      <4> QED
        BY <4>1 DEF CampaignInv, WorkerInv
    <3>2. CASE phase = "case"
      BY <3>2 DEF CampaignInv, DriverInv
    <3> QED
      BY <2>3, <3>1, <3>2
  <2>5. \A w \in Workers : seed[w] = 0 => w \notin live
    <3>1. CASE phase = "calibrations"
      BY <2>2, <3>1 DEF SeedsOf
    <3>2. CASE phase = "case"
      BY <3>2 DEF CampaignInv, WorkerInv
    <3> QED
      BY <2>3, <3>1, <3>2
  <2>6. CampaignTypeOK'
    BY <2>1 DEF CampaignInv, CampaignTypeOK, workers, groups, command
  <2>7. \A w \in Workers : WorkerInv(w)'
    BY <2>1, <2>5 DEF CampaignInv, WorkerInv, workers, groups
  <2>8. \A s \in Seeds : SeedInv(s)'
    BY <1>0, <2>1 DEF CampaignInv, SeedInv, workers, groups, Seen
  <2>9. DriverInv'
    BY <1>0, <2>1, <2>4 DEF CampaignInv, DriverInv, Inspecting, workers, command
  <2>10. JudgedInv'
    <3>1. runner' = "zero" => ~Busy'
      BY <2>1 DEF CampaignInv, JudgedInv, Busy, workers, command
    <3>2. pc' = "final" => phase = "case"
      BY <2>1, <2>3
    <3>3. ASSUME phase = "case" PROVE live \cap Workers = {}
      <4>1. \A w \in Workers : seed[w] \in Seeds
        BY DEF CampaignInv, CampaignTypeOK
      <4> QED
        BY <2>2, <2>5, <3>3, <4>1 DEF SeedsOf, Seeds
    <3>4. phase = "case" =>
            \A s \in Cases : \E w \in Workers : seed[w] = s /\ at[w] = "ok"
      BY <2>2 DEF SeedsOf
    <3> QED
      BY <1>0, <1>1, <2>1, <3>1, <3>2, <3>3, <3>4 DEF JudgedInv, workers, groups,
         command
  <2> QED
    BY <2>6, <2>7, <2>8, <2>9, <2>10 DEF CampaignInv
<1>2. CASE Fail
  BY <1>0, <1>2, KeptByList DEF Elsewhere, Fail, CampaignInv, CampaignTypeOK, command
<1> QED
  BY <1>1, <1>2 DEF Judge

LEMMA KeptByFinalAudit == CampaignInv /\ FinalAudit => CampaignInv'
<1> SUFFICES ASSUME CampaignInv, FinalAudit PROVE CampaignInv'
  OBVIOUS
<1>0. pc = "final" /\ ~complete /\ todo = {} /\ fd = Nobody /\ runner = "zero"
      /\ Elsewhere
  BY DEF FinalAudit, CampaignInv, DriverInv, JudgedInv, Inspecting
<1>1. CASE Goto("finish")
  <2>1. \A w \in Workers : WorkerInv(w)'
    BY <1>0, <1>1, KeptByMove DEF Goto, Elsewhere
  <2>2. \A s \in Seeds : SeedInv(s)'
    BY <1>0, <1>1, KeptByMove DEF Goto, Elsewhere
  <2>3. CampaignTypeOK'
    BY <1>0, <1>1 DEF CampaignInv, CampaignTypeOK, Goto, Elsewhere, workers, groups,
       command
  <2>4. DriverInv' /\ JudgedInv'
    BY <1>0, <1>1 DEF CampaignInv, DriverInv, JudgedInv, Goto, Elsewhere, Inspecting,
       workers, groups, Busy, command
  <2> QED
    BY <2>1, <2>2, <2>3, <2>4 DEF CampaignInv
<1>2. CASE Fail
  BY <1>0, <1>2, KeptByList DEF Elsewhere, Fail, CampaignInv, CampaignTypeOK, command
<1> QED
  BY <1>1, <1>2 DEF FinalAudit

LEMMA KeptByComplete == CampaignInv /\ Complete => CampaignInv'
<1> SUFFICES ASSUME CampaignInv, Complete PROVE CampaignInv'
  OBVIOUS
<1>0. pc = "finish" /\ complete' = TRUE /\ todo = {} /\ fd = Nobody
      /\ runner = "zero" /\ Elsewhere /\ UNCHANGED <<phase, failed>>
  BY DEF Complete, CampaignInv, DriverInv, JudgedInv, Inspecting
<1>1. CASE pc' = "exit" /\ UNCHANGED <<terminating, todo, fd, record>>
  <2>1. \A w \in Workers : WorkerInv(w)'
    BY <1>0, <1>1, KeptByMove DEF Elsewhere
  <2>2. \A s \in Seeds : SeedInv(s)'
    BY <1>0, <1>1, KeptByMove DEF Elsewhere
  <2>3. CampaignTypeOK'
    BY <1>0, <1>1 DEF CampaignInv, CampaignTypeOK, Elsewhere, workers, groups, command
  <2>4. DriverInv' /\ JudgedInv'
    BY <1>0, <1>1 DEF CampaignInv, DriverInv, JudgedInv, Elsewhere, Inspecting,
       workers, groups, Busy, command
  <2> QED
    BY <2>1, <2>2, <2>3, <2>4 DEF CampaignInv
<1>2. CASE List("cleanup") /\ ~terminating /\ terminating' = TRUE
  BY <1>0, <1>2, KeptByList DEF Elsewhere, CampaignInv, CampaignTypeOK, command
<1> QED
  BY <1>1, <1>2 DEF Complete

LEMMA KeptByCleanedUp == CampaignInv /\ CleanedUp => CampaignInv'
<1> SUFFICES ASSUME CampaignInv, CleanedUp PROVE CampaignInv'
  OBVIOUS
<1>0. pc = "cleanup" /\ todo = {} /\ fd = Nobody /\ Elsewhere /\ pc' = "exit"
      /\ UNCHANGED <<phase, terminating, todo, fd, record, complete>> /\ failed' = TRUE
  BY DEF CleanedUp, CampaignInv, DriverInv
<1>1. \A w \in Workers : WorkerInv(w)'
  BY <1>0, KeptByMove DEF Elsewhere
<1>2. \A s \in Seeds : SeedInv(s)'
  BY <1>0, KeptByMove DEF Elsewhere
<1>3. CampaignTypeOK'
  BY <1>0 DEF CampaignInv, CampaignTypeOK, Elsewhere, workers, groups, command
<1>4. DriverInv' /\ JudgedInv'
  BY <1>0 DEF CampaignInv, DriverInv, JudgedInv, Elsewhere, Inspecting,
     workers, groups, Busy, command
<1> QED
  BY <1>1, <1>2, <1>3, <1>4 DEF CampaignInv

-----------------------------------------------------------------------------
(* The campaign: the runner, its workers and their groups.                 *)

\* A worker or group goes on and the driver does not: what the driver knows of
\* its own place.
LEMMA DriverStays ==
  ASSUME CampaignInv, UNCHANGED <<driver, command>>, calibrated => calibrated',
         \A s \in Seeds : launch[s] # Nobody => launch'[s] = launch[s],
         runner = "zero" => launch' = launch
  PROVE  DriverInv' /\ Next1' = Next1 /\ Inspecting' = Inspecting
<1>1. Next1' = Next1 /\ Inspecting' = Inspecting
  BY DEF Next1, Inspecting, driver
<1>2. fd # Nobody => Next1 \in Seeds /\ launch[Next1] # Nobody
  BY NextReceipt DEF CampaignInv, CampaignTypeOK, DriverInv
<1> QED
  BY <1>1, <1>2 DEF CampaignInv, DriverInv, driver, command

LEMMA KeptByRunnerEnds == CampaignInv /\ RunnerEnds => CampaignInv'
<1> SUFFICES ASSUME CampaignInv, RunnerEnds PROVE CampaignInv'
  OBVIOUS
<1>0. /\ runner = "running" /\ ~complete /\ runner' \in {"zero", "nonzero"}
      /\ pc \in {"wait", "stop", "term", "kill", "cleanup", "exit"}
      /\ UNCHANGED <<driver, report, faults, workers, groups>>
      /\ runner' = "zero" => ~Busy
  BY DEF RunnerEnds, CampaignInv, DriverInv, JudgedInv
<1>00. Next1' = Next1 /\ Inspecting' = Inspecting
  BY <1>0 DEF Next1, Inspecting, driver
<1>1. CampaignTypeOK'
  BY <1>0 DEF CampaignInv, CampaignTypeOK, driver, workers, groups
<1>2. \A w \in Workers : WorkerInv(w)'
  BY <1>0, WorkersKept DEF driver, groups
<1>3. \A s \in Seeds : SeedInv(s)'
  BY <1>0, <1>00 DEF CampaignInv, SeedInv, driver, workers, groups, Seen
<1>4. DriverInv'
  BY <1>0, <1>00 DEF CampaignInv, DriverInv, driver, workers
<1>5. JudgedInv'
  BY <1>0 DEF CampaignInv, JudgedInv, driver, workers, groups, Busy
<1> QED
  BY <1>1, <1>2, <1>3, <1>4, <1>5 DEF CampaignInv

LEMMA KeptBySpawn ==
  ASSUME CampaignInv, NEW w \in Workers, NEW s \in Seeds, Spawn(w, s)
  PROVE  CampaignInv'
<1>0. /\ runner = "running" /\ at[w] = "unborn" /\ s \in SeedsOf(phase)
      /\ group[s] = Nobody
      /\ seed' = [seed EXCEPT ![w] = s] /\ at' = [at EXCEPT ![w] = "spawned"]
      /\ group' = [group EXCEPT ![s] = w] /\ live' = live \cup {w}
      /\ UNCHANGED <<driver, command, launch, executed, calibrated, dying>>
  BY DEF Spawn
<1>1. DriverInv' /\ Next1' = Next1 /\ ~complete /\ pc \notin {"final", "finish"}
  <2>1. ~complete /\ pc \notin {"final", "finish"}
    BY <1>0 DEF CampaignInv, JudgedInv
  <2> QED
    BY <1>0, <2>1, DriverStays DEF CampaignInv, DriverInv, command
<1>2. CampaignTypeOK'
  BY <1>0 DEF CampaignInv, CampaignTypeOK, driver, command
<1>3. ASSUME NEW v \in Workers PROVE WorkerInv(v)'
  <2>1. CASE v = w
    <3>1. seed'[v] = s /\ at'[v] = "spawned" /\ group'[s] = w
      BY <1>0, <2>1 DEF CampaignInv, CampaignTypeOK
    <3>2. phase = "calibrations" => s = 0
      BY <1>0 DEF SeedsOf
    <3>3. phase = "case" => s # 0
      BY <1>0, CampaignNames DEF SeedsOf
    <3> QED
      BY <1>0, <2>1, <3>1, <3>2, <3>3 DEF WorkerInv, driver
  <2>2. CASE v # w
    <3>1. seed'[v] = seed[v] /\ at'[v] = at[v] /\ (v \in live' <=> v \in live)
      BY <1>0, <2>2 DEF CampaignInv, CampaignTypeOK
    <3>2. v \in live => group'[seed[v]] = group[seed[v]]
      <4>1. v \in live => seed[v] # s
        BY <1>0, CampaignNames DEF CampaignInv, WorkerInv, Nobody
      <4> QED
        BY <1>0, <4>1 DEF CampaignInv, CampaignTypeOK
    <3> QED
      BY <1>0, <3>1, <3>2 DEF CampaignInv, WorkerInv, driver
  <2> QED
    BY <2>1, <2>2
<1>4. ASSUME NEW t \in Seeds PROVE SeedInv(t)'
  <2>1. launch[t] # Nobody => launch[t] \in Workers /\ launch[t] # w
    BY <1>0 DEF CampaignInv, CampaignTypeOK, SeedInv
  <2>2. launch[t] # Nobody =>
            seed'[launch[t]] = seed[launch[t]] /\ at'[launch[t]] = at[launch[t]]
    BY <1>0, <2>1 DEF CampaignInv, CampaignTypeOK
  <2> QED
    BY <1>0, <1>1, <2>1, <2>2 DEF CampaignInv, SeedInv, driver, Seen
<1>5. JudgedInv'
  BY <1>0, <1>1 DEF CampaignInv, JudgedInv, driver, command
<1> QED
  BY <1>1, <1>2, <1>3, <1>4, <1>5 DEF CampaignInv

LEMMA KeptByLaunch ==
  ASSUME CampaignInv, NEW w \in Workers, at[w] = "spawned", launch[seed[w]] = Nobody,
         launch' = [launch EXCEPT ![seed[w]] = w],
         at' = [at EXCEPT ![w] = "launched"],
         UNCHANGED <<driver, command, groups, seed, executed, calibrated>>
  PROVE  CampaignInv'
<1>0. seed[w] \in Seeds /\ runner # "zero"
  BY DEF CampaignInv, CampaignTypeOK, JudgedInv, Busy
<1>1. CampaignTypeOK'
  BY <1>0 DEF CampaignInv, CampaignTypeOK, driver, groups, command
<1>2. ASSUME NEW v \in Workers PROVE WorkerInv(v)'
  <2>1. CASE v = w
    BY <1>0, <2>1 DEF CampaignInv, CampaignTypeOK, WorkerInv, driver, groups
  <2>2. CASE v # w
    <3>1. at'[v] = at[v]
      BY <2>2 DEF CampaignInv, CampaignTypeOK
    <3>2. launch[seed[v]] = v => launch'[seed[v]] = v
      BY <1>0, CampaignNames DEF CampaignInv, CampaignTypeOK, Nobody
    <3> QED
      BY <3>1, <3>2 DEF CampaignInv, WorkerInv, driver, groups
  <2> QED
    BY <2>1, <2>2
<1>3. \A s \in Seeds : launch[s] # Nobody => launch'[s] = launch[s]
  BY <1>0 DEF CampaignInv, CampaignTypeOK
<1>4. DriverInv' /\ Next1' = Next1
  BY <1>0, <1>3, DriverStays
<1>5. ASSUME NEW s \in Seeds PROVE SeedInv(s)'
  <2>1. CASE s = seed[w]
    <3>1. launch'[s] = w /\ at'[w] = "launched" /\ record[s] = "none"
      BY <1>0, <2>1 DEF CampaignInv, CampaignTypeOK, SeedInv
    <3> QED
      BY <1>0, <1>4, <2>1, <3>1, CampaignNames DEF CampaignInv, SeedInv, driver, groups, Seen
  <2>2. CASE s # seed[w]
    <3>1. launch'[s] = launch[s]
      BY <2>2 DEF CampaignInv, CampaignTypeOK
    <3>2. launch[s] # Nobody => launch[s] # w /\ launch[s] \in Workers
      BY <2>2 DEF CampaignInv, CampaignTypeOK, SeedInv
    <3>3. launch[s] # Nobody => at'[launch[s]] = at[launch[s]]
      BY <3>2 DEF CampaignInv, CampaignTypeOK
    <3> QED
      BY <1>4, <3>1, <3>3 DEF CampaignInv, SeedInv, driver, groups, Seen
  <2> QED
    BY <2>1, <2>2
<1>6. JudgedInv'
  <2>1. ~complete /\ pc \notin {"final", "finish"}
    BY <1>0 DEF CampaignInv, JudgedInv
  <2> QED
    BY <1>0, <2>1 DEF JudgedInv, driver, command
<1> QED
  BY <1>1, <1>2, <1>4, <1>5, <1>6 DEF CampaignInv

\* A worker that has begun goes on, ends or is killed, and perhaps its processes
\* with it.
LEMMA KeptByProgress ==
  ASSUME CampaignInv, NEW w \in Workers, NEW where \in {"running", "ok", "failed"},
         at[w] \in {"spawned", "launched", "running"},
         at' = [at EXCEPT ![w] = where],
         where = "running" => at[w] = "launched",
         where = "ok" => at[w] = "running",
         live' \subseteq live,
         \A s \in Seeds : executed'[s] =
           IF where = "running" /\ s = seed[w] THEN 1 ELSE executed[s],
         executed' \in [Seeds -> Nat],
         calibrated' \in BOOLEAN, calibrated => calibrated',
         where = "ok" /\ seed[w] = 0 => calibrated',
         UNCHANGED <<driver, command, seed, group, dying, launch>>
  PROVE  CampaignInv'
<1>0. seed[w] \in Seeds /\ runner # "zero"
  BY DEF CampaignInv, CampaignTypeOK, JudgedInv, Busy
<1>1. CampaignTypeOK'
  BY <1>0 DEF CampaignInv, CampaignTypeOK, driver, command
<1>2. ASSUME NEW v \in Workers PROVE WorkerInv(v)'
  <2>0. seed[v] \in Seeds
    BY DEF CampaignInv, CampaignTypeOK
  <2>1. CASE v = w
    <3>1. at'[v] = where
      BY <2>1 DEF CampaignInv, CampaignTypeOK
    <3> QED
      BY <1>0, <2>1, <3>1 DEF CampaignInv, WorkerInv, driver
  <2>2. CASE v # w
    <3>1. at'[v] = at[v]
      BY <2>2 DEF CampaignInv, CampaignTypeOK
    <3> QED
      BY <2>0, <3>1 DEF CampaignInv, WorkerInv, driver
  <2> QED
    BY <2>1, <2>2
<1>3. DriverInv' /\ Next1' = Next1
  BY DriverStays
<1>4. ASSUME NEW s \in Seeds PROVE SeedInv(s)'
  <2>1. launch[s] # Nobody => launch[s] \in Workers
    BY DEF CampaignInv, CampaignTypeOK
  <2>2. launch[s] # Nobody => at'[launch[s]] \notin {"unborn", "spawned"}
    BY <2>1 DEF CampaignInv, CampaignTypeOK, SeedInv
  <2>3. executed'[s] \in {0, 1}
    BY DEF CampaignInv, SeedInv
  <2>4. executed'[s] = 1 /\ s \in Cases => phase = "case"
    <3>1. phase \in {"calibrations", "case"} /\ (phase = "calibrations" => seed[w] = 0)
      BY DEF CampaignInv, CampaignTypeOK, WorkerInv
    <3> QED
      BY <3>1, CampaignNames DEF CampaignInv, SeedInv
  <2> QED
    BY <1>3, <2>2, <2>3, <2>4 DEF CampaignInv, SeedInv, driver, Seen
<1>5. JudgedInv'
  <2>1. ~complete /\ pc \notin {"final", "finish"}
    BY <1>0 DEF CampaignInv, JudgedInv
  <2> QED
    BY <1>0, <2>1 DEF JudgedInv, driver, command
<1> QED
  BY <1>1, <1>2, <1>3, <1>4, <1>5 DEF CampaignInv

LEMMA KeptByWorker ==
  ASSUME CampaignInv, NEW w \in Workers, Launch(w) \/ Execute(w) \/ Finish(w)
  PROVE  CampaignInv'
<1>0. seed[w] \in Seeds /\ executed \in [Seeds -> Nat] /\ at \in [Workers ->
        {"unborn", "spawned", "launched", "running", "ok", "failed"}]
      /\ calibrated \in BOOLEAN
  BY DEF CampaignInv, CampaignTypeOK
<1>1. CASE at[w] \in {"spawned", "launched"} /\ WorkerFails(w)
  BY <1>0, <1>1, KeptByProgress DEF WorkerFails
<1>2. CASE Launch(w) /\ ~WorkerFails(w)
  BY <1>2, KeptByLaunch DEF Launch
<1>3. CASE Execute(w) /\ ~WorkerFails(w)
  <2>1. /\ at[w] = "launched" /\ executed[seed[w]] = 0
        /\ executed' = [executed EXCEPT ![seed[w]] = @ + 1]
        /\ at' = [at EXCEPT ![w] = "running"]
        /\ UNCHANGED <<driver, command, groups, seed, launch, calibrated>>
    BY <1>3 DEF Execute
  <2>2. /\ executed' \in [Seeds -> Nat]
        /\ \A s \in Seeds : executed'[s] = IF s = seed[w] THEN 1 ELSE executed[s]
    BY <1>0, <2>1
  <2> QED
    BY <1>0, <2>1, <2>2, KeptByProgress DEF groups
<1>4. CASE Finish(w)
  <2>1. PICK where \in {"ok", "failed"} : at' = [at EXCEPT ![w] = where]
    BY <1>4 DEF Finish
  <2>2. at'[w] = where
    BY <1>0, <2>1
  <2> QED
    BY <1>0, <1>4, <2>1, <2>2, KeptByProgress DEF Finish
<1> QED
  BY <1>1, <1>2, <1>3, <1>4 DEF Launch, Execute

\* Only groups change, to the empty or to somebody else's name.
LEMMA KeptByGroups ==
  ASSUME CampaignInv, NEW new \in [Seeds -> Workers \cup {"stranger", Nobody}],
         group' = new, live' \subseteq Workers \cup {"stranger"},
         live' \cap Workers \subseteq live,
         \A w \in live' \cap Workers : new[seed[w]] = w,
         UNCHANGED <<driver, command, workers, dying>>
  PROVE  CampaignInv'
<1>1. CampaignTypeOK'
  BY DEF CampaignInv, CampaignTypeOK, driver, workers, command
<1>2. \A w \in Workers : WorkerInv(w)'
  BY DEF CampaignInv, WorkerInv, driver, workers
<1>3. DriverInv' /\ Next1' = Next1
  BY DriverStays DEF workers
<1>4. ASSUME NEW s \in Seeds PROVE SeedInv(s)'
  <2>1. launch[s] # Nobody => launch[s] \in Workers
    BY DEF CampaignInv, CampaignTypeOK
  <2> QED
    BY <1>3, <2>1 DEF CampaignInv, SeedInv, driver, workers, Seen
<1>5. JudgedInv'
  BY DEF CampaignInv, JudgedInv, driver, workers, Busy, command
<1> QED
  BY <1>1, <1>2, <1>3, <1>4, <1>5 DEF CampaignInv

LEMMA KeptByDrains ==
  ASSUME CampaignInv, NEW g \in live, Drains(g)
  PROVE  CampaignInv'
<1>0. /\ live' = live \ {g} /\ group' = group
      /\ UNCHANGED <<driver, command, seed, launch, executed, calibrated, dying>>
      /\ g \in Workers \cup {"stranger"} /\ at \in [Workers ->
            {"unborn", "spawned", "launched", "running", "ok", "failed"}]
  BY DEF Drains, CampaignInv, CampaignTypeOK
<1>1. CASE g \in Workers /\ at[g] \notin {"ok", "failed"}
  <2>1. at[g] \in {"spawned", "launched", "running"}
    BY <1>0, <1>1 DEF CampaignInv, WorkerInv
  <2>2. at' = [at EXCEPT ![g] = "failed"]
    BY <1>1 DEF Drains
  <2>3. executed' \in [Seeds -> Nat] /\ calibrated' \in BOOLEAN
    BY <1>0 DEF CampaignInv, CampaignTypeOK
  <2> QED
    BY <1>0, <1>1, <2>1, <2>2, <2>3, KeptByProgress
<1>2. CASE ~(g \in Workers /\ at[g] \notin {"ok", "failed"})
  <2>1. at' = at
    BY <1>2 DEF Drains
  <2>2. group \in [Seeds -> Workers \cup {"stranger", Nobody}]
        /\ live \subseteq Workers \cup {"stranger"}
    BY DEF CampaignInv, CampaignTypeOK
  <2>3. \A w \in live \cap Workers : group[seed[w]] = w
    BY DEF CampaignInv, WorkerInv
  <2> QED
    BY <1>0, <2>1, <2>2, <2>3, KeptByGroups DEF workers
<1> QED
  BY <1>1, <1>2

LEMMA KeptByNames ==
  ASSUME CampaignInv, NEW s \in Seeds, Remove(s) \/ Reuse(s)
  PROVE  CampaignInv'
<1>1. /\ group \in [Seeds -> Workers \cup {"stranger", Nobody}]
      /\ live \subseteq Workers \cup {"stranger"}
      /\ \A w \in live \cap Workers : group[seed[w]] = w /\ seed[w] \in Seeds
  BY DEF CampaignInv, CampaignTypeOK, WorkerInv
<1>2. CASE Remove(s)
  <2> DEFINE new == [group EXCEPT ![s] = Nobody]
  <2>1. new \in [Seeds -> Workers \cup {"stranger", Nobody}]
    BY <1>1
  <2>2. \A w \in live \cap Workers : new[seed[w]] = w
    BY <1>1, <1>2 DEF Remove
  <2> HIDE DEF new
  <2>3. group' = new
    BY <1>2 DEF Remove, new
  <2> QED
    BY <1>1, <1>2, <2>1, <2>2, <2>3, KeptByGroups DEF Remove
<1>3. CASE Reuse(s)
  <2> DEFINE new == [group EXCEPT ![s] = "stranger"]
  <2>1. new \in [Seeds -> Workers \cup {"stranger", Nobody}]
    BY <1>1
  <2>2. \A w \in live \cap Workers : new[seed[w]] = w
    BY <1>1, <1>3, CampaignNames DEF Reuse, Nobody
  <2> HIDE DEF new
  <2>3. group' = new /\ live' \cap Workers = live \cap Workers
        /\ live' \subseteq Workers \cup {"stranger"}
    BY <1>1, <1>3, CampaignNames DEF Reuse, new
  <2> QED
    BY <1>1, <1>3, <2>1, <2>2, <2>3, KeptByGroups DEF Reuse
<1> QED
  BY <1>2, <1>3

LEMMA CampaignInvStep == CampaignInv /\ [CampaignNext]_campaignVars => CampaignInv'
<1> SUFFICES ASSUME CampaignInv, [CampaignNext]_campaignVars PROVE CampaignInv'
  OBVIOUS
<1>1. CASE UNCHANGED campaignVars
  <2>1. UNCHANGED <<driver, command, workers, groups>>
    BY <1>1 DEF campaignVars
  <2>2. /\ group \in [Seeds -> Workers \cup {"stranger", Nobody}]
        /\ live \subseteq Workers \cup {"stranger"}
        /\ \A w \in live \cap Workers : group[seed[w]] = w
    BY DEF CampaignInv, CampaignTypeOK, WorkerInv
  <2> QED
    BY <2>1, <2>2, KeptByGroups DEF groups
<1>2. CASE Driver
  BY <1>2, KeptByBeginPhase, KeptByStartRunner, KeptByRunnerReturned, KeptByStop,
     KeptByStopping, KeptByCancelled, KeptByOpenGroup, KeptByKillGroup,
     KeptByAwaitDrain, KeptByInspected, KeptByJudge, KeptByFinalAudit,
     KeptByComplete, KeptByCleanedUp DEF Driver, TimedOut
<1>3. CASE RunnerEnds
  BY <1>3, KeptByRunnerEnds
<1>4. CASE \E w \in Workers :
             \/ \E s \in Seeds : Spawn(w, s)
             \/ Launch(w) \/ Execute(w) \/ Finish(w)
  BY <1>4, KeptBySpawn, KeptByWorker
<1>5. CASE \E g \in live : Drains(g)
  BY <1>5, KeptByDrains
<1>6. CASE \E s \in Seeds : Remove(s) \/ Reuse(s)
  BY <1>6, KeptByNames
<1> QED
  BY <1>1, <1>2, <1>3, <1>4, <1>5, <1>6 DEF CampaignNext

-----------------------------------------------------------------------------
(* The campaign: the theorems.                                             *)

\* The invariant holds in every reachable state.
THEOREM CampaignInvariant == CampaignSpec => []CampaignInv
BY CampaignInvInit, CampaignInvStep, PTL DEF CampaignSpec

\* The receipts mean what they say: no input is executed twice or before the
\* calibrations have passed, and complete.json is only written when every worker
\* succeeded and left no process (run, worker).
THEOREM Verdict == CampaignSpec => []VerdictInv
<1>1. CampaignInv => VerdictInv
  <2> SUFFICES ASSUME CampaignInv PROVE VerdictInv
    OBVIOUS
  <2>1. InputsOnce
    BY CampaignNames DEF CampaignInv, CampaignTypeOK, SeedInv, DriverInv, InputsOnce
  <2>2. CompleteIsTrue
    BY DEF CampaignInv, CampaignTypeOK, JudgedInv, WorkerInv, CompleteIsTrue
  <2> QED
    BY <2>1, <2>2 DEF CampaignInv, VerdictInv
<1> QED
  BY <1>1, CampaignInvariant, PTL

\* The runner outlives command only with a receipt that was not completed or
\* names what failed, and a failed campaign has drained every worker it could
\* find, or recorded why not, even while a runner that could not be stopped goes
\* on (stop_process, command, inspect_leftovers).
THEOREM Teardown == CampaignSpec => []TornDown
<1>1. CampaignInv => TornDown
  <2>1. CampaignInv => (report \in {"exited", "stopped"} => runner # "running")
    BY DEF CampaignInv, DriverInv
  <2>2. ASSUME CampaignInv, pc = "exit", NEW s \in Seeds,
               record[s] \notin {"none", "error"}
        PROVE  launch[s] \notin live
    <3>1. todo = {}
      BY <2>2 DEF CampaignInv, DriverInv, Inspecting
    <3> QED
      BY <2>2, <3>1 DEF CampaignInv, CampaignTypeOK, SeedInv, Seen
  <2> QED
    BY <2>1, <2>2 DEF TornDown
<1> QED
  BY <1>1, CampaignInvariant, PTL

\* Nobody else's processes are killed, whatever happens to the pathname between
\* the receipt and the kill (inspect_leftovers).
THEOREM OwnOnly == CampaignSpec => OnlyOwnKilled
<1>1. CampaignInv /\ [CampaignNext]_campaignVars =>
        [dying' \ dying \subseteq {launch[s] : s \in Seeds}]_campaignVars
  <2> SUFFICES ASSUME CampaignInv, CampaignNext
               PROVE  dying' \ dying \subseteq {launch[s] : s \in Seeds}
    OBVIOUS
  <2>1. CASE KillGroup
    <3>1. Inspecting /\ todo # {} /\ fd # Nobody
      BY <2>1 DEF KillGroup, CampaignInv, DriverInv
    <3>2. Next1 \in Seeds /\ fd = launch[Next1]
      BY <3>1, OpenFacts
    <3>3. dying' \subseteq dying \cup {fd}
      BY <2>1 DEF KillGroup
    <3> QED
      BY <3>2, <3>3
  <2>2. CASE Driver /\ ~KillGroup
    BY <2>2 DEF Driver, BeginPhase, StartRunner, RunnerReturned, TimedOut, SendTerm,
       AwaitTerm, AwaitKill, Reraised, Signalled, Cancelled, OpenGroup, AwaitDrain,
       Inspected, Judge, FinalAudit, Complete,
       CleanedUp, Elsewhere, groups
  <2>3. CASE ~Driver
    BY <2>3 DEF CampaignNext, RunnerEnds, Spawn, Launch, Execute, Finish, WorkerFails,
       Drains, Remove, Reuse, groups
  <2> QED
    BY <2>1, <2>2, <2>3
<1> QED
  BY <1>1, CampaignInvariant, PTL DEF CampaignSpec, OnlyOwnKilled
=============================================================================
