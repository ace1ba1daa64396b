--------------------------- MODULE AdmissionGate ---------------------------
(***************************************************************************)
(* The page ledger of the admission gate: pages are registered with a      *)
(* snapshot of their bytes, scanned and published on their first fault,    *)
(* revoked when a page they were published with changes, and gated for     *)
(* good when a publication may have written part of its bundle (ModelGate  *)
(* of src/crates/liteinst-admission/src/model.rs).                         *)
(*                                                                         *)
(* Addresses are counted in pages.  The pages belong to one mapping, and   *)
(* entry facts and policy are identified with the generation, which the    *)
(* crate's README says must advance with them.  A snapshot may reach into  *)
(* the pages around the one it is registered for; how far inside a page a  *)
(* halo reaches is left out.  Every call holds the ledger's lock from      *)
(* beginning to end, so a call is one step.                                *)
(***************************************************************************)
EXTENDS Integers, FiniteSets

CONSTANTS
  Pages,          \* page numbers
  Snapshots,      \* the snapshots callers pass
  Extras,         \* the sets of dependencies publishers add to a plan
  NoSnapshot      \* what the ledger holds for an absent page

\* lo..hi are the pages a snapshot has bytes of; before and after say what
\* its owner asserts of the bytes around them; settled: no writer but the
\* owner and no saved resume; decodes: the scan has no other obligation.
SnapshotType ==
  [gen : Nat, lo : Int, hi : Int, bytes : [Pages -> Nat],
   before : {"closed", "unknown"}, after : {"closed", "unknown"},
   settled : BOOLEAN, decodes : BOOLEAN]

DependencyType == [page : Pages, snap : Snapshots]

ASSUME AdmissionGateAssumption ==
  /\ Pages \subseteq Int
  /\ Snapshots \subseteq SnapshotType
  /\ \A s \in Snapshots : s.lo..s.hi \subseteq Pages
  /\ Extras \subseteq SUBSET DependencyType
  /\ NoSnapshot \notin Snapshots

VARIABLES
  state,          \* per page: PageState, or "Missing"
  snap,           \* per page: its current snapshot
  ever,           \* pages that were admitted at some time
  deps,           \* per page: the bundle of its publication
  serial,         \* transactions begun
  publications,   \* transactions that admitted a page
  broken,         \* a callback panicked while the ledger was locked
  torn            \* pages a publication may have changed without a receipt

vars == <<state, snap, ever, deps, serial, publications, broken, torn>>

Init ==
  /\ state = [p \in Pages |-> "Missing"]
  /\ snap = [p \in Pages |-> NoSnapshot]
  /\ ever = {} /\ deps = [p \in Pages |-> {}]
  /\ serial = 0 /\ publications = 0
  /\ broken = FALSE /\ torn = {}

Registered == {p \in Pages : state[p] # "Missing"}

-----------------------------------------------------------------------------
(* Boundary claims and registration.                                       *)

\* s claims that nothing executable is where page q is.
Excludes(s, q) ==
  \/ s.before = "closed" /\ q = s.lo - 1
  \/ s.after = "closed" /\ q = s.hi + 1

\* Mutation of Consistent: only the newcomer's claims are looked at.
ConsistentNewOnly(p, s) == \A q \in Registered \ {p} : ~Excludes(s, q)
\* check_boundaries.
Consistent(p, s) ==
  \A q \in Registered \ {p} : ~Excludes(s, q) /\ ~Excludes(snap[q], p)

Register(p, s) ==
  /\ ~broken /\ p \notin Registered
  /\ p \in s.lo..s.hi /\ Consistent(p, s)
  /\ state' = [state EXCEPT ![p] = "Unknown"]
  /\ snap' = [snap EXCEPT ![p] = s]
  /\ UNCHANGED <<ever, deps, serial, publications, broken, torn>>

-----------------------------------------------------------------------------
(* Admission.                                                              *)

\* The pages whose bytes the scan of p looked at.
Halo(p) == {q \in snap[p].lo..snap[p].hi : q \in (p - 1)..(p + 1)}

\* The scan's verdict: bytes or a closed boundary on both sides of p, and no
\* obligation left.
Scans(p) ==
  /\ snap[p].lo < p \/ snap[p].before = "closed"
  /\ snap[p].hi > p \/ snap[p].after = "closed"
  /\ snap[p].settled /\ snap[p].decodes

\* States from which a request goes on to the scan.
Pending(p) ==
  /\ ~broken /\ p \in Registered
  /\ state[p] \notin {"Admitted", "Poisoned", "Refused"}

Refuse(p) ==
  /\ state' = [state EXCEPT ![p] = "Refused"]
  /\ UNCHANGED <<snap, ever, deps, publications, broken, torn>>

\* A page that was admitted once is not republished: its saved program
\* counters cannot be ruled out.
AdmitAgain(p) == Pending(p) /\ p \in ever /\ Refuse(p) /\ UNCHANGED serial

ScanRefuses(p) ==
  Pending(p) /\ p \notin ever /\ ~Scans(p) /\ Refuse(p) /\ UNCHANGED serial

\* The dependencies of a plan: what the publisher added and the scanned bytes.
Depends(p, extras) ==
  {[page |-> d.page, snap |-> d.snap] : d \in extras}
    \cup {[page |-> q, snap |-> snap[p]] : q \in Halo(p)}
Bundle(p, extras) == {d.page : d \in Depends(p, extras)}

\* Page b cannot be written.
Unsafe(b) ==
  \/ b \in ever \/ state[b] \in {"Poisoned", "Refused"}
  \/ ~snap[b].settled
  \/ \E a \in Pages : state[a] = "Admitted" /\ b \in deps[a]

\* Mutation of Agrees: changed bytes of the same generation are not noticed.
AgreesByGeneration(b, s) == snap[b].gen = s.gen
\* What the plan saw of page b is what the ledger holds.
Agrees(b, s) == snap[b].gen = s.gen /\ snap[b].bytes[b] = s.bytes[b]

\* validate_plan, for a plan with this scan's facts and all its sites.
Valid(p, extras) ==
  \A d \in Depends(p, extras) :
    d.page \in Registered /\ ~Unsafe(d.page) /\ Agrees(d.page, d.snap)

\* The publisher has no plan, returns one with other facts or missing sites,
\* or one that depends on what the ledger does not hold.
PlanRefused(p) ==
  Pending(p) /\ p \notin ever /\ Scans(p) /\ Refuse(p) /\ UNCHANGED serial

\* plan() panics: the page stays as it is and the lock is poisoned.
PlannerPanics(p) ==
  /\ Pending(p) /\ p \notin ever /\ Scans(p)
  /\ state' = [state EXCEPT ![p] = "Scanning"] /\ broken' = TRUE
  /\ UNCHANGED <<snap, ever, deps, serial, publications, torn>>

Planned(p, extras) ==
  /\ Pending(p) /\ p \notin ever /\ Scans(p) /\ Valid(p, extras)
  /\ serial' = serial + 1

\* The receipt that publish() returns is this gate's and this transaction's.
Genuine(receipt) == receipt = serial + 1

Published(p, extras, receipt) ==
  /\ Planned(p, extras) /\ Genuine(receipt)
  /\ state' = [state EXCEPT ![p] = "Admitted"]
  /\ ever' = ever \cup {p}
  /\ deps' = [deps EXCEPT ![p] = Bundle(p, extras)]
  /\ publications' = publications + 1
  /\ UNCHANGED <<snap, broken, torn>>

\* Mutation of Poison: only the page that was asked for is gated.
PoisonEntryOnly(p, extras) == [state EXCEPT ![p] = "Poisoned"]
Poison(p, extras) ==
  [q \in Pages |-> IF q \in Bundle(p, extras) THEN "Poisoned" ELSE state[q]]

\* Another receipt, or a failure that may have come after a write.
PublishedUncertain(p, extras, receipt) ==
  /\ Planned(p, extras) /\ ~Genuine(receipt)
  /\ state' = Poison(p, extras)
  /\ torn' = torn \cup Bundle(p, extras)
  /\ UNCHANGED <<snap, ever, deps, publications, broken>>

\* A failure that publish() reports as one before any write.
PublishedNothing(p, extras) == Planned(p, extras) /\ Refuse(p)

\* publish() panics, perhaps after a write.
PublisherPanics(p, extras) ==
  /\ Planned(p, extras)
  /\ state' = [state EXCEPT ![p] = "Certified"] /\ broken' = TRUE
  /\ torn' = torn \cup Bundle(p, extras)
  /\ UNCHANGED <<snap, ever, deps, publications>>

-----------------------------------------------------------------------------
(* Invalidation.                                                           *)

\* C contains every page whose bundle meets it.
Closed(C) == \A q \in Registered : deps[q] \cap C # {} => q \in C

\* dependent_closure: the least closed set around p.
Dependents(p) ==
  {q \in Registered : \A C \in SUBSET Registered : p \in C /\ Closed(C) => q \in C}

Invalidate(p, s) ==
  /\ ~broken /\ p \in Registered /\ state[p] # "Poisoned"
  /\ Consistent(p, s)
  /\ s.gen > snap[p].gen /\ p \in s.lo..s.hi
  /\ state' = [q \in Pages |->
                 IF q \in Dependents(p) /\ state[q] # "Poisoned"
                 THEN "Invalidated" ELSE state[q]]
  /\ snap' = [snap EXCEPT ![p] = s]
  /\ UNCHANGED <<ever, deps, serial, publications, broken, torn>>

Next ==
  \E p \in Pages :
    \/ \E s \in Snapshots : Register(p, s) \/ Invalidate(p, s)
    \/ AdmitAgain(p) \/ ScanRefuses(p) \/ PlanRefused(p) \/ PlannerPanics(p)
    \/ \E extras \in Extras :
         \/ PublishedNothing(p, extras) \/ PublisherPanics(p, extras)
         \/ \E receipt \in 0..(serial + 1) :
              \/ Published(p, extras, receipt)
              \/ PublishedUncertain(p, extras, receipt)

Spec == Init /\ [][Next]_vars

-----------------------------------------------------------------------------
(* Properties.                                                             *)

TypeOK ==
  /\ state \in [Pages -> {"Missing", "Unknown", "Scanning", "Certified",
                          "Admitted", "Invalidated", "Refused", "Poisoned"}]
  /\ snap \in [Pages -> Snapshots \cup {NoSnapshot}]
  /\ \A p \in Registered : snap[p] \in Snapshots /\ p \in snap[p].lo..snap[p].hi
  /\ ever \subseteq Registered /\ torn \subseteq Registered
  /\ deps \in [Pages -> SUBSET Pages]
  /\ serial \in Nat /\ publications \in Nat /\ broken \in BOOLEAN

\* No registered page is where a neighbour's owner claims nothing executable,
\* in whatever order they were registered and replaced (check_boundaries).
BoundariesAgree ==
  \A p, q \in Registered : p # q => ~Excludes(snap[p], q)

\* A page is published once, however often it faults (admit).
PublishedOnce == publications = Cardinality(ever)

\* The ledger is well formed.
GateInv == TypeOK /\ BoundariesAgree /\ PublishedOnce

\* The scan that admitted a page is still true: every registered page that can
\* hold a part of one of its instructions has the generation and the bytes the
\* scan saw (facts.dependency, validate_plan, invalidate).
AdmittedIsCurrent ==
  \A a \in Pages : state[a] = "Admitted" =>
    \A d \in Registered \cap (a - 1)..(a + 1) :
      /\ d \in snap[a].lo..snap[a].hi
      /\ snap[d].gen = snap[a].gen /\ snap[d].bytes[d] = snap[a].bytes[d]

\* Two admitted pages never share a page that one of them may have written.
BundlesDisjoint ==
  \A a, b \in Pages :
    state[a] = "Admitted" /\ state[b] = "Admitted" /\ a # b =>
      deps[a] \cap deps[b] = {}

\* No page that may be half written is given out again: its whole bundle is
\* poisoned for good, or the ledger is closed (admit, uncertain receipts).
TornIsGated == broken \/ \A p \in torn : state[p] = "Poisoned"

\* Bundles are kept apart.
BundleInv == BundlesDisjoint /\ TornIsGated
=============================================================================
