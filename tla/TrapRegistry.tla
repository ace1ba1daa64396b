--------------------------- MODULE TrapRegistry ----------------------------
(***************************************************************************)
(* The process-wide registry of patch sites (src/src/trap.rs) and the      *)
(* clients that share it: LiveJumpPatch handles (src/src/patcher.rs),      *)
(* RapidProbe (src/src/rapid.rs) and quiescent installations               *)
(* (src/src/quiescent.rs).                                                 *)
(*                                                                         *)
(* Code is an array of bytes; a byte is "orig" or the client whose patch   *)
(* put it there.  A jump patch stores a whole window of WindowLen bytes of *)
(* which only the first JumpLen are its own: the rest may belong to a      *)
(* neighbour, whose bytes the store has to carry over.  Each action that   *)
(* runs under REGISTRY_LOCK is one step.  A try_lock that loses, and every *)
(* other Contended refusal, changes nothing and is a stuttering step.      *)
(***************************************************************************)
EXTENDS Integers

CONSTANTS
  CodeLen,      \* the modelled code is 0 .. CodeLen-1
  WindowLen,    \* WORD_PATCH_BYTES
  JumpLen,      \* NEAR_JUMP_BYTES
  Boundaries,   \* cache-line boundaries in the code
  JumpSites,    \* instruction heads at which jump patches are planned
  Displaced,    \* bytes of whole instructions a jump at each head displaces
  Handles,      \* LiveJumpPatch handles
  Rapids,       \* rapid probes
  Quiescents,   \* quiescent installations
  SiteOf        \* the head each rapid probe and installation patches

ASSUME ScaleAssumption ==
  /\ CodeLen \in Nat /\ JumpLen \in Nat /\ WindowLen \in Nat
  /\ 0 < JumpLen /\ JumpLen < WindowLen /\ WindowLen < 2 * JumpLen
  /\ WindowLen <= CodeLen

ASSUME SitesAssumption ==
  /\ Boundaries \subseteq Nat
  /\ JumpSites \subseteq 0 .. CodeLen - WindowLen
  /\ Displaced \in [JumpSites -> Nat]
  /\ \A x \in JumpSites : Displaced[x] >= JumpLen
  /\ SiteOf \in [Rapids \cup Quiescents -> 0 .. CodeLen - JumpLen]

ASSUME ClientsAssumption ==
  /\ "orig" \notin Handles \cup Rapids \cup Quiescents
  /\ Handles \cap (Rapids \cup Quiescents) = {}
  /\ Rapids \cap Quiescents = {}

VARIABLES
  mem,        \* the live code
  kind,       \* which TrapSite is registered at each address, if any
  dispEnd,    \* TrapSite::displaced_end
  phase,      \* TrapSite::phase
  original,   \* WordSite::original
  committed,  \* WordSite::committed
  pending,    \* clients that hold a PendingTrapSite
  hpc,        \* control state of each handle
  site,       \* execute_address of each handle's plan
  displaced,  \* displaced_len of each handle's plan
  orig,       \* original bytes of each handle's plan
  tail,       \* canonical_tail of each handle, as a whole window
  exp, rep,   \* expected and replacement of the publication under way
  done,       \* its result
  cpc         \* control state of rapid probes and quiescent installations

registry == <<kind, dispEnd, phase, original, committed, pending>>
plans    == <<site, displaced, orig, tail>>
vars == <<mem, registry, hpc, plans, exp, rep, done, cpc>>

Addr    == 0 .. CodeLen - 1
Clients == Rapids \cup Quiescents
Byte    == {"orig"} \cup Handles \cup Clients
Index   == 0 .. WindowLen - 1
Own     == 0 .. JumpLen - 1
Sites   == {x \in Addr : kind[x] # "none"}

-----------------------------------------------------------------------------
(* Windows, intervals and reservations.                                    *)

Window(m, x) == [i \in Index |-> m[x + i]]

Stored(m, x, img) ==
  [a \in Addr |-> IF a \in x .. x + WindowLen - 1 THEN img[a - x] ELSE m[a]]

\* The plan's replacement: its jump over the captured bytes.
Jump(h) == [i \in Index |-> IF i \in Own THEN h ELSE orig[h][i]]

WithTail(img, t) == [i \in Index |-> IF i \in Own THEN img[i] ELSE t[i]]

Overlap(a, b) == a[1] < b[2] /\ b[1] < a[2]

\* classify_word_patch: does a cache-line boundary cut the window?
Cut(x)      == {b \in Boundaries : x < b /\ b < x + WindowLen}
Strategy(x) == IF Cut(x) = {} THEN "word" ELSE "split"

\* What a jump patch at x reserves: its window, or the two aligned words
\* around the boundary.
Reservation(x, k) ==
  CASE k = "word"  -> <<x, x + WindowLen>>
    [] k = "split" -> LET b == CHOOSE b \in Cut(x) : TRUE
                      IN <<b - WindowLen, b + WindowLen>>
    [] k = "rapid" -> <<x, x + JumpLen>>

Span(x) ==   \* a site's reservation and displaced interval together
  LET r == Reservation(x, kind[x])
  IN  <<IF r[1] < x THEN r[1] ELSE x,
        IF r[2] > dispEnd[x] THEN r[2] ELSE dispEnd[x]>>

ClientRange(c) == <<SiteOf[c], SiteOf[c] + JumpLen>>

\* Mutation of PendingOverlaps: pending reservations are not consulted.
NothingPending(r) == FALSE

PendingOverlaps(r) == \E c \in pending : Overlap(r, ClientRange(c))

\* Registered word sites whose first bytes lie in the tail of window x.
Upper(x) == {y \in Sites : x < y /\ y < x + WindowLen /\ kind[y] = "word"}

-----------------------------------------------------------------------------
Init ==
  /\ mem = [a \in Addr |-> "orig"]
  /\ kind = [a \in Addr |-> "none"]
  /\ dispEnd = [a \in Addr |-> a]
  /\ phase = [a \in Addr |-> "IDLE"]
  /\ original = [a \in Addr |-> [i \in Index |-> "orig"]]
  /\ committed = [a \in Addr |-> [i \in Index |-> "orig"]]
  /\ pending = {}
  /\ hpc = [h \in Handles |-> "unplanned"]
  /\ site = [h \in Handles |-> 0]
  /\ displaced = [h \in Handles |-> JumpLen]
  /\ orig = [h \in Handles |-> [i \in Index |-> "orig"]]
  /\ tail = [h \in Handles |-> [i \in Index |-> "orig"]]
  /\ exp = [h \in Handles |-> [i \in Index |-> "orig"]]
  /\ rep = [h \in Handles |-> [i \in Index |-> "orig"]]
  /\ done = [h \in Handles |-> "none"]
  /\ cpc = [c \in Clients |-> "none"]

-----------------------------------------------------------------------------
(* Jump patches: plan, bind, publish.                                      *)

\* JumpPatchPlan::from_scan captures the bytes that are there now.  The head
\* holds an original instruction or a jump planned at this same head, which
\* the scan sees as one instruction of JumpLen bytes.
Plan(h, x) ==
  /\ hpc[h] = "unplanned"
  /\ \/ /\ mem[x] = "orig"
        /\ displaced' = [displaced EXCEPT ![h] = Displaced[x]]
     \/ /\ mem[x] \in Handles /\ site[mem[x]] = x
        /\ displaced' = [displaced EXCEPT ![h] = JumpLen]
  /\ site' = [site EXCEPT ![h] = x]
  /\ orig' = [orig EXCEPT ![h] = Window(mem, x)]
  /\ hpc' = [hpc EXCEPT ![h] = "planned"]
  /\ UNCHANGED <<mem, registry, tail, exp, rep, done, cpc>>

\* register_inner, for the site x of handle h.
Existing(h) == kind[site[h]] = Strategy(site[h])

\* Mutation of NewEnd: a rebind forgets what the first plan displaced.
OwnEnd(h) == site[h] + displaced[h]

NewEnd(h)   == LET e == site[h] + displaced[h]
               IN  IF Existing(h) /\ dispEnd[site[h]] > e
                   THEN dispEnd[site[h]] ELSE e
Range(h)    == Reservation(site[h], Strategy(site[h]))

\* Other sites whose reservation meets the one asked for.
Meeting(h) == {y \in Sites \ {site[h]} :
                 Overlap(Range(h), Reservation(y, kind[y]))}

BindContended(h) ==
  \/ /\ Existing(h) /\ Strategy(site[h]) = "word"
     /\ phase[site[h]] = "WRITING"
  \/ \E y \in Meeting(h) : phase[y] = "WRITING"

\* The bytes two windows share agree with what the neighbour recorded.
TailAgrees(h, y) ==
  LET x   == site[h]
      own == IF Existing(h) THEN original[x] ELSE orig[h]
  IN  IF x < y
      THEN \E img \in {original[y], committed[y]} :
             \A i \in y - x .. WindowLen - 1 : orig[h][i] = img[i - (y - x)]
      ELSE \A i \in x - y .. WindowLen - 1 : own[i - (x - y)] = original[y][i]

BindRefused(h) ==
  LET x == site[h]
  IN  \/ kind[x] \notin {"none", Strategy(x)}
      \/ \E y \in Sites \ {x} :
           Overlap(<<x, NewEnd(h)>>, <<y, dispEnd[y]>>)
      \/ \E y \in Meeting(h) :
           \/ Strategy(x) # "word" \/ kind[y] # "word"
           \/ ~TailAgrees(h, y)
      \/ PendingOverlaps(<<IF Range(h)[1] < x THEN Range(h)[1] ELSE x,
                           IF Range(h)[2] > NewEnd(h) THEN Range(h)[2]
                                                      ELSE NewEnd(h)>>)

\* The plan's bytes with the tail the neighbours had originally.
Canonical(h) ==
  LET x == site[h]
      above(i) == {y \in Upper(x) : y <= x + i}
  IN  [i \in Index |->
         IF Strategy(x) = "word" /\ above(i) # {}
         THEN LET y == CHOOSE y \in above(i) : TRUE IN original[y][x + i - y]
         ELSE orig[h][i]]

Bind(h) ==
  /\ hpc[h] = "planned"
  /\ ~BindContended(h)
  /\ ~BindRefused(h)
  /\ LET x == site[h]
     IN  /\ dispEnd' = [dispEnd EXCEPT ![x] = NewEnd(h)]
         /\ tail' = [tail EXCEPT ![h] = Canonical(h)]
         /\ IF Existing(h)
            THEN UNCHANGED <<kind, original, committed>>
            ELSE /\ kind' = [kind EXCEPT ![x] = Strategy(x)]
                 /\ original' = [original EXCEPT ![x] = Canonical(h)]
                 /\ committed' = [committed EXCEPT ![x] = Canonical(h)]
  /\ hpc' = [hpc EXCEPT ![h] = "bound"]
  /\ UNCHANGED <<mem, phase, pending, site, displaced, orig, exp, rep, done,
                 cpc>>

\* A bind that is refused for good; the client may plan again.
BindFails(h) ==
  /\ hpc[h] = "planned"
  /\ BindRefused(h)
  /\ hpc' = [hpc EXCEPT ![h] = "unplanned"]
  /\ UNCHANGED <<mem, registry, plans, exp, rep, done, cpc>>

\* publish_bound puts the canonical tail into both images.
Image(h, img) == WithTail(img, tail[h])
From(h, o) == Image(h, IF o = "apply" THEN orig[h] ELSE Jump(h))
To(h, o)   == Image(h, IF o = "apply" THEN Jump(h) ELSE orig[h])

\* begin_jump: sites whose reservation meets this word site's, itself too.
Shared(x) == {y \in Sites : Overlap(Reservation(x, kind[x]),
                                    Reservation(y, kind[y]))}

\* Mutation of Composed: neighbours' committed bytes are not carried over.
Uncomposed(x, img) == img

\* The bytes of neighbour y that begin_jump carries over into image img.
Composed(x, img) ==
  LET over(i) == {y \in Upper(x) : y <= x + i /\ x + i < y + JumpLen}
  IN  [i \in Index |->
         IF over(i) # {}
         THEN LET y == CHOOSE y \in over(i) : TRUE IN committed[y][x + i - y]
         ELSE img[i]]

\* Neighbours whose recorded original bytes image img does not show.
Unrecognised(x, img) ==
  {y \in Upper(x) : \E i \in Index : /\ y <= x + i /\ x + i < y + JumpLen
                                     /\ img[i] # original[y][x + i - y]}

\* Mutation of Free: only the site's own phase is tested.
FreeAlone(x) == phase[x] = "IDLE"

Free(x) == IF kind[x] = "word" THEN \A y \in Shared(x) : phase[y] = "IDLE"
                               ELSE phase[x] = "IDLE"

Begin(h, o) ==
  LET x == site[h]
  IN  /\ hpc[h] = "bound"
      /\ Free(x)
      /\ kind[x] = "word" => Unrecognised(x, From(h, o)) = {}
      /\ IF kind[x] = "word"
         THEN /\ exp' = [exp EXCEPT ![h] = Composed(x, From(h, o))]
              /\ rep' = [rep EXCEPT ![h] = Composed(x, To(h, o))]
         ELSE /\ exp' = [exp EXCEPT ![h] = From(h, o)]
              /\ rep' = [rep EXCEPT ![h] = To(h, o)]
      /\ phase' = [phase EXCEPT ![x] = "WRITING"]
      /\ hpc' = [hpc EXCEPT ![h] = "compare"]
      /\ done' = [done EXCEPT ![h] = "none"]
      /\ UNCHANGED <<mem, kind, dispEnd, original, committed, pending, plans,
                     cpc>>

\* begin_jump's own ExpectedBytesMismatch, for the first unrecognised neighbour
\* in the registry's list; sites behind it are not looked at.
BeginFails(h, o) ==
  /\ hpc[h] = "bound"
  /\ kind[site[h]] = "word"
  /\ \E y \in Unrecognised(site[h], From(h, o)) : phase[y] = "IDLE"
  /\ done' = [done EXCEPT ![h] = "mismatch"]
  /\ UNCHANGED <<mem, registry, hpc, plans, exp, rep, cpc>>

\* The load of the live window and its comparison with the whole image.
Compare(h) ==
  /\ hpc[h] = "compare"
  /\ IF Window(mem, site[h]) = exp[h]
     THEN hpc' = [hpc EXCEPT ![h] = "store"] /\ UNCHANGED done
     ELSE /\ hpc' = [hpc EXCEPT ![h] = "finish"]
          /\ done' = [done EXCEPT ![h] = "mismatch"]
  /\ UNCHANGED <<mem, registry, plans, exp, rep, cpc>>

\* The one store of a single-line window; the stores of a split window, whose
\* phases are the subject of WordPatch, are one step here.
Store(h) ==
  /\ hpc[h] = "store"
  /\ mem' = Stored(mem, site[h], rep[h])
  /\ hpc' = [hpc EXCEPT ![h] = "finish"]
  /\ done' = [done EXCEPT ![h] = "ok"]
  /\ UNCHANGED <<registry, plans, exp, rep, cpc>>

\* finish_jump records what was published for a word site ...
Record(h) ==
  /\ hpc[h] = "finish"
  /\ committed' = IF done[h] = "ok" /\ kind[site[h]] = "word"
                  THEN [committed EXCEPT ![site[h]] = rep[h]] ELSE committed
  /\ hpc' = [hpc EXCEPT ![h] = "release"]
  /\ UNCHANGED <<mem, kind, dispEnd, phase, original, pending, plans, exp, rep,
                 done, cpc>>

\* ... and only then releases the site.  Neither is under REGISTRY_LOCK.
Release(h) ==
  /\ hpc[h] = "release"
  /\ phase' = [phase EXCEPT ![site[h]] = "IDLE"]
  /\ hpc' = [hpc EXCEPT ![h] = "bound"]
  /\ UNCHANGED <<mem, kind, dispEnd, original, committed, pending, plans, exp,
                 rep, done, cpc>>

\* Mutation of Finish: the site is released before its bytes are recorded.
FinishReleasesFirst(h) ==
  \/ /\ hpc[h] = "finish"
     /\ phase' = [phase EXCEPT ![site[h]] = "IDLE"]
     /\ hpc' = [hpc EXCEPT ![h] = "release"]
     /\ UNCHANGED <<mem, kind, dispEnd, original, committed, pending, plans,
                    exp, rep, done, cpc>>
  \/ /\ hpc[h] = "release"
     /\ committed' = IF done[h] = "ok" /\ kind[site[h]] = "word"
                     THEN [committed EXCEPT ![site[h]] = rep[h]] ELSE committed
     /\ hpc' = [hpc EXCEPT ![h] = "bound"]
     /\ UNCHANGED <<mem, kind, dispEnd, phase, original, pending, plans, exp,
                    rep, done, cpc>>

Finish(h) == Record(h) \/ Release(h)

-----------------------------------------------------------------------------
(* Clients that reserve a range before they look at the code.              *)

Held(c, s) == /\ cpc' = [cpc EXCEPT ![c] = s]
              /\ UNCHANGED <<hpc, plans, exp, rep, done>>

\* trap::reserve.
Reserve(c) ==
  /\ cpc[c] = "none"
  /\ \A y \in Sites : ~Overlap(ClientRange(c), Span(y))
  /\ ~PendingOverlaps(ClientRange(c))
  /\ pending' = pending \cup {c}
  /\ Held(c, "reserved")
  /\ UNCHANGED <<mem, kind, dispEnd, phase, original, committed>>

ClientBytes(c) == SiteOf[c] .. SiteOf[c] + JumpLen - 1
Pristine(c)    == \A a \in ClientBytes(c) : mem[a] = "orig"

\* PendingTrapSite::drop, after a comparison or an allocation failed.
Cancel(c) ==
  /\ cpc[c] = "reserved"
  /\ pending' = pending \ {c}
  /\ Held(c, "none")
  /\ UNCHANGED <<mem, kind, dispEnd, phase, original, committed>>

\* RapidProbe::install found its window and commits the reservation.
RapidCommit(c) ==
  /\ c \in Rapids /\ cpc[c] = "reserved"
  /\ Pristine(c)
  /\ pending' = pending \ {c}
  /\ kind' = [kind EXCEPT ![SiteOf[c]] = "rapid"]
  /\ dispEnd' = [dispEnd EXCEPT ![SiteOf[c]] = SiteOf[c] + JumpLen]
  /\ Held(c, "installed")
  /\ UNCHANGED <<mem, phase, original, committed>>

\* RapidProbe::set_enabled: one byte, at any time, without the registry.
RapidToggle(c, b) ==
  /\ c \in Rapids /\ cpc[c] = "installed"
  /\ mem' = [mem EXCEPT ![SiteOf[c]] = b]
  /\ UNCHANGED <<registry, hpc, plans, exp, rep, done, cpc>>

\* A quiescent installation writes under its reservation and keeps it ...
QuiescentWrite(c) ==
  /\ c \in Quiescents /\ cpc[c] = "reserved"
  /\ Pristine(c)
  /\ mem' = [a \in Addr |-> IF a \in ClientBytes(c) THEN c ELSE mem[a]]
  /\ Held(c, "installed")
  /\ UNCHANGED registry

\* ... until it has restored the original bytes and is retired.
QuiescentRetire(c) ==
  /\ c \in Quiescents /\ cpc[c] = "installed"
  /\ \A a \in ClientBytes(c) : mem[a] = c
  /\ mem' = [a \in Addr |-> IF a \in ClientBytes(c) THEN "orig" ELSE mem[a]]
  /\ Held(c, "restored")
  /\ UNCHANGED registry

QuiescentRelease(c) ==
  /\ cpc[c] = "restored"
  /\ pending' = pending \ {c}
  /\ Held(c, "retired")
  /\ UNCHANGED <<mem, kind, dispEnd, phase, original, committed>>

HandleStep(h) == \/ \E x \in JumpSites : Plan(h, x)
                 \/ Bind(h) \/ BindFails(h)
                 \/ \E o \in {"apply", "revert"} : Begin(h, o) \/ BeginFails(h, o)
                 \/ Compare(h) \/ Store(h) \/ Finish(h)

ClientStep(c) == \/ Reserve(c) \/ Cancel(c) \/ RapidCommit(c)
                 \/ \E b \in {"orig", c} : RapidToggle(c, b)
                 \/ QuiescentWrite(c) \/ QuiescentRetire(c)
                 \/ QuiescentRelease(c)

Next == (\E h \in Handles : HandleStep(h)) \/ (\E c \in Clients : ClientStep(c))

Spec == Init /\ [][Next]_vars

-----------------------------------------------------------------------------
(* Properties.                                                             *)

Image8 == [Index -> Byte]

\* Every variable keeps its type.
TypeOK ==
  /\ mem \in [Addr -> Byte]
  /\ kind \in [Addr -> {"none", "word", "split", "rapid"}]
  /\ dispEnd \in [Addr -> Nat]
  /\ phase \in [Addr -> {"IDLE", "WRITING"}]
  /\ original \in [Addr -> Image8] /\ committed \in [Addr -> Image8]
  /\ pending \subseteq Clients
  /\ hpc \in [Handles -> {"unplanned", "planned", "bound", "compare", "store",
                          "finish", "release"}]
  /\ site \in [Handles -> Addr] /\ displaced \in [Handles -> Nat]
  /\ orig \in [Handles -> Image8] /\ tail \in [Handles -> Image8]
  /\ exp \in [Handles -> Image8] /\ rep \in [Handles -> Image8]
  /\ done \in [Handles -> {"none", "ok", "mismatch"}]
  /\ cpc \in [Clients -> {"none", "reserved", "installed", "restored",
                          "retired"}]

Bound(h)   == hpc[h] \notin {"unplanned", "planned"}
Claim(h)   == <<site[h], site[h] + displaced[h]>>
Claimed(c) == c \in pending \/ (c \in Rapids /\ cpc[c] = "installed")

\* No instruction is displaced twice: what bound handles of different sites,
\* rapid probes and installations claim is pairwise disjoint, however plans,
\* rebinds over a live jump and reservations interleave.
DisplacedDisjoint ==
  /\ \A g, h \in Handles : Bound(g) /\ Bound(h) /\ site[g] # site[h]
                            => ~Overlap(Claim(g), Claim(h))
  /\ \A c, d \in Clients : Claimed(c) /\ Claimed(d) /\ c # d
                            => ~Overlap(ClientRange(c), ClientRange(d))
  /\ \A c \in Clients, h \in Handles : Claimed(c) /\ Bound(h) =>
       /\ ~Overlap(ClientRange(c), Claim(h))
       /\ ~Overlap(ClientRange(c), Reservation(site[h], kind[site[h]]))

\* begin_jump's expect("shared word site") cannot fail, and a split window is
\* never shared: whatever was registered since a word site was bound, all that
\* meets its window are other word sites.
SharedAreWords ==
  \A x, y \in Sites : /\ x # y /\ kind[x] # "rapid"
                      /\ Overlap(Reservation(x, kind[x]), Reservation(y, kind[y]))
                      => kind[x] = "word" /\ kind[y] = "word"

Writing(h) == hpc[h] \in {"compare", "store", "finish", "release"}

\* begin_jump's lease is exclusive: of two publications whose stored windows
\* overlap, or that are of one site, at most one is between its comparison
\* and its release.
OverlappingWritersExclude ==
  \A g, h \in Handles :
    /\ g # h /\ Writing(g) /\ Writing(h)
    => ~Overlap(<<site[g], site[g] + WindowLen>>, <<site[h], site[h] + WindowLen>>)

\* What REGISTRY_LOCK keeps true of the registry and of the leases it grants.
RegistryInv == TypeOK /\ SharedAreWords /\ OverlappingWritersExclude

OwnBytes(x) == x .. x + JumpLen - 1

\* Bytes that installations wrote and have given back.
GivenBack == UNION {ClientBytes(c) : c \in {d \in Quiescents : cpc[d] = "retired"}}

\* An idle word site's own bytes in memory are the ones the registry holds as
\* committed: what neighbours carry over is never out of date.  Registration
\* does not look at the code, so a plan that was captured under an
\* installation and bound after its retirement is excepted: what it registers
\* is stale until its first publication, which the comparison refuses.
CommittedIsLive ==
  \A x \in Sites :
    kind[x] = "word" /\ phase[x] = "IDLE" /\ OwnBytes(x) \cap GivenBack = {}
      => \A i \in Own : mem[x + i] = committed[x][i]

\* Who holds the byte at a: the sites of bound handles, whose jumps cover it,
\* and the probes and installations that have reserved or patched it.
JumpHolders(a) ==
  {site[h] : h \in {g \in Handles : Bound(g) /\ a \in OwnBytes(site[g])}}
ClientHolders(a) == {c \in Clients : Claimed(c) /\ a \in ClientBytes(c)}
ClientWrite(c) ==
  QuiescentWrite(c) \/ QuiescentRetire(c) \/ \E b \in {"orig", c} : RapidToggle(c, b)

\* Whoever changes a byte is the only one who holds it: the whole-window store
\* of a jump patch never undoes a neighbour's patch or a rapid probe's toggle
\* that came between the comparison and the store, and no toggle, installation
\* or retirement reaches a byte of a bound jump or of another client.
StoresOnlyOwnBytes ==
  [][\A a \in Addr : mem'[a] # mem[a] =>
       \/ /\ \E h \in Handles : Store(h) /\ JumpHolders(a) = {site[h]}
          /\ ClientHolders(a) = {}
       \/ /\ \E c \in Clients : ClientWrite(c) /\ ClientHolders(a) = {c}
          /\ JumpHolders(a) = {}]_vars

\* A publication is refused for unexpected bytes only when its own bytes are
\* unexpected: no neighbour's activity makes it fail.  (Installations that
\* bypass the registry's shared windows may leave a stale tail in a plan, so
\* this is stated until one has written.)
MismatchIsOwn ==
  [][(\A c \in Quiescents : cpc[c] \in {"none", "reserved"}) =>
     \A h \in Handles : done[h] # "mismatch" /\ done'[h] = "mismatch" =>
       hpc[h] = "compare" /\ \E i \in Own : mem[site[h] + i] # exp[h][i]]_vars

\* The registry as a whole (ByteClaims): registered sites, by their addresses,
\* and reservations not yet committed claim the bytes they displace.
claims == [x \in Addr |->
             IF x \in Sites THEN {a \in Addr : x <= a /\ a < dispEnd[x]}
             ELSE UNION {ClientBytes(c) : c \in {d \in pending : SiteOf[d] = x}}]

Registry == INSTANCE ByteClaims WITH
  Addresses <- Addr, Claimants <- Addr, Contents <- Byte, Original <- "orig"

\* Every change of the code or the registry is one of ByteClaims: a claim takes
\* only what nobody has claimed, a store stays within the storing client's, and
\* a reservation that is dropped leaves original bytes.
BytesHaveOneOwner == Registry!Spec
=============================================================================
