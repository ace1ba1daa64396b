-------------------------- MODULE SiteFlip_proofs --------------------------
(***************************************************************************)
(* Proofs about SiteFlip, for every set of executors and islands, with or  *)
(* without a foreign writer.                                               *)
(***************************************************************************)
EXTENDS SiteFlip, TLAPS

\* The word a publication in progress is about.
Target == IF pending = "patch" THEN flipped ELSE "svc"

Stopped == step \in {"store", "sync", "resume"}

\* The operation in progress agrees with the site's records: a flip has chosen
\* what it may store, and a publication settles on the word that is there.
OpInv ==
  /\ (op = "idle") = (step = "none")
  /\ op # "flip" => chosen = NoChoice
  /\ op = "flip" =>
       /\ \/ chosen.word = "brk" /\ armed
          \/ chosen.word \in Islands /\ chosen.island = chosen.word
       /\ step \in {"sync", "resume"} => pending = "patch"
  /\ op = "flip" /\ step \in {"acquire", "store"} =>
       /\ state = "Unpatched"
       /\ chosen.island # NoIsland => chosen.island # custody
       /\ chosen.word \in Islands => live[chosen.word] = "published"
  /\ op = "flip" /\ chosen.island # NoIsland => live[chosen.island] # "fresh"
  /\ op = "rollback" =>
       /\ state # "Unpatched"
       /\ step \in {"sync", "resume"} => pending = "original"
  /\ op = "complete" => pending # "none"
  /\ step \in {"sync", "resume"} => pending # "none" /\ word = Target
  /\ step = "resume" => synced
  /\ custody # NoIsland => live[custody] # "fresh"

\* What an executor may still fetch, and where it may be.
FetchInv(e) ==
  /\ word \in cached[e]
  /\ state = "Unpatched" =>
       /\ inside[e] = NoIsland
       /\ cached[e] \subseteq IF word = "other" THEN {"svc", "other"} ELSE {"svc"}
  /\ state = "Flipped" /\ word # "other" => cached[e] \subseteq {flipped}
  /\ Stopped => e \in parked /\ (Restores => inside[e] = NoIsland)
  /\ "brk" \in cached[e] => armed
  /\ \A i \in Islands : i \in cached[e] \/ inside[e] = i => live[i] = "published"

\* The inductive invariant.
IInv == TypeOK /\ OpInv /\ \A e \in Executors : FetchInv(e)

-----------------------------------------------------------------------------
(* Facts about the helpers.                                                *)

LEMMA IslandFacts ==
  ASSUME TypeOK, NEW i \in Islands
  PROVE  i \notin {NoIsland, "svc", "brk", "other", "none"}
BY IslandAssumption

\* Dropping an Island unmaps that one and no other.
LEMMA UnmapEffect ==
  ASSUME TypeOK, NEW i, live' = Unmap(i)
  PROVE  /\ live' \in [Islands -> {"fresh", "held", "published", "unmapped"}]
         /\ \A j \in Islands : live'[j] = IF j = i THEN "unmapped" ELSE live[j]
BY DEF TypeOK, Unmap

\* A resume lets an executor that acknowledged after the maintenance fetch only
\* the current word; the others may fetch what they could before.
LEMMA ResumeEffect ==
  ASSUME TypeOK, NEW acks \in SUBSET Executors, NEW lost, Resume(acks, lost)
  PROVE  /\ cached' \in [Executors -> SUBSET Words]
         /\ acked' \subseteq Executors /\ parked' \subseteq Executors
         /\ lease' \in BOOLEAN
         /\ \A e \in Executors :
              cached'[e] = IF e \in acks /\ synced THEN {word} ELSE cached[e]
BY DEF TypeOK, Resume

\* A store adds its word to what every executor may fetch.
LEMMA StoredEffect ==
  ASSUME TypeOK, NEW w \in Words, Stored(w)
  PROVE  /\ cached' \in [Executors -> SUBSET Words] /\ word' = w /\ step' = "sync"
         /\ synced' = FALSE
         /\ \A e \in Executors : cached'[e] = cached[e] \cup {w}
BY DEF TypeOK, Stored

\* An operation that ends leaves what is known of the executors, if it changes
\* neither the word nor the site nor what may be fetched, and unmaps at most an
\* island that nobody can reach.
LEMMA FetchEnds ==
  ASSUME IInv, Finish, NEW e \in Executors,
         UNCHANGED <<word, flipped, armed, inside>>,
         state' = state \/ state' \in {"SyncPending", "RetainedStop"},
         cached'[e] = cached[e] \/ cached'[e] = {word},
         \A j \in Islands : j \in cached[e] \/ inside[e] = j => live'[j] = live[j]
  PROVE  FetchInv(e)'
<1>1. FetchInv(e)
  BY DEF IInv
<1>2. cached'[e] \subseteq cached[e] /\ word \in cached'[e]
  BY <1>1 DEF FetchInv
<1>3. ~Stopped'
  BY DEF Finish, Stopped
<1> QED
  BY <1>1, <1>2, <1>3 DEF FetchInv

-----------------------------------------------------------------------------
(* The invariant holds at first and is kept.                               *)

LEMMA InvInit == Init => IInv
<1> SUFFICES ASSUME Init PROVE IInv
  OBVIOUS
<1>1. TypeOK
  <2>1. chosen \in [word : {"none", "brk"} \cup Islands,
                    island : Islands \cup {NoIsland}]
    BY DEF Init, NoChoice
  <2>2. /\ live \in [Islands -> {"fresh", "held", "published", "unmapped"}]
        /\ cached \in [Executors -> SUBSET Words]
        /\ inside \in [Executors -> Islands \cup {NoIsland}]
    BY DEF Init, Words
  <2>3. (state = "Unpatched") = (flipped = "none") /\ pending = "none"
        /\ state \in {"Unpatched", "Flipped", "SyncPending", "RetainedStop"}
        /\ (state \in {"SyncPending", "RetainedStop"}) = (pending # "none")
    BY DEF Init
  <2>4. /\ attested \in BOOLEAN /\ word \in Words /\ flipped = "none"
        /\ custody = NoIsland /\ armed \in BOOLEAN /\ op = "idle" /\ step = "none"
        /\ lease \in BOOLEAN /\ synced \in BOOLEAN /\ dropped \in BOOLEAN
        /\ acked = {} /\ parked = {}
    BY DEF Init, Words
  <2> QED
    BY <2>1, <2>2, <2>3, <2>4 DEF TypeOK
<1>2. OpInv
  BY DEF Init, OpInv
<1>3. ASSUME NEW e \in Executors PROVE FetchInv(e)
  BY IslandAssumption DEF Init, FetchInv, Stopped
<1> QED
  BY <1>1, <1>2, <1>3 DEF IInv

LEMMA KeptByBeginFlip ==
  ASSUME IInv, NEW i \in Islands \cup {NoIsland}, NEW reaches \in BOOLEAN,
         NEW offers \in BOOLEAN, NEW permits \in BOOLEAN,
         NEW pref \in {"BranchOnly", "TrapOnly", "BranchThenTrap"},
         BeginFlip(i, reaches, offers, pref, permits)
  PROVE  IInv'
<1> DEFINE choice == Select(pref, permits, i # NoIsland /\ reaches, offers)
           Go(w) == /\ op' = "flip" /\ step' = "acquire"
                    /\ chosen' = [word |-> w, island |-> i]
<1>1. /\ op = "idle" /\ state = "Unpatched" /\ step = "none"
      /\ chosen = NoChoice /\ (i # NoIsland => live[i] = "fresh")
      /\ (offers => armed)
      /\ UNCHANGED <<attested, site, armed, stop, cpu, dropped>>
  BY DEF BeginFlip, Idle, IInv, OpInv
<1>2. PICK what \in {"fresh", "held", "published", "unmapped"} :
        /\ live' \in [Islands -> {"fresh", "held", "published", "unmapped"}]
        /\ \A j \in Islands : live'[j] = IF j = i THEN what ELSE live[j]
        /\ \/ /\ Go(i) /\ what = "published" /\ i # NoIsland
           \/ /\ Go("brk") /\ what = "held" /\ armed
           \/ UNCHANGED ctl /\ what = "unmapped"
  <2>1. CASE choice = "Branch" /\ Go(i) /\ live' = [live EXCEPT ![i] = "published"]
    <3>1. i # NoIsland /\ i \in Islands
      BY <2>1 DEF Select
    <3> QED
      BY <2>1, <3>1 DEF IInv, TypeOK
  <2>2. CASE choice = "Trap" /\ Go("brk") /\ live' = Hold(i)
    <3>1. armed
      BY <1>1, <2>2 DEF Select
    <3> QED
      BY <2>2, <3>1 DEF IInv, TypeOK, Hold
  <2>3. CASE i # NoIsland /\ live' = Unmap(i) /\ UNCHANGED ctl
    BY <2>3, UnmapEffect DEF IInv
  <2> QED
    BY <2>1, <2>2, <2>3 DEF BeginFlip
<1> HIDE DEF choice
<1>3. TypeOK'
  <2>1. /\ op' \in {"idle", "flip"} /\ step' \in {"none", "acquire"}
        /\ chosen' \in [word : {"none", "brk"} \cup Islands,
                        island : Islands \cup {NoIsland}]
    BY <1>1, <1>2 DEF ctl, NoChoice
  <2> QED
    BY <1>1, <1>2, <2>1 DEF IInv, TypeOK, site, stop, cpu
<1>4. OpInv'
  <2>1. custody # NoIsland => custody \in Islands /\ live'[custody] # "fresh"
                              /\ custody # i
    BY <1>1, <1>2 DEF IInv, TypeOK, OpInv
  <2>2. CASE UNCHANGED ctl
    BY <1>1, <2>1, <2>2 DEF OpInv, ctl, site, stop
  <2>3. CASE Go(i) /\ what = "published" /\ i # NoIsland
    <3>1. chosen'.word = i /\ chosen'.island = i /\ i \in Islands
      BY <2>3
    <3> QED
      BY <1>1, <1>2, <2>1, <2>3, <3>1 DEF OpInv, site, stop
  <2>4. CASE Go("brk") /\ what = "held" /\ armed
    <3>1. chosen'.word = "brk" /\ chosen'.island = i
      BY <2>4
    <3> QED
      BY <1>1, <1>2, <2>1, <2>4, <3>1, IslandAssumption DEF OpInv, site, stop
  <2> QED
    BY <1>2, <2>2, <2>3, <2>4
<1>5. ASSUME NEW e \in Executors PROVE FetchInv(e)'
  <2>1. /\ FetchInv(e) /\ ~Stopped'
        /\ \A j \in Islands : j \notin cached[e] /\ inside[e] # j
    BY <1>1, <1>2, IslandAssumption DEF IInv, FetchInv, Stopped, ctl
  <2> QED
    BY <1>1, <2>1 DEF FetchInv, site, cpu
<1> QED
  BY <1>3, <1>4, <1>5 DEF IInv

LEMMA KeptByBegin ==
  ASSUME IInv, BeginComplete \/ BeginRollback
  PROVE  IInv'
<1>1. /\ op = "idle" /\ op' \in {"complete", "rollback"} /\ step' = "acquire"
      /\ op' = "complete" => state \in {"SyncPending", "RetainedStop"}
      /\ op' = "rollback" => state # "Unpatched"
      /\ UNCHANGED <<attested, site, live, armed, chosen, stop, cpu, dropped>>
  BY DEF BeginComplete, BeginRollback, Idle
<1>2. TypeOK'
  BY <1>1 DEF IInv, TypeOK, site, stop, cpu
<1>3. OpInv'
  BY <1>1 DEF IInv, TypeOK, OpInv, site, stop
<1>4. ASSUME NEW e \in Executors PROVE FetchInv(e)'
  BY <1>1 DEF IInv, FetchInv, Stopped, site, cpu
<1> QED
  BY <1>2, <1>3, <1>4 DEF IInv

LEMMA KeptByAcquire ==
  ASSUME IInv, Acquire
  PROVE  IInv'
<1>1. TypeOK'
  BY DEF IInv, TypeOK, Acquire, site
<1>2. OpInv'
  BY DEF IInv, OpInv, Acquire, site
<1>3. ASSUME NEW e \in Executors PROVE FetchInv(e)'
  BY DEF IInv, FetchInv, Acquire, Restores, Stopped, site
<1> QED
  BY <1>1, <1>2, <1>3 DEF IInv

\* The island a flip has chosen and not stored is out of everybody's reach, for
\* the site is Unpatched then; the other operations have chosen none.
LEMMA ChosenIsUnreached ==
  ASSUME IInv, step \in {"acquire", "store"}, NEW e \in Executors,
         NEW j \in Islands, j \in cached[e] \/ inside[e] = j
  PROVE  j # chosen.island
BY IslandAssumption DEF IInv, OpInv, FetchInv, NoChoice

LEMMA KeptByAcquireFails ==
  ASSUME IInv, AcquireFails
  PROVE  IInv'
<1>1. /\ live' \in [Islands -> {"fresh", "held", "published", "unmapped"}]
      /\ \A j \in Islands :
           live'[j] = IF j = chosen.island THEN "unmapped" ELSE live[j]
  BY UnmapEffect DEF IInv, AcquireFails
<1>2. TypeOK'
  <2>1. NoChoice \in [word : {"none", "brk"} \cup Islands,
                      island : Islands \cup {NoIsland}]
    BY DEF NoChoice
  <2> QED
    BY <1>1, <2>1 DEF IInv, TypeOK, AcquireFails, Finish, site, stop, cpu
<1>3. OpInv'
  BY <1>1 DEF IInv, TypeOK, OpInv, AcquireFails, Finish, site, stop
<1>4. ASSUME NEW e \in Executors PROVE FetchInv(e)'
  <2>1. \A j \in Islands : j \in cached[e] \/ inside[e] = j => live'[j] = live[j]
    BY <1>1, ChosenIsUnreached DEF AcquireFails
  <2> QED
    BY <2>1, FetchEnds DEF AcquireFails, site, cpu
<1> QED
  BY <1>2, <1>3, <1>4 DEF IInv

LEMMA KeptByRefuse ==
  ASSUME IInv, NEW acks \in SUBSET Executors, NEW lost \in SUBSET (Executors \ acks),
         Refuse(acks, lost)
  PROVE  IInv'
<1>1. /\ live' \in [Islands -> {"fresh", "held", "published", "unmapped"}]
      /\ \A j \in Islands :
           live'[j] = IF j = chosen.island THEN "unmapped" ELSE live[j]
  BY UnmapEffect DEF IInv, Refuse
<1>2. /\ cached' \in [Executors -> SUBSET Words]
      /\ acked' \subseteq Executors /\ parked' \subseteq Executors /\ lease' \in BOOLEAN
      /\ \A e \in Executors : cached'[e] \in {cached[e], {word}}
  <2>1. CASE op = "complete"
    BY <2>1 DEF IInv, TypeOK, Refuse
  <2>2. CASE op # "complete"
    BY <2>2, ResumeEffect DEF IInv, Refuse
  <2> QED
    BY <2>1, <2>2
<1>3. TypeOK'
  <2>1. NoChoice \in [word : {"none", "brk"} \cup Islands,
                      island : Islands \cup {NoIsland}]
    BY DEF NoChoice
  <2> QED
    BY <1>1, <1>2, <2>1 DEF IInv, TypeOK, Refuse, Finish, site
<1>4. OpInv'
  BY <1>1 DEF IInv, TypeOK, OpInv, Refuse, Finish, site
<1>5. ASSUME NEW e \in Executors PROVE FetchInv(e)'
  <2>1. \A j \in Islands : j \in cached[e] \/ inside[e] = j => live'[j] = live[j]
    BY <1>1, ChosenIsUnreached DEF Refuse
  <2> QED
    BY <1>2, <2>1, FetchEnds DEF Refuse, site
<1> QED
  BY <1>3, <1>4, <1>5 DEF IInv

\* A flip stores over an Unpatched site: nobody can reach the island that leaves
\* custody, everybody is stopped, and what it stores is published or armed.
LEMMA KeptByStoreFlip ==
  ASSUME IInv, StoreFlip
  PROVE  IInv'
<1>1. /\ step = "store" /\ op = "flip" /\ word = "svc" /\ state = "Unpatched"
      /\ \/ chosen.word = "brk" /\ armed
         \/ /\ chosen.word \in Islands /\ chosen.island = chosen.word
            /\ live[chosen.word] = "published"
      /\ (chosen.island # NoIsland =>
            chosen.island # custody /\ live[chosen.island] # "fresh")
  BY DEF IInv, OpInv, StoreFlip, Expected
<1>2. /\ chosen.word \in Words /\ chosen.word \in {"none", "brk"} \cup Islands
      /\ chosen.island \in Islands \cup {NoIsland} /\ chosen.word # "none"
  BY <1>1, IslandFacts DEF IInv, TypeOK, Words
<1>3. /\ live' \in [Islands -> {"fresh", "held", "published", "unmapped"}]
      /\ custody' \in Islands \cup {NoIsland}
      /\ \/ custody' = custody /\ live' = live
         \/ /\ custody' = chosen.island /\ chosen.island # NoIsland
            /\ \A j \in Islands :
                 live'[j] = IF j = custody THEN "unmapped" ELSE live[j]
  <2>1. CASE chosen.island = NoIsland
    BY <2>1 DEF IInv, TypeOK, StoreFlip, TakesCustody
  <2>2. CASE chosen.island # NoIsland
    BY <1>2, <2>2, UnmapEffect DEF IInv, StoreFlip, TakesCustody
  <2> QED
    BY <2>1, <2>2
<1>4. /\ cached' \in [Executors -> SUBSET Words] /\ word' = chosen.word
      /\ step' = "sync" /\ synced' = FALSE
      /\ \A e \in Executors : cached'[e] = cached[e] \cup {chosen.word}
  BY <1>2, StoredEffect DEF IInv, StoreFlip
<1>5. TypeOK'
  BY <1>2, <1>3, <1>4 DEF IInv, TypeOK, StoreFlip
<1>6. OpInv'
  <2>1. custody' # NoIsland => live'[custody'] # "fresh"
    BY <1>1, <1>2, <1>3 DEF IInv, OpInv, TypeOK
  <2>2. chosen.island # NoIsland => live'[chosen.island] # "fresh"
    BY <1>1, <1>2, <1>3
  <2>3. word' = Target'
    BY <1>4 DEF StoreFlip, Target
  <2> QED
    BY <1>1, <1>2, <1>4, <2>1, <2>2, <2>3 DEF IInv, OpInv, StoreFlip
<1>7. ASSUME NEW e \in Executors PROVE FetchInv(e)'
  <2>1. /\ inside[e] = NoIsland /\ cached[e] \subseteq {"svc"} /\ e \in parked
        /\ word \in cached[e]
    BY <1>1 DEF IInv, FetchInv, Stopped
  <2>2. \A i \in Islands : i \in cached'[e] \/ inside'[e] = i => live'[i] = "published"
    <3> SUFFICES ASSUME NEW i \in Islands, i \in cached'[e] \/ inside'[e] = i
                 PROVE  live'[i] = "published"
      OBVIOUS
    <3>1. i = chosen.word /\ i = chosen.island /\ i # NoIsland
      BY <1>1, <1>4, <2>1, IslandAssumption DEF StoreFlip
    <3> QED
      BY <1>1, <1>3, <3>1, IslandAssumption
  <2>3. "brk" \in cached'[e] => armed'
    BY <1>1, <1>4, <2>1, IslandFacts DEF StoreFlip, IInv
  <2> QED
    BY <1>1, <1>4, <2>1, <2>2, <2>3 DEF FetchInv, StoreFlip, Restores, Stopped
<1> QED
  BY <1>5, <1>6, <1>7 DEF IInv

LEMMA KeptByStoreOriginal ==
  ASSUME IInv, StoreOriginal
  PROVE  IInv'
<1>1. /\ step = "store" /\ op = "rollback" /\ state # "Unpatched" /\ chosen = NoChoice
  BY DEF IInv, OpInv, StoreOriginal
<1>2. /\ cached' \in [Executors -> SUBSET Words] /\ word' = "svc"
      /\ step' = "sync" /\ synced' = FALSE
      /\ \A e \in Executors : cached'[e] = cached[e] \cup {"svc"}
  BY StoredEffect DEF IInv, StoreOriginal, Words
<1>3. TypeOK'
  BY <1>1, <1>2 DEF IInv, TypeOK, StoreOriginal, Words
<1>4. OpInv'
  BY <1>1, <1>2 DEF IInv, OpInv, StoreOriginal, Target
<1>5. ASSUME NEW e \in Executors PROVE FetchInv(e)'
  BY <1>1, <1>2, IslandAssumption DEF IInv, FetchInv, StoreOriginal, Restores, Stopped
<1> QED
  BY <1>3, <1>4, <1>5 DEF IInv

LEMMA KeptByNoStore ==
  ASSUME IInv, NoStore
  PROVE  IInv'
<1>1. /\ step = "store" /\ op = "complete" /\ pending \in {"patch", "original"}
      /\ word = Target
  BY DEF IInv, TypeOK, OpInv, NoStore, Expected, Target
<1>2. TypeOK'
  BY <1>1 DEF IInv, TypeOK, NoStore, site, stop, cpu
<1>3. OpInv'
  BY <1>1 DEF IInv, OpInv, NoStore, site, stop, Target
<1>4. ASSUME NEW e \in Executors PROVE FetchInv(e)'
  BY <1>1 DEF IInv, FetchInv, NoStore, Restores, Stopped, site, cpu
<1> QED
  BY <1>2, <1>3, <1>4 DEF IInv

LEMMA KeptBySyncSite ==
  ASSUME IInv, SyncSite
  PROVE  IInv'
<1>1. TypeOK'
  BY DEF IInv, TypeOK, SyncSite, site, cpu
<1>2. OpInv'
  BY DEF IInv, OpInv, SyncSite, site, Target
<1>3. ASSUME NEW e \in Executors PROVE FetchInv(e)'
  BY DEF IInv, FetchInv, SyncSite, Restores, Stopped, site, cpu
<1> QED
  BY <1>1, <1>2, <1>3 DEF IInv

\* A publication that fails after its store ends with the site not settled.
LEMMA KeptByFailures ==
  ASSUME IInv, SyncFails \/ ResumeFails
  PROVE  IInv'
<1>1. /\ step \in {"sync", "resume"} /\ Finish /\ pending # "none"
      /\ state' \in {"SyncPending", "RetainedStop"}
      /\ state \in {"SyncPending", "RetainedStop"} /\ state # "Unpatched"
      /\ UNCHANGED <<attested, word, pending, flipped, custody, live, armed, stop, cpu,
                     dropped>>
  BY DEF IInv, TypeOK, OpInv, SyncFails, ResumeFails
<1>2. TypeOK'
  <2>1. NoChoice \in [word : {"none", "brk"} \cup Islands,
                      island : Islands \cup {NoIsland}]
    BY DEF NoChoice
  <2> QED
    BY <1>1, <2>1 DEF IInv, TypeOK, Finish, stop, cpu
<1>3. OpInv'
  BY <1>1 DEF IInv, OpInv, Finish, stop
<1>4. ASSUME NEW e \in Executors PROVE FetchInv(e)'
  BY <1>1, FetchEnds DEF cpu
<1> QED
  BY <1>2, <1>3, <1>4 DEF IInv

\* When every executor acknowledged, each may fetch the current word only; an
\* original word was restored while nobody was inside an island.
LEMMA KeptBySettle ==
  ASSUME IInv, NEW acks \in SUBSET Executors, NEW lost \in SUBSET (Executors \ acks),
         Settle(acks, lost)
  PROVE  IInv'
<1>1. /\ step = "resume" /\ Finish /\ synced /\ word = Target /\ op # "idle"
      /\ pending \in {"patch", "original"} /\ flipped # "none"
      /\ state \in {"SyncPending", "RetainedStop"}
      /\ UNCHANGED <<attested, word, custody, live, armed, synced, inside, dropped>>
  BY DEF IInv, TypeOK, OpInv, Settle
<1>2. /\ cached' \in [Executors -> SUBSET Words]
      /\ acked' \subseteq Executors /\ parked' \subseteq Executors /\ lease' \in BOOLEAN
      /\ \A e \in Executors :
           cached'[e] = IF e \in acks /\ synced THEN {word} ELSE cached[e]
  BY ResumeEffect DEF IInv, Settle
<1>3. \/ /\ acks = Executors /\ pending' = "none" /\ pending = "patch"
         /\ state' = "Flipped" /\ flipped' = flipped
      \/ /\ acks = Executors /\ pending' = "none" /\ pending = "original"
         /\ state' = "Unpatched" /\ flipped' = "none"
      \/ state' = "SyncPending" /\ flipped' = flipped /\ pending' = pending
  BY <1>1 DEF Settle, AllAcknowledged, FlippedAfter
<1>4. TypeOK'
  <2>1. NoChoice \in [word : {"none", "brk"} \cup Islands,
                      island : Islands \cup {NoIsland}]
    BY DEF NoChoice
  <2>2. /\ (state' = "Unpatched") = (flipped' = "none")
        /\ (state' \in {"SyncPending", "RetainedStop"}) = (pending' # "none")
        /\ state' \in {"Unpatched", "Flipped", "SyncPending"}
        /\ pending' \in {"none", "patch", "original"}
        /\ flipped' \in {"none", flipped}
    BY <1>1, <1>3
  <2>3. flipped' \in {"none", "brk"} \cup Islands
    BY <2>2 DEF IInv, TypeOK
  <2> QED
    BY <1>1, <1>2, <2>1, <2>2, <2>3 DEF IInv, TypeOK, Finish
<1>5. OpInv'
  BY <1>1 DEF IInv, OpInv, Finish
<1>6. ASSUME NEW e \in Executors PROVE FetchInv(e)'
  <2>1. CASE state' = "SyncPending" /\ flipped' = flipped
    BY <1>1, <1>2, <2>1, FetchEnds
  <2>2. FetchInv(e) /\ ~Stopped' /\ inside'[e] = inside[e]
    BY <1>1 DEF IInv, Finish, Stopped
  <2>3. CASE acks = Executors /\ state' = "Flipped" /\ flipped' = flipped
             /\ pending = "patch"
    <3>1. cached'[e] = {word} /\ word = flipped
      BY <1>1, <1>2, <2>3 DEF Target
    <3> QED
      BY <1>1, <2>2, <2>3, <3>1 DEF FetchInv
  <2>4. CASE acks = Executors /\ state' = "Unpatched" /\ pending = "original"
    <3>1. cached'[e] = {"svc"} /\ word = "svc"
      BY <1>1, <1>2, <2>4 DEF Target
    <3>2. Restores /\ Stopped
      BY <1>1, <2>4 DEF IInv, TypeOK, OpInv, Restores, Stopped
    <3> QED
      BY <1>1, <2>2, <2>4, <3>1, <3>2, IslandAssumption DEF FetchInv
  <2> QED
    BY <1>3, <2>1, <2>3, <2>4
<1> QED
  BY <1>4, <1>5, <1>6 DEF IInv

LEMMA KeptByDropSite ==
  ASSUME IInv, DropSite
  PROVE  IInv'
<1>1. /\ live' \in [Islands -> {"fresh", "held", "published", "unmapped"}]
      /\ \A j \in Islands : live'[j] = live[j] \/ (state = "Unpatched" /\ j = custody)
  BY UnmapEffect DEF IInv, TypeOK, DropSite, Leaks
<1>2. TypeOK'
  BY <1>1 DEF IInv, TypeOK, DropSite, ctl, stop, cpu
<1>3. OpInv'
  BY <1>1 DEF IInv, OpInv, DropSite, Idle, NoChoice, ctl, stop
<1>4. ASSUME NEW e \in Executors PROVE FetchInv(e)'
  <2>1. state = "Unpatched" => \A j \in Islands : j \notin cached[e] /\ inside[e] # j
    BY IslandAssumption DEF IInv, FetchInv
  <2> QED
    BY <1>1, <2>1 DEF IInv, FetchInv, DropSite, Restores, Stopped, ctl, cpu
<1> QED
  BY <1>2, <1>3, <1>4 DEF IInv

\* The handler is removed while no operation is in progress and nobody may
\* fetch a BRK.
LEMMA KeptByHandler ==
  ASSUME IInv, Arm \/ Disarm
  PROVE  IInv'
<1>1. /\ armed' \in BOOLEAN /\ (armed => armed' \/ op = "idle")
      /\ \A e \in Executors : "brk" \in cached[e] => armed'
      /\ UNCHANGED <<attested, site, live, ctl, stop, cpu, dropped>>
  BY DEF Arm, Disarm
<1>2. TypeOK'
  BY <1>1 DEF IInv, TypeOK, site, ctl, stop, cpu
<1>3. OpInv'
  BY <1>1 DEF IInv, OpInv, site, ctl, stop, Target
<1>4. ASSUME NEW e \in Executors PROVE FetchInv(e)'
  BY <1>1 DEF IInv, FetchInv, Restores, Stopped, site, ctl, cpu
<1> QED
  BY <1>2, <1>3, <1>4 DEF IInv

LEMMA KeptByOtherWrites ==
  ASSUME IInv, OtherWrites
  PROVE  IInv'
<1>1. /\ op = "idle" /\ step = "none" /\ op' = op /\ step' = step /\ word' = "other"
      /\ cached' \in [Executors -> SUBSET Words]
      /\ \A e \in Executors : cached'[e] = cached[e] \cup {"other"}
  BY DEF IInv, TypeOK, OpInv, OtherWrites, ctl, Words
<1>2. TypeOK'
  <2>1. word' \in Words /\ synced' \in BOOLEAN
    BY <1>1 DEF OtherWrites, Words
  <2> QED
    BY <1>1, <2>1 DEF IInv, TypeOK, OtherWrites, ctl
<1>3. OpInv'
  BY <1>1 DEF IInv, OpInv, OtherWrites, ctl
<1>4. ASSUME NEW e \in Executors PROVE FetchInv(e)'
  BY <1>1, IslandAssumption DEF IInv, FetchInv, OtherWrites, Stopped
<1> QED
  BY <1>2, <1>3, <1>4 DEF IInv

LEMMA KeptByExecutor ==
  ASSUME IInv, NEW x \in Executors, Enter(x) \/ Leave(x)
  PROVE  IInv'
<1>1. PICK i \in Islands \cup {NoIsland} :
        /\ i = NoIsland \/ i \in cached[x] \cap Islands
        /\ inside' = [inside EXCEPT ![x] = i]
  BY DEF Enter, Leave
<1>2. /\ inside' \in [Executors -> Islands \cup {NoIsland}] /\ inside'[x] = i
      /\ \A e \in Executors \ {x} : inside'[e] = inside[e]
      /\ x \notin parked
      /\ UNCHANGED <<attested, site, live, armed, ctl, stop, parked, cached, dropped>>
  BY <1>1 DEF IInv, TypeOK, Enter, Leave
<1>3. TypeOK'
  BY <1>2 DEF IInv, TypeOK, site, ctl, stop
<1>4. OpInv'
  BY <1>2 DEF IInv, OpInv, site, ctl, stop, Target
<1>5. ASSUME NEW e \in Executors PROVE FetchInv(e)'
  <2>1. FetchInv(e) /\ FetchInv(x)
    BY DEF IInv
  <2>2. CASE e # x
    BY <1>2, <2>1, <2>2 DEF FetchInv, Restores, Stopped, site, ctl
  <2>3. CASE e = x
    BY <1>1, <1>2, <2>1, <2>3, IslandAssumption DEF FetchInv, Restores, Stopped, site, ctl
  <2> QED
    BY <2>2, <2>3
<1> QED
  BY <1>3, <1>4, <1>5 DEF IInv

LEMMA KeptByStuttering ==
  ASSUME IInv, UNCHANGED vars
  PROVE  IInv'
<1>1. TypeOK'
  BY DEF IInv, TypeOK, vars, site, ctl, stop, cpu
<1>2. OpInv'
  BY DEF IInv, OpInv, vars, site, ctl, stop, Target
<1>3. ASSUME NEW e \in Executors PROVE FetchInv(e)'
  BY DEF IInv, FetchInv, Restores, Stopped, vars, site, ctl, cpu
<1> QED
  BY <1>1, <1>2, <1>3 DEF IInv

\* The invariant holds in every state, with a foreign writer or without.
THEOREM Invariant == Spec => []IInv
<1>1. IInv /\ [Next]_vars => IInv'
  <2> SUFFICES ASSUME IInv, [Next]_vars PROVE IInv'
    OBVIOUS
  <2>1. CASE \E i \in Islands \cup {NoIsland}, reaches, offers, permits \in BOOLEAN,
                pref \in {"BranchOnly", "TrapOnly", "BranchThenTrap"} :
               BeginFlip(i, reaches, offers, pref, permits)
    BY <2>1, KeptByBeginFlip
  <2>2. CASE BeginComplete \/ BeginRollback \/ Acquire \/ AcquireFails
    BY <2>2, KeptByBegin, KeptByAcquire, KeptByAcquireFails
  <2>3. CASE StoreFlip \/ StoreOriginal \/ NoStore \/ SyncSite
    BY <2>3, KeptByStoreFlip, KeptByStoreOriginal, KeptByNoStore, KeptBySyncSite
  <2>4. CASE SyncFails \/ ResumeFails \/ DropSite \/ Arm \/ Disarm \/ OtherWrites
    BY <2>4, KeptByFailures, KeptByDropSite, KeptByHandler, KeptByOtherWrites
  <2>5. CASE \E acks \in SUBSET Executors : \E lost \in SUBSET (Executors \ acks) :
               Refuse(acks, lost) \/ Settle(acks, lost)
    BY <2>5, KeptByRefuse, KeptBySettle
  <2>6. CASE \E e \in Executors : Enter(e) \/ Leave(e)
    BY <2>6, KeptByExecutor
  <2>7. CASE UNCHANGED vars
    BY <2>7, KeptByStuttering
  <2> QED
    BY <2>1, <2>2, <2>3, <2>4, <2>5, <2>6, <2>7 DEF Next
<1> QED
  BY InvInit, <1>1, PTL DEF Spec

-----------------------------------------------------------------------------
(* What follows.                                                           *)

\* The site's records are well formed, and a site that answers Flipped or
\* Unpatched is that for every executor.
THEOREM Settled == Spec => []SiteInv
<1>1. IInv => SiteInv
  BY DEF IInv, SiteInv, SettledEverywhere, FetchInv
<1> QED
  BY <1>1, Invariant, PTL

\* A branch that any executor may still fetch leads to a mapped, published
\* island, and so does the island it runs in.
THEOREM Mapped == Spec => []BranchesLeadSomewhere
<1>1. IInv => BranchesLeadSomewhere
  BY DEF IInv, BranchesLeadSomewhere, FetchInv
<1> QED
  BY <1>1, Invariant, PTL

\* A BRK that any executor may still fetch has its handler installed.
THEOREM Owned == Spec => []BrkIsOwned
<1>1. IInv => BrkIsOwned
  BY DEF IInv, BrkIsOwned, FetchInv
<1> QED
  BY <1>1, Invariant, PTL

\* Somebody else's word is never overwritten nor settled upon: a publication
\* that has passed its revalidation finds the word it is about.
THEOREM ForeignStays == Spec => ForeignWordKept
<1>1. ASSUME IInv, [Next]_vars, word = "other"
      PROVE  word' = "other" /\ (state' = state \/ op = "idle")
  <2>1. "other" \notin {"svc", "none", "brk"} \cup Islands
    BY IslandAssumption
  <2>2. flipped # "other" /\ flipped \in {"none", "brk"} \cup Islands
    BY <1>1, <2>1 DEF IInv, TypeOK
  <2>3. word \notin Expected /\ step \notin {"sync", "resume"}
    BY <1>1, <2>2 DEF IInv, TypeOK, OpInv, Expected, Target
  <2>4. CASE \E i \in Islands \cup {NoIsland}, reaches, offers, permits \in BOOLEAN,
                pref \in {"BranchOnly", "TrapOnly", "BranchThenTrap"} :
               BeginFlip(i, reaches, offers, pref, permits)
    BY <1>1, <2>4 DEF BeginFlip, site
  <2>5. CASE BeginComplete \/ BeginRollback \/ Acquire \/ AcquireFails
    BY <1>1, <2>5 DEF BeginComplete, BeginRollback, Acquire, AcquireFails, site
  <2>6. CASE StoreFlip \/ StoreOriginal \/ NoStore \/ SyncSite \/ SyncFails \/ ResumeFails
    BY <2>3, <2>6 DEF StoreFlip, StoreOriginal, NoStore, SyncSite, SyncFails, ResumeFails
  <2>7. CASE \E acks \in SUBSET Executors : \E lost \in SUBSET (Executors \ acks) :
               Refuse(acks, lost) \/ Settle(acks, lost)
    BY <1>1, <2>3, <2>7 DEF Refuse, Settle, site
  <2>8. CASE DropSite \/ Arm \/ Disarm \/ OtherWrites
             \/ \E e \in Executors : Enter(e) \/ Leave(e)
    BY <1>1, <2>8 DEF DropSite, Arm, Disarm, OtherWrites, Enter, Leave, site
  <2>9. CASE UNCHANGED vars
    BY <1>1, <2>9 DEF vars, site
  <2> QED
    BY <1>1, <2>4, <2>5, <2>6, <2>7, <2>8, <2>9 DEF Next
<1>2. IInv /\ [Next]_vars =>
        [word = "other" => word' = "other" /\ (state' = state \/ op = "idle")]_vars
  BY <1>1
<1> QED
  BY <1>2, Invariant, PTL DEF Spec, ForeignWordKept
=============================================================================
