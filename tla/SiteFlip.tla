----------------------------- MODULE SiteFlip -----------------------------
(***************************************************************************)
(* Flipping one AArch64 SVC word to a branch or a BRK, completing and      *)
(* rolling back: Patcher::flip, complete_sync and rollback in              *)
(* src/crates/liteinst-aarch64-patch/src/flip.rs and the custody of Site.  *)
(*                                                                         *)
(* A word is "svc" (the original), "brk", the island a branch leads to, or *)
(* "other" (a word somebody else wrote).  cached[e] holds the words        *)
(* executor e may still fetch at the site: a store adds its word, a        *)
(* context synchronization after the cache maintenance leaves the current  *)
(* one.  The patcher works on the site alone (&mut Site); executors run    *)
(* between its steps unless a stop holds them.                             *)
(*                                                                         *)
(* ForeignWriter allows one write by somebody else, which the safety       *)
(* contract of Site::from_aliases excludes and flip.rs revalidates all the *)
(* same.  A caller that uninstalls its trap handler forgets the TrapRoute. *)
(***************************************************************************)
EXTENDS Integers, FiniteSets

CONSTANTS Executors, Islands, NoIsland, ForeignWriter

ASSUME IslandAssumption ==
  NoIsland \notin Islands /\ Islands \cap {"svc", "brk", "other", "none"} = {}
ASSUME FlagAssumption == ForeignWriter \in BOOLEAN

VARIABLES
  attested,               \* the cache operations were probed
  word,                   \* the site's word in memory
  state, pending,         \* SiteState and its PendingWord
  flipped,                \* flipped_word
  custody,                \* the island the site holds
  live,                   \* islands: "fresh", "held", "published", "unmapped"
  armed,                  \* the trap handler is installed, a TrapRoute exists
  op, step, chosen,       \* operation in progress; flip's word and island
  lease, synced,          \* executors stopped; caches maintained since store
  acked, parked,          \* last resume's answer; executors held
  cached, inside,         \* words an executor may fetch; island it runs in
  dropped                 \* the Site was dropped

site == <<word, state, pending, flipped, custody>>
ctl  == <<op, step, chosen>>
cpu  == <<parked, cached, inside>>
stop == <<lease, synced, acked>>
vars == <<attested, site, live, armed, ctl, stop, cpu, dropped>>

Words == {"svc", "brk", "other"} \cup Islands
NoChoice == [word |-> "none", island |-> NoIsland]

Init ==
  /\ attested \in BOOLEAN
  /\ word = "svc" /\ state = "Unpatched" /\ pending = "none"
  /\ flipped = "none" /\ custody = NoIsland
  /\ live = [i \in Islands |-> "fresh"]
  /\ armed = FALSE
  /\ op = "idle" /\ step = "none" /\ chosen = NoChoice
  /\ lease = FALSE /\ synced = TRUE /\ acked = {} /\ parked = {}
  /\ cached = [e \in Executors |-> {"svc"}]
  /\ inside = [e \in Executors |-> NoIsland]
  /\ dropped = FALSE

-----------------------------------------------------------------------------
(* The operations.                                                         *)

\* What an Island's Drop does, for a handle or NoIsland.
Unmap(i) == [j \in Islands |-> IF j = i THEN "unmapped" ELSE live[j]]

\* The trap leg moves an island it does not use along with the request.
Hold(i) == [j \in Islands |-> IF j = i THEN "held" ELSE live[j]]

Idle == op = "idle" /\ ~dropped
Finish == op' = "idle" /\ step' = "none" /\ chosen' = NoChoice

\* Mutation of Select: the trap leg does not ask for an armed route.
SelectUnarmed(pref, permits, branch, trapArmed) ==
  IF branch /\ pref # "TrapOnly" THEN "Branch"
  ELSE IF pref = "TrapOnly" \/ (pref = "BranchThenTrap" /\ permits) THEN "Trap"
       ELSE "Refuse"
\* flip's choice, before any write: branch and trap say what is available.
Select(pref, permits, branch, trapArmed) ==
  IF branch /\ pref # "TrapOnly" THEN "Branch"
  ELSE IF /\ trapArmed
          /\ pref = "TrapOnly" \/ (pref = "BranchThenTrap" /\ permits)
       THEN "Trap"
       ELSE "Refuse"

\* flip up to StopControl::acquire.  The island is taken by value: a refusal
\* drops it.  Publishing it may fail.
BeginFlip(i, reaches, offersRoute, pref, permits) ==
  /\ Idle /\ state = "Unpatched" /\ attested
  /\ i # NoIsland => live[i] = "fresh"
  /\ offersRoute => armed
  /\ LET choice == Select(pref, permits, i # NoIsland /\ reaches, offersRoute)
         Go(w)  == /\ op' = "flip" /\ step' = "acquire"
                   /\ chosen' = [word |-> w, island |-> i]
     IN \/ choice = "Branch" /\ Go(i) /\ live' = [live EXCEPT ![i] = "published"]
        \/ choice = "Trap" /\ Go("brk") /\ live' = Hold(i)
        \/ /\ choice \in {"Branch", "Refuse"} /\ i # NoIsland
           /\ live' = Unmap(i) /\ UNCHANGED ctl
  /\ UNCHANGED <<attested, site, armed, stop, cpu, dropped>>

BeginComplete ==
  /\ Idle /\ state \in {"SyncPending", "RetainedStop"}
  /\ op' = "complete" /\ step' = "acquire" /\ UNCHANGED chosen
  /\ UNCHANGED <<attested, site, live, armed, stop, cpu, dropped>>

BeginRollback ==
  /\ Idle /\ attested /\ state # "Unpatched" /\ flipped # "none"
  /\ op' = "rollback" /\ step' = "acquire" /\ UNCHANGED chosen
  /\ UNCHANGED <<attested, site, live, armed, stop, cpu, dropped>>

\* StopControl::acquire: everybody stopped, nobody inside the island while the
\* original word comes back.
Restores == op = "rollback" \/ (op = "complete" /\ pending = "original")
Acquire ==
  /\ step = "acquire"
  /\ Restores => \A e \in Executors : inside[e] = NoIsland
  /\ lease' = TRUE /\ parked' = Executors /\ step' = "store"
  /\ UNCHANGED <<attested, site, live, armed, op, chosen, synced, acked, cached,
                 inside, dropped>>

\* The stop could not be had: nothing was written; flip drops its island.
AcquireFails ==
  /\ step = "acquire" /\ Finish
  /\ live' = Unmap(chosen.island)
  /\ UNCHANGED <<attested, site, armed, stop, cpu, dropped>>

\* The word revalidation expects, per operation.
Expected == CASE op = "flip" -> {"svc"}
              [] op = "complete" /\ pending = "patch" -> {flipped}
              [] op = "complete" /\ pending = "original" -> {"svc"}
              [] OTHER -> {flipped, "svc"}

\* One resume: the executors in acks synchronize their context and run; of the
\* others, those in lost run all the same.
Resume(acks, lost) ==
  /\ acked' = acks /\ lease' = (acks \cup lost # Executors)
  /\ parked' = Executors \ (acks \cup lost)
  /\ cached' = [e \in Executors |->
                  IF e \in acks /\ synced THEN {word} ELSE cached[e]]

\* The word changed: flip and rollback release the stop (release_after_refusal),
\* complete_sync stays stopped.
Refuse(acks, lost) ==
  /\ step = "store" /\ word \notin Expected
  /\ Finish
  /\ live' = Unmap(chosen.island)
  /\ IF op = "complete" THEN UNCHANGED <<lease, acked, parked, cached>>
                        ELSE Resume(acks, lost)
  /\ UNCHANGED <<attested, site, armed, synced, inside, dropped>>

Stored(w) ==
  /\ word' = w /\ synced' = FALSE /\ step' = "sync"
  /\ cached' = [e \in Executors |-> cached[e] \cup {w}]

\* Site::retain_island replaces, and so drops, the island held before.
TakesCustody(i) ==
  IF i = NoIsland THEN UNCHANGED <<custody, live>>
                  ELSE custody' = i /\ live' = Unmap(custody)

\* The custody is recorded, then the word stored.
StoreFlip ==
  /\ step = "store" /\ op = "flip" /\ word \in Expected
  /\ TakesCustody(chosen.island)
  /\ flipped' = chosen.word /\ state' = "SyncPending" /\ pending' = "patch"
  /\ Stored(chosen.word)
  /\ UNCHANGED <<attested, armed, op, chosen, lease, acked, parked, inside,
                 dropped>>

StoreOriginal ==
  /\ step = "store" /\ op = "rollback" /\ word \in Expected
  /\ state' = "SyncPending" /\ pending' = "original"
  /\ Stored("svc")
  /\ UNCHANGED <<attested, flipped, custody, live, armed, op, chosen, lease,
                 acked, parked, inside, dropped>>

\* Mutation of NoStore: completing syncs whatever word it finds.
NoStoreUnchecked ==
  /\ step = "store" /\ op = "complete"
  /\ step' = "sync"
  /\ UNCHANGED <<attested, site, live, armed, op, chosen, stop, cpu, dropped>>
\* complete_sync has no store, only the revalidation.
NoStore ==
  /\ step = "store" /\ op = "complete" /\ word \in Expected
  /\ step' = "sync"
  /\ UNCHANGED <<attested, site, live, armed, op, chosen, stop, cpu, dropped>>

\* finish_publication: sync_site, whose failure leaves everybody stopped.
SyncSite ==
  /\ step = "sync" /\ synced' = TRUE /\ step' = "resume"
  /\ UNCHANGED <<attested, site, live, armed, op, chosen, lease, acked, cpu,
                 dropped>>

SyncFails ==
  /\ step = "sync" /\ Finish
  /\ state' = IF state = "RetainedStop" THEN "RetainedStop" ELSE "SyncPending"
  /\ UNCHANGED <<attested, word, pending, flipped, custody, live, armed, stop,
                 cpu, dropped>>

\* Mutation of AllAcknowledged: one acknowledgement is enough.
AnyAcknowledged(acks) == acks # {}
AllAcknowledged(acks) == acks # {} /\ acks = Executors

FlippedAfter == IF pending = "patch" THEN flipped ELSE "none"

\* resume_and_settle: Ok(states), of which acks acknowledged.
Settle(acks, lost) ==
  /\ step = "resume" /\ Finish
  /\ Resume(acks, lost)
  /\ IF AllAcknowledged(acks)
     THEN /\ state' = IF pending = "patch" THEN "Flipped" ELSE "Unpatched"
          /\ flipped' = FlippedAfter
          /\ pending' = "none"
     ELSE state' = "SyncPending" /\ UNCHANGED <<flipped, pending>>
  /\ UNCHANGED <<attested, word, custody, live, armed, synced, inside, dropped>>

\* resume_and_settle: Err.
ResumeFails ==
  /\ step = "resume" /\ Finish /\ state' = "RetainedStop"
  /\ UNCHANGED <<attested, word, pending, flipped, custody, live, armed, stop,
                 cpu, dropped>>

\* Mutation of Leaks: only a settled flip keeps the island.
LeaksFlipped == state = "Flipped"
\* Site::drop disarms the island unless the site is Unpatched.
Leaks == state # "Unpatched"
DropSite ==
  /\ Idle /\ dropped' = TRUE /\ custody' = NoIsland
  /\ live' = IF Leaks THEN live ELSE Unmap(custody)
  /\ UNCHANGED <<attested, word, state, pending, flipped, armed, ctl, stop, cpu>>

-----------------------------------------------------------------------------
(* The caller's trap handler, the other writer and the executors.          *)

Arm ==
  /\ ~armed /\ armed' = TRUE
  /\ UNCHANGED <<attested, site, live, ctl, stop, cpu, dropped>>

\* TrapRoute::arm: the handler stays until the BRK is retired and no delivery
\* of it is possible.
Disarm ==
  /\ armed /\ op = "idle" /\ word # "brk"
  /\ \A e \in Executors : "brk" \notin cached[e]
  /\ armed' = FALSE
  /\ UNCHANGED <<attested, site, live, ctl, stop, cpu, dropped>>

OtherWrites ==
  /\ ForeignWriter /\ word # "other" /\ op = "idle" /\ ~lease
  /\ word' = "other" /\ synced' = FALSE
  /\ cached' = [e \in Executors |-> cached[e] \cup {"other"}]
  /\ UNCHANGED <<attested, state, pending, flipped, custody, live, armed, ctl,
                 lease, acked, parked, inside, dropped>>

\* An executor fetches a branch and enters the island; "svc" and "brk" return
\* to it without leaving a trace here.
Enter(e) ==
  /\ e \notin parked /\ inside[e] = NoIsland
  /\ \E i \in cached[e] \cap Islands : inside' = [inside EXCEPT ![e] = i]
  /\ UNCHANGED <<attested, site, live, armed, ctl, stop, parked, cached, dropped>>

Leave(e) ==
  /\ e \notin parked /\ inside[e] # NoIsland
  /\ inside' = [inside EXCEPT ![e] = NoIsland]
  /\ UNCHANGED <<attested, site, live, armed, ctl, stop, parked, cached, dropped>>

Next ==
  \/ \E i \in Islands \cup {NoIsland}, reaches, offers, permits \in BOOLEAN,
        pref \in {"BranchOnly", "TrapOnly", "BranchThenTrap"} :
       BeginFlip(i, reaches, offers, pref, permits)
  \/ BeginComplete \/ BeginRollback \/ Acquire \/ AcquireFails
  \/ StoreFlip \/ StoreOriginal \/ NoStore \/ SyncSite \/ SyncFails
  \/ \E acks \in SUBSET Executors : \E lost \in SUBSET (Executors \ acks) :
       Refuse(acks, lost) \/ Settle(acks, lost)
  \/ ResumeFails \/ DropSite \/ Arm \/ Disarm \/ OtherWrites
  \/ \E e \in Executors : Enter(e) \/ Leave(e)

Spec == Init /\ [][Next]_vars

-----------------------------------------------------------------------------
(* Properties.                                                             *)

\* Every variable has its type; a stored flip always has its word recorded.
TypeOK ==
  /\ attested \in BOOLEAN /\ word \in Words
  /\ state \in {"Unpatched", "Flipped", "SyncPending", "RetainedStop"}
  /\ pending \in {"none", "patch", "original"}
  /\ flipped \in {"none", "brk"} \cup Islands
  /\ custody \in Islands \cup {NoIsland}
  /\ live \in [Islands -> {"fresh", "held", "published", "unmapped"}]
  /\ armed \in BOOLEAN
  /\ op \in {"idle", "flip", "complete", "rollback"}
  /\ step \in {"none", "acquire", "store", "sync", "resume"}
  /\ chosen \in [word : {"none", "brk"} \cup Islands,
                 island : Islands \cup {NoIsland}]
  /\ lease \in BOOLEAN /\ synced \in BOOLEAN /\ dropped \in BOOLEAN
  /\ acked \subseteq Executors /\ parked \subseteq Executors
  /\ cached \in [Executors -> SUBSET Words]
  /\ inside \in [Executors -> Islands \cup {NoIsland}]
  /\ (state = "Unpatched") = (flipped = "none")
  /\ (state \in {"SyncPending", "RetainedStop"}) = (pending # "none")

\* Whatever branch an executor may still fetch, however stale, leads to a
\* published island that is still mapped, and so does the island it runs in:
\* failed syncs, lost acknowledgements, rollbacks, a second flip and the drop
\* of the Site included (finish_publication, resume_and_settle, Site::drop).
BranchesLeadSomewhere ==
  \A e \in Executors : \A i \in Islands :
    i \in cached[e] \/ inside[e] = i => live[i] = "published"

\* A BRK an executor may still fetch has its handler installed (TrapRoute).
BrkIsOwned == \A e \in Executors : "brk" \in cached[e] => armed

\* A site that answers Flipped or Unpatched between operations is that for
\* every executor: none of them can still execute the word before
\* (all_acknowledged).  Somebody else's writes aside.
SettledEverywhere ==
  op = "idle" /\ word # "other" =>
    /\ state = "Flipped" => \A e \in Executors : cached[e] \subseteq {flipped}
    /\ state = "Unpatched" => \A e \in Executors : cached[e] \subseteq {"svc"}

\* The site's records are well formed and true of every executor.
SiteInv == TypeOK /\ SettledEverywhere

\* A word the patcher does not know is never overwritten nor settled upon: the
\* revalidations of flip, complete_sync and rollback refuse it.
ForeignWordKept ==
  [][word = "other" => word' = "other" /\ (state' = state \/ op = "idle")]_vars
=============================================================================
