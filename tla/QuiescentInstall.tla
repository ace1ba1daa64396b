------------------------- MODULE QuiescentInstall -------------------------
(***************************************************************************)
(* Installation behind an admission gate: PlannedInstall and InstalledOnce *)
(* in src/src/quiescent.rs, PlannedBundle and InstalledBundle in           *)
(* src/src/bundle.rs, the lease of src/src/contracts.rs and the SIGILL     *)
(* entry router of src/src/entry_router.rs.                                *)
(*                                                                         *)
(* A plan is a sequence of steps over the instructions 1..N of one source. *)
(* A step turns one head into a jump to generated code and the other       *)
(* instructions it displaces into markers; the markers that are legal      *)
(* entries are routed through SIGILL.  A single install is a plan of one   *)
(* step.  The store of a step may span bytes of an earlier step, which it  *)
(* writes unchanged.  Publishers are the threads that own a lease.  A      *)
(* rapid probe (src/src/rapid.rs) shares the byte ownership and needs no   *)
(* lease.                                                                  *)
(***************************************************************************)
EXTENDS Integers, Sequences, FiniteSets, FiniteSetsExt

CONSTANTS
  N,           \* instructions of the source
  Plans,       \* names of the plans
  Steps,       \* [Plans -> Seq([head, edits, span])]
  Locks,       \* [Plans -> Seq(SUBSET 1..N)]: BundlePlan::locks
  Entries,     \* Entries[g]: the legal entries of generation g
  ProbeUnits,  \* instructions of a rapid probe
  Scopes,      \* the sets of places a lease may hold
  Publishers,
  Executors

Units       == 1 .. N
Generations == 1 .. Len(Entries)

\* A step displaces the instructions of one interval, from its head on, and
\* its store covers them.
WellFormed(s) ==
  /\ \E last \in Units : s.edits = s.head .. last
  /\ s.head \in s.edits /\ s.edits \subseteq s.span

\* No step changes what another step of its plan displaces.
StepsApart(steps) ==
  \A k, l \in DOMAIN steps : k # l => steps[k].edits \cap steps[l].edits = {}

ASSUME PlanAssumption ==
  /\ N \in Nat \ {0}
  /\ Entries \in Seq(SUBSET Units) /\ Entries # <<>>
  /\ Plans \cap {"none", "probe", "src"} = {}
  /\ Steps \in [Plans -> Seq([head: Units, edits: SUBSET Units, span: SUBSET Units])]
  /\ Locks \in [Plans -> Seq(SUBSET Units)]
  /\ ProbeUnits \subseteq Units
  /\ \A i \in Plans :
       /\ Steps[i] # <<>> /\ StepsApart(Steps[i])
       /\ \A k \in DOMAIN Steps[i] : WellFormed(Steps[i][k])
       /\ UNION {Steps[i][k].span : k \in DOMAIN Steps[i]}
            \subseteq UNION {Locks[i][k] : k \in DOMAIN Locks[i]}

VARIABLES
  code, view,          \* bytes of each instruction, as stored and as fetched
  owner,               \* byte ownership in the trap registry
  image, batch, made,  \* generated code, routes, generation of each plan
  handle, receipts,    \* installed handles; plans with an issued receipt
  lease, pub,          \* the lease and the call of each publisher
  sigill, armed,       \* SIGILL disposition; INSTALLED of the entry router
  probe,               \* the rapid probe
  generation,          \* incarnation of the source mapping
  pc, trap             \* executors

bytes  == <<code, view>>
assets == <<owner, image, batch, made, handle, receipts>>
calls  == <<lease, pub>>
signal == <<sigill, armed>>
env    == <<probe, generation>>
execs  == <<pc, trap>>
vars   == <<bytes, assets, calls, signal, env, execs>>

Orig    == <<"orig", 0>>
Probed  == <<"probe", 0>>
Out     == <<"out", 0>>
Lost    == <<"lost", 0>>       \* killed by SIGILL or off the instruction heads
Src(u)  == <<"src", u>>

\* The bytes after the first k steps: a step writes its edits over the steps
\* before it and leaves the rest of its span as it found it.
Overlay(i, k, u) ==
  LET writers == {j \in 1 .. k : u \in Steps[i][j].edits}
  IN  IF writers = {} THEN Orig ELSE <<i, Max(writers)>>

Final(i, u) == Overlay(i, Len(Steps[i]), u)
Touched(i)  == UNION {Steps[i][k].edits : k \in DOMAIN Steps[i]}
Reads(i)    == UNION {Steps[i][k].span : k \in DOMAIN Steps[i]}
Heads(i)    == {Steps[i][k].head : k \in DOMAIN Steps[i]}
Image(i)    == {<<i, k>> : k \in DOMAIN Steps[i]}
Source(S)   == {Src(u) : u \in S}

\* Displaced instructions that generation g lists as legal entries.
Routed(i, g) == (Touched(i) \ Heads(i)) \cap Entries[g]

NoCall == [step |-> "idle", plan |-> "none", gen |-> 0, k |-> 0]
Free   == [held |-> {}, identity |-> 0, poisoned |-> FALSE]
Held   == UNION {lease[p].held : p \in Publishers}
Busy(i) == \E p \in Publishers : pub[p].plan = i

Init ==
  /\ code = [u \in Units |-> Orig]
  /\ view = [e \in Executors |-> code]
  /\ owner = [u \in Units |-> "none"]
  /\ image = [i \in Plans |-> "none"]
  /\ batch = [i \in Plans |-> "off"]
  /\ made = [i \in Plans |-> 0]
  /\ handle = [i \in Plans |-> "absent"]
  /\ receipts = {}
  /\ lease = [p \in Publishers |-> Free]
  /\ pub = [p \in Publishers |-> NoCall]
  /\ sigill \in {"default", "foreign"} /\ armed = FALSE
  /\ probe = "none" /\ generation = 1
  /\ pc = [e \in Executors |-> Out] /\ trap = [e \in Executors |-> FALSE]

-----------------------------------------------------------------------------
(* The lease.  The runtime that owns the gate grants it once no thread     *)
(* executes, or is stopped, inside; while it is held nobody is admitted.   *)

AcquireLease(p, S) ==
  /\ lease[p] = Free
  /\ S \cap Held = {}
  /\ \A e \in Executors : pc[e] \notin S
  /\ lease' = [lease EXCEPT
       ![p] = [held |-> S, identity |-> generation, poisoned |-> FALSE]]
  /\ UNCHANGED <<bytes, assets, pub, signal, env, execs>>

\* A poisoned lease leaves the gate shut.
ReleaseLease(p) ==
  /\ pub[p] = NoCall /\ lease[p] # Free /\ ~lease[p].poisoned
  /\ lease' = [lease EXCEPT ![p] = Free]
  /\ UNCHANGED <<bytes, assets, pub, signal, env, execs>>

\* Mutation of Covers: a prior failure behind the gate is not looked at.
IgnorePoison(p, i, g) ==
  lease[p].identity = g /\ Source(Reads(i)) \subseteq lease[p].held
\* Mutation of Covers: a plan of another generation is accepted.
IgnoreIdentity(p, i, g) ==
  ~lease[p].poisoned /\ lease[p] # Free /\ Source(Reads(i)) \subseteq lease[p].held

\* QuiescenceLease::check
Covers(p, i, g) ==
  /\ ~lease[p].poisoned
  /\ lease[p].identity = g
  /\ Source(Reads(i)) \subseteq lease[p].held

-----------------------------------------------------------------------------
(* Publication: publish_inner and PlannedBundle::publish_with.             *)

\* A plan made against generation g is published; its snapshot is compared.
Publish(p, i, g) ==
  /\ pub[p] = NoCall /\ ~Busy(i) /\ g <= generation
  /\ Covers(p, i, g)
  /\ \A u \in Reads(i) : code[u] = Orig
  /\ pub' = [pub EXCEPT ![p] = [step |-> "reserve", plan |-> i, gen |-> g, k |-> 1]]
  /\ UNCHANGED <<bytes, assets, lease, signal, env, execs>>

Goto(p, step, k) == pub' = [pub EXCEPT ![p].step = step, ![p].k = k]

Unreserved(p) ==
  [u \in Units |-> IF owner[u] = pub[p].plan THEN "none" ELSE owner[u]]

\* A refusal before the first store drops the locals in reverse order: the
\* uncommitted routes, the staged images and the reservations taken so far.
Abandon(p) ==
  LET i == pub[p].plan
  IN  /\ owner' = Unreserved(p)
      /\ image' = [image EXCEPT ![i] = IF @ = "staged" THEN "none" ELSE @]
      /\ batch' = [batch EXCEPT ![i] = IF @ = "staged" THEN "off" ELSE @]
      /\ pub' = [pub EXCEPT ![p] = NoCall]
      /\ UNCHANGED <<bytes, made, handle, receipts, lease, signal, env, execs>>

PreWrite == {"reserve", "stage", "prepare", "route", "commit"}

\* Host, mapping or signal facilities may be missing at any point.
Refused(p) == pub[p].step \in PreWrite /\ Abandon(p)

\* trap::reserve of the next lock; a conflict with any owner refuses.
Reserve(p) ==
  LET i == pub[p].plan
      k == pub[p].k
  IN  /\ pub[p].step = "reserve"
      /\ IF k > Len(Locks[i])
         THEN Goto(p, "stage", 0) /\ UNCHANGED <<bytes, assets, lease, signal, env, execs>>
         ELSE IF \A u \in Locks[i][k] : owner[u] = "none"
              THEN /\ owner' = [u \in Units |-> IF u \in Locks[i][k] THEN i ELSE owner[u]]
                   /\ Goto(p, "reserve", k + 1)
                   /\ UNCHANGED <<bytes, image, batch, made, handle, receipts>>
                   /\ UNCHANGED <<lease, signal, env, execs>>
              ELSE Abandon(p)

\* allocate_image_at never replaces a mapping, so an image that was once
\* committed refuses the next publication of the same plan.
Stage(p) ==
  LET i == pub[p].plan
  IN  /\ pub[p].step = "stage"
      /\ IF image[i] = "none"
         THEN /\ image' = [image EXCEPT ![i] = "staged"]
              /\ Goto(p, "prepare", 0)
              /\ UNCHANGED <<bytes, owner, batch, made, handle, receipts>>
              /\ UNCHANGED <<lease, signal, env, execs>>
         ELSE Abandon(p)

Active(i) == batch[i] # "off"

\* entry_router::prepare: the first use installs over SIG_DFL; later ones
\* verify that the router is still there.
Disposition ==
  CASE armed /\ sigill = "router"   -> "router"
    [] ~armed /\ sigill = "default" -> "router"
    [] OTHER                        -> "refused"

\* entry_router::prepare, for plans that need routes.  The router stays even
\* if the publication is refused later.
Prepare(p) ==
  LET i == pub[p].plan
  IN  /\ pub[p].step = "prepare"
      /\ \/ /\ Routed(i, pub[p].gen) = {}
            /\ made' = [made EXCEPT ![i] = pub[p].gen]
            /\ Goto(p, "commit", 0)
            /\ UNCHANGED <<owner, image, batch, handle, receipts, signal>>
         \/ /\ Routed(i, pub[p].gen) # {} /\ Disposition = "router"
            /\ sigill' = "router" /\ armed' = TRUE
            /\ Goto(p, "route", 0)
            /\ UNCHANGED assets
      /\ UNCHANGED <<bytes, lease, env, execs>>

Verified == armed /\ sigill = "router"

\* entry_router::stage: the batch is visible to the handler from here on.  Two
\* active batches never route the same instruction.
Route(p) ==
  LET i == pub[p].plan
  IN  /\ pub[p].step = "route" /\ Verified
      /\ \A j \in Plans : Active(j) => Routed(j, made[j]) \cap Routed(i, pub[p].gen) = {}
      /\ batch' = [batch EXCEPT ![i] = "staged"]
      /\ made' = [made EXCEPT ![i] = pub[p].gen]
      /\ Goto(p, "commit", 0)
      /\ UNCHANGED <<bytes, owner, image, handle, receipts, lease, signal, env, execs>>

\* The last check; then code, routes and ownership become irrevocable and the
\* lease is poisoned, all before the first store.
Commit(p) ==
  LET i == pub[p].plan
  IN  /\ pub[p].step = "commit"
      /\ Covers(p, i, pub[p].gen)
      /\ \A u \in Reads(i) : code[u] = Orig
      /\ Active(i) => Verified
      /\ image' = [image EXCEPT ![i] = "live"]
      /\ batch' = [batch EXCEPT ![i] = IF @ = "staged" THEN "committed" ELSE @]
      /\ lease' = [lease EXCEPT ![p].poisoned = TRUE]
      /\ Goto(p, "write", 1)
      /\ UNCHANGED <<bytes, owner, made, handle, receipts, signal, env, execs>>

\* write_source, SourceStore::write: one store per step, in plan order.
Write(p) ==
  LET i == pub[p].plan
      k == pub[p].k
  IN  /\ pub[p].step = "write"
      /\ code' = [u \in Units |->
                    IF u \in Steps[i][k].span THEN Overlay(i, k, u) ELSE code[u]]
      /\ IF k = Len(Steps[i]) THEN Goto(p, "sync", 0) ELSE Goto(p, "write", k + 1)
      /\ UNCHANGED <<view, assets, lease, signal, env, execs>>

\* Mutation of Synchronized: the barrier reaches only threads outside code.
WeakBarrier == [e \in Executors |-> IF pc[e] = Out THEN code ELSE view[e]]
\* sync_core: every thread of the process fetches afresh.
Synchronized == [e \in Executors |-> code]

\* The finalizer and the barrier succeed: the receipt is issued.
Complete(p) ==
  LET i == pub[p].plan
  IN  /\ pub[p].step = "sync"
      /\ view' = Synchronized
      /\ lease' = [lease EXCEPT ![p].poisoned = FALSE]
      /\ handle' = [handle EXCEPT ![i] = "active"]
      /\ receipts' = receipts \cup {i}
      /\ pub' = [pub EXCEPT ![p] = NoCall]
      /\ UNCHANGED <<code, owner, image, batch, made, signal, env, execs>>

\* Either fails (FailureStage::KeepGated): the handle is dropped, which keeps
\* ownership, code and routes; the lease stays poisoned.
KeepGated(p) ==
  /\ pub[p].step = "sync"
  /\ handle' = [handle EXCEPT ![pub[p].plan] = "dropped"]
  /\ pub' = [pub EXCEPT ![p] = NoCall]
  /\ UNCHANGED <<bytes, owner, image, batch, made, receipts, lease, signal, env, execs>>

\* Mutation of DroppedOwner: dropping the handle drops the reservations.
ReleaseOnDrop(i) == [u \in Units |-> IF owner[u] = i THEN "none" ELSE owner[u]]
\* Drop forgets the reservations.
DroppedOwner(i) == owner

\* Drop of InstalledOnce and InstalledBundle by their caller.
DropHandle(i) ==
  /\ handle[i] = "active" /\ ~Busy(i)
  /\ handle' = [handle EXCEPT ![i] = "dropped"]
  /\ owner' = DroppedOwner(i)
  /\ UNCHANGED <<bytes, image, batch, made, receipts, calls, signal, env, execs>>

-----------------------------------------------------------------------------
(* Retirement: retire_inner and InstalledBundle::retire_with.              *)

\* Mutation of Drained: the lease need not hold the generated code.
SourceOnly(p, i) == TRUE
\* The generated mappings must be held, too.
Drained(p, i) == Image(i) \subseteq lease[p].held

Retire(p, i) ==
  /\ pub[p] = NoCall /\ ~Busy(i)
  /\ handle[i] = "active"
  /\ Covers(p, i, made[i]) /\ Drained(p, i)
  /\ Active(i) => Verified
  /\ \A u \in Reads(i) : code[u] = Final(i, u)
  /\ lease' = [lease EXCEPT ![p].poisoned = TRUE]
  /\ pub' = [pub EXCEPT
       ![p] = [step |-> "restore", plan |-> i, gen |-> made[i], k |-> 1]]
  /\ UNCHANGED <<bytes, assets, signal, env, execs>>

\* Mutation of Undone: stores are undone in plan order.
PlanOrder(i, k) == k
\* Stores are undone in reverse.
Undone(i, k) == Len(Steps[i]) + 1 - k

Restore(p) ==
  LET i == pub[p].plan
      k == pub[p].k
      s == Undone(i, k)
  IN  /\ pub[p].step = "restore"
      /\ code' = [u \in Units |->
                    IF u \in Steps[i][s].span THEN Overlay(i, s - 1, u) ELSE code[u]]
      /\ IF k = Len(Steps[i]) THEN Goto(p, "resync", 0) ELSE Goto(p, "restore", k + 1)
      /\ UNCHANGED <<view, assets, lease, signal, env, execs>>

\* Routing is disabled and ownership released after the barrier.
Retired(p) ==
  LET i == pub[p].plan
  IN  /\ pub[p].step = "resync"
      /\ view' = Synchronized
      /\ batch' = [batch EXCEPT ![i] = "off"]
      /\ owner' = Unreserved(p)
      /\ handle' = [handle EXCEPT ![i] = "retired"]
      /\ receipts' = receipts \ {i}
      /\ lease' = [lease EXCEPT ![p].poisoned = FALSE]
      /\ pub' = [pub EXCEPT ![p] = NoCall]
      /\ UNCHANGED <<code, image, made, signal, env, execs>>

\* KeepGated: the handle is still active, but its snapshot no longer matches,
\* so no later call can retire it.
RetireFails(p) ==
  /\ pub[p].step = "resync"
  /\ pub' = [pub EXCEPT ![p] = NoCall]
  /\ UNCHANGED <<bytes, assets, lease, signal, env, execs>>

-----------------------------------------------------------------------------
(* The rest of the process.                                                *)

\* A rapid probe reserves its bytes, compares them, and is installed or gives
\* the reservation back; once installed it stores either opcode at any time.
ProbeReserve ==
  /\ probe = "none" /\ \A u \in ProbeUnits : owner[u] = "none"
  /\ probe' = "pending"
  /\ owner' = [u \in Units |-> IF u \in ProbeUnits THEN "probe" ELSE owner[u]]
  /\ UNCHANGED <<bytes, image, batch, made, handle, receipts, calls>>
  /\ UNCHANGED <<signal, generation, execs>>

ProbeRefused ==
  /\ probe = "pending" /\ probe' = "none"
  /\ owner' = [u \in Units |-> IF u \in ProbeUnits THEN "none" ELSE owner[u]]
  /\ UNCHANGED <<bytes, image, batch, made, handle, receipts, calls>>
  /\ UNCHANGED <<signal, generation, execs>>

ProbeCommit ==
  /\ probe = "pending" /\ probe' = "installed"
  /\ \A u \in ProbeUnits : code[u] = Orig
  /\ UNCHANGED <<bytes, assets, calls, signal, generation, execs>>

ProbeToggle ==
  /\ probe = "installed"
  /\ \E opcode \in {Orig, Probed} :
       code' = [u \in Units |-> IF u \in ProbeUnits THEN opcode ELSE code[u]]
  /\ UNCHANGED <<view, assets, calls, signal, env, execs>>

\* The application may take SIGILL back only while no route needs it.
Foreign ==
  /\ sigill # "foreign" /\ \A i \in Plans : ~Active(i)
  /\ sigill' = "foreign"
  /\ UNCHANGED <<bytes, assets, calls, armed, env, execs>>

\* The module is unloaded and mapped again, with the same bytes and other
\* entries: only while nothing is installed, held or running in it.
Remap ==
  /\ generation < Len(Entries)
  /\ Held = {} /\ \A u \in Units : owner[u] = "none" /\ code[u] = Orig
  /\ \A e \in Executors : pc[e] = Out
  /\ generation' = generation + 1
  /\ UNCHANGED <<bytes, assets, calls, signal, probe, execs>>

-----------------------------------------------------------------------------
(* Executors.                                                              *)

Admitted(place) == place \notin Held

Goes(e, place) ==
  /\ Admitted(place)
  /\ pc' = [pc EXCEPT ![e] = place]
  /\ UNCHANGED <<bytes, assets, calls, signal, env, trap>>

\* Where an instruction before u may continue.
Onward(u) == Source(Entries[generation] \cup (Units \cap {u})) \cup {Out}

\* A call into the source from elsewhere.
Enter(e) ==
  /\ pc[e] = Out
  /\ \E u \in Entries[generation] : Goes(e, Src(u))

\* A core fetches the current bytes of u at a moment of its own.
Fetch(e, u) ==
  /\ view[e][u] # code[u]
  /\ view' = [view EXCEPT ![e][u] = code[u]]
  /\ UNCHANGED <<code, assets, calls, signal, env, execs>>

\* The instruction that e fetched runs: an original or probed one goes on,
\* a head jumps to generated code, any other displaced one faults.
Run(e) ==
  \E u \in Units :
    /\ pc[e] = Src(u) /\ ~trap[e]
    /\ LET v == view[e][u]
       IN  \/ v \in {Orig, Probed} /\ \E place \in Onward(u + 1) : Goes(e, place)
           \/ /\ v \notin {Orig, Probed}
              /\ Steps[v[1]][v[2]].head = u
              /\ Goes(e, v)
           \/ /\ v \notin {Orig, Probed}
              /\ Steps[v[1]][v[2]].head # u
              /\ trap' = [trap EXCEPT ![e] = TRUE]
              /\ UNCHANGED <<bytes, assets, calls, signal, env, pc>>

\* The SIGILL handler: the active batch that lists the faulting instruction
\* names its generated entry; otherwise the default action kills the thread.
Fault(e) ==
  \E u \in Units :
    /\ pc[e] = Src(u) /\ trap[e]
    /\ trap' = [trap EXCEPT ![e] = FALSE]
    /\ LET hits == {i \in Plans : Active(i) /\ u \in Routed(i, made[i])}
       IN  IF hits # {} /\ sigill = "router"
           THEN \E i \in hits : /\ Admitted(Final(i, u))
                                /\ pc' = [pc EXCEPT ![e] = Final(i, u)]
           ELSE pc' = [pc EXCEPT ![e] = Lost]
    /\ UNCHANGED <<bytes, assets, calls, signal, env>>

\* Generated code ends behind the instructions it replaced, or branches.
Leave(e) ==
  \E i \in Plans : \E k \in DOMAIN Steps[i] :
    /\ pc[e] = <<i, k>>
    /\ \E place \in Onward(Max(Steps[i][k].edits) + 1) : Goes(e, place)

-----------------------------------------------------------------------------
Publication(p) ==
  \/ \E S \in Scopes : AcquireLease(p, S)
  \/ ReleaseLease(p)
  \/ \E i \in Plans, g \in Generations : Publish(p, i, g)
  \/ Reserve(p) \/ Stage(p) \/ Prepare(p) \/ Route(p) \/ Commit(p) \/ Refused(p)
  \/ Write(p) \/ Complete(p) \/ KeepGated(p)
  \/ \E i \in Plans : Retire(p, i)
  \/ Restore(p) \/ Retired(p) \/ RetireFails(p)

Execution(e) ==
  \/ Enter(e) \/ Run(e) \/ Fault(e) \/ Leave(e)
  \/ \E u \in Units : Fetch(e, u)

Next ==
  \/ \E p \in Publishers : Publication(p)
  \/ \E i \in Plans : DropHandle(i)
  \/ ProbeReserve \/ ProbeRefused \/ ProbeCommit \/ ProbeToggle
  \/ Foreign \/ Remap
  \/ \E e \in Executors : Execution(e)

Spec == Init /\ [][Next]_vars

-----------------------------------------------------------------------------
(* Properties.                                                             *)

Bytes  == {Orig, Probed} \cup UNION {Image(i) : i \in Plans}
Places == Source(Units) \cup UNION {Image(i) : i \in Plans}
Stages == PreWrite \cup {"idle", "write", "sync", "restore", "resync"}
PlanOrNone == Plans \cup {"none"}

\* Every variable keeps its type.
TypeOK ==
  /\ code \in [Units -> Bytes] /\ view \in [Executors -> [Units -> Bytes]]
  /\ owner \in [Units -> PlanOrNone \cup {"probe"}]
  /\ image \in [Plans -> {"none", "staged", "live"}]
  /\ batch \in [Plans -> {"off", "staged", "committed"}]
  /\ made \in [Plans -> 0 .. Len(Entries)]
  /\ handle \in [Plans -> {"absent", "active", "dropped", "retired"}]
  /\ receipts \subseteq Plans
  /\ lease \in [Publishers -> [held: Scopes \cup {{}}, identity: 0 .. Len(Entries),
                               poisoned: BOOLEAN]]
  /\ pub \in [Publishers -> [step: Stages, plan: PlanOrNone,
                             gen: 0 .. Len(Entries), k: Nat]]
  /\ sigill \in {"default", "foreign", "router"} /\ armed \in BOOLEAN
  /\ probe \in {"none", "pending", "installed"} /\ generation \in Generations
  /\ pc \in [Executors -> Places \cup {Out, Lost}] /\ trap \in [Executors -> BOOLEAN]

\* No thread is ever killed by a marker nobody routes, and none runs into the
\* middle of an edit: every instruction that can be reached while bytes are
\* installed is a head, a routed marker or untouched.
NoLostThread == \A e \in Executors : pc[e] # Lost

\* A receipt means visibility: once the lease of a published plan is gone,
\* every thread fetches exactly the final bytes, for as long as the plan is
\* not retired, whatever its handle, its caller and the probe do.
ReceiptIsVisible ==
  \A i \in receipts :
    Source(Reads(i)) \cap Held = {} =>
      \A u \in Touched(i) : /\ code[u] = Final(i, u)
                            /\ \A e \in Executors : view[e][u] = Final(i, u)

\* Rewritten bytes stay owned and reachable code stays there: as long as one
\* byte of a plan is in the source, the registry holds all of it for the
\* plan, its image is live and its routes are active.  This outlives dropped
\* handles and failures.
OwnedWhileWritten ==
  \A i \in Plans : (\E u \in Units : code[u] \in Image(i)) =>
    /\ \A k \in DOMAIN Locks[i] : \A u \in Locks[i][k] : owner[u] = i
    /\ image[i] = "live"
    /\ Routed(i, made[i]) # {} => batch[i] = "committed"

\* A refusal before the first store leaves nothing behind: no bytes, no
\* ownership, no mapping and no active route.
RefusalLeavesNothing ==
  \A i \in Plans : handle[i] = "absent" /\ ~Busy(i) =>
    /\ \A u \in Units : owner[u] # i /\ code[u] \notin Image(i)
    /\ image[i] = "none" /\ batch[i] = "off"

\* Bytes of a plan made for one incarnation of the mapping are never in
\* another, where they would miss entries.
CurrentIdentity ==
  \A u \in Units : \A i \in Plans : code[u] \in Image(i) => made[i] = generation

\* What is owned, written and mapped agree, whatever was refused or failed.
OwnershipInv ==
  TypeOK /\ OwnedWhileWritten /\ RefusalLeavesNothing /\ CurrentIdentity

\* Retirement is complete: no byte, stale fetch or route of the plan is left,
\* no ownership (but for a repeated publication, which its own mapping will
\* refuse) and no thread is inside its generated code, which could only
\* return into bytes that have another owner by then.
RetiredIsGone ==
  \A i \in Plans : handle[i] = "retired" =>
    /\ \A u \in Units : code[u] \notin Image(i) /\ (owner[u] = i => Busy(i))
    /\ \A e \in Executors : \A u \in Units : view[e][u] \notin Image(i)
    /\ \A e \in Executors : pc[e] \notin Image(i)
    /\ batch[i] = "off"

\* A failure after the first store shuts the gate for good: the lease stays
\* poisoned, and no later call of its publisher writes behind it or clears it.
PoisonIsFinal ==
  [][\A p \in Publishers :
       lease[p].poisoned /\ pub[p] = NoCall =>
         /\ lease'[p] = lease[p] /\ pub'[p] = NoCall
         /\ \A u \in Units : Src(u) \in lease[p].held /\ owner[u] \in Plans
                              => code'[u] = code[u]]_vars

-----------------------------------------------------------------------------
\* Threads see hooks come and go atomically (Interception): a plan is hooked
\* from its receipt to its retirement.
Hooks == INSTANCE Interception WITH
  hooked <- receipts, at <- pc, Target <- [i \in Plans |-> [u \in Touched(i) |-> Final(i, u)]]

RunsHooksAtomically == Hooks!Spec

\* Installations are clients of the registry like all others: a plan and the
\* probe claim the bytes they own.
claims == [c \in Plans \cup {"probe"} |-> {u \in Units : owner[u] = c}]

Registry == INSTANCE ByteClaims WITH
  Addresses <- Units, Claimants <- Plans \cup {"probe"}, Contents <- Bytes,
  Original <- Orig, mem <- code

\* A byte has one owner at a time, is stored only under its owner's claim, and
\* is original again before it is given back (ByteClaims): refused and retired
\* publications and cancelled probes leave nothing behind for the next owner.
BytesHaveOneOwner == Registry!Spec
=============================================================================
