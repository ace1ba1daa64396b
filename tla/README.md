# Verification of liteinst's live patching

`liteinst` hooks machine code in a running program: it rewrites instructions in
place while threads execute them. This project models the parts of the library in
which that can go wrong, together with the ledger that decides which pages may run,
the AArch64 sibling of the patcher, and the driver of the project's own evaluation
campaign. TLC checks the models; TLAPS proves the most important results for every
size of the instance. Paths below are relative to the repository (`src/` is its
root, so the library's own sources are `src/src/*.rs`).

## 1. Inventory

| Component | State | Operations | Talks to |
|---|---|---|---|
| Guarded publication (`patcher.rs`) | code bytes of one window, the writer's loaded words | `apply`, `revert`, `apply_quiescent`, `revert_quiescent`, `StalenessBudget::wait` | registry lease, running threads |
| Patch-site registry (`trap.rs`) | list of `TrapSite`s (range, guard mask, displaced interval, original and committed bytes, phase), list of pending reservations | `register_jump`, `reserve`, `commit`, drop, `begin_jump`, `finish_jump`, `handle_trap` | every patching client, SIGTRAP |
| SIGTRAP router (`trap.rs`) | install mode, install result, previous disposition | `prepare`, `prepare_with_signal_runtime`, `verify_synchronized_router`, chaining | kernel signal state |
| Rapid probes (`rapid.rs`) | one opcode byte, a permanent reservation | `install`, `set_enabled` | registry |
| Synchronized batches (`patcher/synchronized.rs`, `sync_core.rs`) | phase, mutated, synchronizations, failure, leases | `prepare`, `advance`, `receipt`, drop | registry leases, membarrier |
| Quiescent installation (`quiescent.rs`, `contracts.rs`), bundles (`bundle.rs`) | lease (identity, ranges, poisoned), reservation, routes, installed bytes, retired | `publish`, `publish_with`, `retire`, drop | registry, entry router, membarrier, the embedding runtime |
| Entry router (`entry_router.rs`) | list of route batches (active flag), installed SIGILL action | `prepare`, `stage`, `commit`, `deactivate`, drop, handler | quiescent installation, SIGILL |
| Installed hooks, arena, PC maps (`trampoline.rs`) | hook state, arena cursor (shared by forked processes), PC-map list, published flag | `install_in_arena`, `allocate`, `bind`, `activate`, `deactivate`, `publish_program_counter_mappings`, `translate_program_counter` | guarded publication, fork |
| Admission ledger (`crates/liteinst-admission/src/model.rs`) | per page: state, snapshot, bundle; poisoned lock | `register`, `admit`, `invalidate` | scanner, planner and publisher callbacks |
| AArch64 patching (`crates/liteinst-aarch64-patch`) | one word, `SiteState`, `PendingWord`, island custody, trap route | `flip`, `complete_sync`, `rollback`, drop | `StopControl` of the embedding runtime, executors |
| A2 campaign driver (`tools/a2-campaign/driver.py`) | phase, `TERMINATING`, leftover records, receipts on disk | `command`, `worker`, `inspect_leftovers`, `audit_sweep`, `run` | an external runner, its workers, control groups, signals |
| Controls and clocks (`controls.rs`, `backedge_clock.rs`) | enable flags, clock page, active owner | `set_enabled`, dispatch, `acquire`, `begin_call`, `refill_after_resume` | generated code |
| Composition (`composition.rs`) | overlay of bytes, allocations | `append` | planners, bundles |
| In-process gate, launch checkpoints, block translator, artifacts, planner, scanner and emitter, evaluation scripts | see `PROJECT.json` and section 6 | | |

### How the components interact

* **Shared memory.** Threads of the instrumented program fetch the bytes that
  every publisher stores. Nothing synchronises the two except what a protocol
  arranges: guard bytes and waits (`patcher.rs`), instruction barriers
  (`synchronized.rs`), or an admission gate that keeps threads out
  (`quiescent.rs`, `bundle.rs`).
* **Registry.** Live jump patches, rapid probes and installations claim bytes in
  one process-wide registry (`trap.rs`). Its mutex covers registration,
  reservation and `begin_jump`. The stores, and `finish_jump` with its two, run
  outside of it, under the phase of the site, which the signal handler reads
  without a lock.
* **Callbacks.** The kernel calls `handle_trap` for guards and the SIGILL handler
  of `entry_router.rs` for displaced heads, in any thread and at any
  instruction. A host may install the SIGTRAP handler through callbacks of its
  own.
* **Fork.** A child keeps the arenas and their cursors, which are shared mappings,
  and copies everything else, but not the threads that were using it
  (`trampoline.rs`).
* **Leases.** A `QuiescenceLease` is granted by the runtime that owns the gate.
  The library checks its identity and ranges and reports through its poison flag
  whether the gate may open again.

### What makes it hard

* A processor may hold fetched bytes while memory changes, so the *order* of
  three stores and the *length* of two waits decide whether a thread runs an
  instruction put together from two versions.
* A jump patch stores eight bytes of which five are its own. The other three can
  belong to a neighbour that is being patched, planned or rebound.
* Publication has a point of no return. Before it, a refusal must leave nothing;
  after it, ownership, code and routes must outlive the handle, and the gate must
  stay shut.
* A site, a page or a campaign has an answer for its caller ("flipped",
  "admitted", "complete") that must be true of processors, memory and processes
  it cannot see, after failures of which it only knows that they *may* have left
  something behind.
* Signal handlers interleave everywhere, wait for writers, and delegate what is
  not theirs to a disposition that somebody else may be changing.

### What makes each component correct

| Component | Properties |
|---|---|
| Guarded publication | no torn instruction; exclusive publications that switch the whole image or nothing; trapped threads and writers always get on |
| Patch-site registry | no byte is displaced twice; overlapping windows have one writer; a store changes nobody else's bytes; a neighbour never causes a refusal |
| SIGTRAP router | no guard is met before there is a handler; foreign traps go to the action that was replaced; custom handlers are refused, not replaced; preparation returns |
| Synchronized batches | no torn instruction across failures; leases of changed members are kept until completion; a truthful receipt |
| Quiescent installation, bundles, entry router | no thread is lost in a displaced instruction; a receipt implies visibility; written bytes stay owned; refusals leave nothing; retirement leaves nothing; poison is final |
| Rapid probes | their bytes are never somebody else's |
| Installed hooks | between toggles the hook's state agrees with the bytes, also after failures and in a child |
| Arena and PC maps | no slot is written twice, by whichever process; nobody runs another hook's code; a thread in a hook can be translated |
| Admission ledger | what was scanned is what the ledger holds; bundles are disjoint; what may be half written never opens |
| AArch64 patching | every branch a processor may still fetch leads to a mapped island, every `BRK` to a handler; a settled state is true of all executors; foreign words are kept |
| A2 campaign driver | a receipt of success is true; a failed campaign leaves no process it knows of; nobody else's processes are killed |
| Controls and clocks (not modelled) | one owner per clock page; an owner that was lost keeps the page |
| Composition (not modelled) | appending a plan that is refused changes nothing; the final bytes are the overlay |

The hazards, each at the line where it bites and with the properties that cover
it, are listed in `PROJECT.json`.

## 2. Modules

| Module | Models | Role |
|---|---|---|
| `WordPatch` | `patcher.rs`: `publish_bound`, `publish_cross_line`, `publish_quiescent`, `StalenessBudget::wait`; `trap.rs`: `begin`, `finish_jump`, `handle_trap` | one site, at the granularity of single loads and stores |
| `CodeVersion` | what `apply` and `revert` promise | abstract specification of `WordPatch` |
| `WordPatch_proofs` | | theorems about `WordPatch` |
| `TrapRegistry` | `trap.rs`: registration, reservations, composition; `patcher.rs`: plan, bind, publish; `rapid.rs`; reservations of `quiescent.rs` | many sites that share bytes |
| `ByteClaims` | what the registry promises to whoever patches | abstract specification of `TrapRegistry` and of `QuiescentInstall` |
| `TrapRegistry_proofs` | | theorems about `TrapRegistry` and its refinement of `ByteClaims` |
| `SyncBatch` | `patcher/synchronized.rs`, `sync_core.rs` | several sites, published together under barriers |
| `BatchSwitch` | what `SynchronizedBatch` promises for all its members together | abstract specification of `SyncBatch` |
| `SyncBatch_proofs` | | theorems about `SyncBatch` and its refinement of `BatchSwitch` |
| `QuiescentInstall` | `quiescent.rs`, `bundle.rs`, `contracts.rs` (lease), `entry_router.rs`, and how they share the registry with `rapid.rs` | installation behind a gate, with the threads that run into it |
| `Interception` | what an installation promises to the program | abstract specification of `QuiescentInstall` |
| `QuiescentInstall_proofs` | | theorems about `QuiescentInstall` and its refinements of `Interception` and `ByteClaims` |
| `SignalRouter` | `trap.rs`: `prepare`, `ensure_installed`, `install_handler`, `chain_previous` | installation of the SIGTRAP router |
| `SignalRouter_proofs` | | theorems about `SignalRouter` |
| `HookArena` | `trampoline.rs`: `reserve_arena_slot`, `allocate`, `bind`, `discard`, `activate_with`, `deactivate_with`, `publish_program_counter_mappings`, `register_program_counter_mappings`; fork | hooks and their trampolines in related processes |
| `HookArena_proofs` | | theorems about `HookArena` |
| `SiteFlip` | `flip.rs` and `site.rs` of the AArch64 crate | one word, its islands and trap route |
| `SiteFlip_proofs` | | theorems about `SiteFlip` |
| `AdmissionGate` | `model.rs` of the admission crate | the page ledger |
| `Campaign` | `driver.py` of the A2 campaign | the driver with the runner, its workers and control groups; its names carry the module's, because its theorems stand next to those of `AdmissionGate` |
| `Receipts_proofs` | | theorems about `AdmissionGate` and `Campaign`, the two components whose product is a receipt |
| `MC*` | | instances for TLC, one per module; a second `.cfg` for a finding |

The models meet at the registry. `TrapRegistry` takes the stores of a split
window as one step, which `WordPatch` shows to be sound by implementing
`CodeVersion`. `SyncBatch` takes disjoint members, which `TrapRegistry` checks to
be the case for split windows. `QuiescentInstall` keeps of the registry only who
owns which bytes, and `TrapRegistry` keeps of an installation only that it writes and
restores its range; both implement `ByteClaims`, the promise on which they meet.
`WordPatch`, `SyncBatch` and `TrapRegistry` assume that a guard finds its handler,
the subject of `SignalRouter`. `HookArena` takes a publication as one step that
may fail, again what `WordPatch` shows. `SiteFlip`, `AdmissionGate` and `Campaign`
share no state with the others in the code and stand alone.

### WordPatch

`front` and `back` are the halves of the window on either side of the cache-line
boundary. Bytes 5..7 of the window are never changed by its own publication, so a
half is abstracted to the version of its bytes, or `"guard"`. A writer has a
program counter `wpc` with one step per atomic access of the code, the words it
loaded (`curF`, `curB`) and the clock of its wait. An executor fetches the halves
separately, may flush them, and executes what `Decode` makes of them, an old
instruction, the new jump, an unchanged instruction behind the jump, a
breakpoint, or a torn instruction. `Tick` advances the clock that `rdtsc` reads;
a fetched byte lives for at most `MaxStale` ticks, which is the promise a client
makes with its `StalenessBudget`.

### TrapRegistry

Memory is an array of bytes, each original or owned by the client that wrote it.
A handle plans (captures bytes), binds (`register_inner`), begins, compares,
stores, records and releases; each section under `REGISTRY_LOCK` is one step, and
`finish_jump`, which runs without the lock, is two (`Record`, `Release`). Losing the
lock, and every other `Contended` refusal, changes nothing and is a stuttering
step. Rapid probes and quiescent installations reserve, look at the code, and
write or give up.

### SyncBatch

Members are the bound patches. A batch acquires leases in address order, compares
all members, and then alternates store loops and barriers. `Fail` stands for every
verification or barrier that may fail at an advance, `Drop` for the destructor
between two calls. A barrier discards what executors have fetched; nothing else
does.

`BatchSwitch` knows nothing of words, guards and barriers. A batch takes members,
opens a change that makes both versions of all of them runnable at once, and closes
it when only the wanted version is left; it can let go as long as it has not
opened one. The refinement mapping takes the lease for the holder, and the two
versions for what a member shows from the moment `mutated` is set until `Complete`.

### QuiescentInstall

A plan is a sequence of steps; each turns one instruction head into a jump and
the other instructions it displaces into markers that raise SIGILL. `Locks` are
the reserved byte ranges, `Entries[g]` the legal entries of incarnation `g` of the
mapping: a displaced instruction that is an entry gets a route. A publisher goes
through the stages of `publish_inner` and `PlannedBundle::publish_with` in
order — reserve each lock, stage the image, prepare the SIGILL router, stage
routes, commit, write step by step, synchronise — and can be refused at every
stage before the commit and fail at the last one. `lease` holds identity, ranges
and poison. Executors fetch instructions at their own moments (`view`), run them,
enter generated code, fault, and are routed or killed. The application may take
SIGILL for itself while no route is active, and the source may be unmapped and
mapped again (`Remap`), which makes plans stale.

The gate is external to the library: a lease is granted when no thread is inside
the ranges, nobody enters while it is held, and a poisoned lease is never
released. This is the contract of `QuiescenceLease::new`. All images of a bundle
are staged as one. `FailureStage::RolledBack` and `rollback_verified` have no
caller in the library and do not occur.

### SignalRouter

`mode`, `result` and `previous` are the three once-cells of `trap.rs`. A
preparation runs step by step, with the two `sigaction` calls of the standalone
installer and the callbacks of a host as separate steps; the kernel delivers
signals between any of them. The host is single-threaded during its preparation
and blocks the signal, as its contract says; that it refuses custom handlers is
*not* assumed, because the code checks it. `AppRaces` says whether the
application changes the disposition while an installation runs.

### HookArena

`cursor` and `code` are the shared arena; `hook`, `text` and `list` are one copy
per process. A thread's call is a record with a program counter, its hook, and the
value of the cursor or of the list head that it read and will compare. Every
access to a shared word is a step: reading the cursor and the compare-and-exchange,
the emission into the slot, the swap of the published flag, reading the head and
the compare-and-exchange, the store of `TRANSITIONING`, the publication, the store
of the final state. `Enter` and `Leave` are threads that run into a redirected
site. `Fork` copies a process with its calling thread only; a hook that another
thread was binding does not exist in the child, but its slot stays granted. A
"weak" compare-and-exchange that fails spuriously repeats the attempt, which is a
stuttering step here. Fork during a toggle is excluded, as `A4-SYNCHRONIZED.md:38`
does for every transition. A site has one handle: the planner refuses a jump where
it finds one.

### SiteFlip

`word` is the memory, `cached[e]` the set of words that executor `e` may still
fetch: it grows with every store and shrinks to the current word only when the
executor synchronises its context *after* cache maintenance. An operation goes
through the stages of `flip.rs` — acquire the stop, revalidate and store, maintain
the caches, resume and settle — and may fail at each. The stop control is external:
its `resume` acknowledges for some executors, loses the answer of others that run
all the same, and keeps the rest parked. Islands are mapped until their handle is
dropped; the site takes one into custody at the store, gives it up when it takes
another, and leaks it when it is dropped before it is unpatched. The handler of
`BRK` may be removed once no processor can fetch a `BRK`, the contract of
`TrapRoute::arm`. `OtherWrites` breaks the contract of `Site::from_aliases` on
purpose, because `flip.rs` revalidates against it.

### AdmissionGate

Each method runs under the lock of the ledger and is one step; its outcomes are
separate actions (`Published`, `PublishedUncertain`, `PublishedNothing`,
`PublisherPanics`, ...). Addresses are counted in pages. A snapshot says which
pages it has bytes of, and what its owner asserts of the bytes around them; the
scan succeeds when the boundary of the page is covered on both sides and nothing
else is open (`decodes` stands for the instruction scan). `Dependents` is the
least closed set that `dependent_closure` computes by iteration. `torn` records,
for the properties only, what a failed publication may have written.

### Campaign

`pc` is the statement the driver is at. The runner is external: it starts workers as
often as it likes, crashes, or abandons them. A control group is known by its
*generation*, the device and inode of the code, so that a stranger may take over a
pathname between any two steps of `inspect_leftovers`. Signals arrive at every call
(`Interruptible`); the first one unwinds, later ones wait for the cleanup.
`stop_process` is followed signal by signal and wait by wait (`SendTerm`,
`AwaitTerm`, `AwaitKill`): each may fail, which it remembers in `faults`, and the
last wait may expire. The driver then goes on to its cleanup with a runner that may
still be there and start workers. `report` is the receipt of `command`: incomplete,
an exit code, stopped, or stopped with errors. `freeze`, `verify` and the checks of
the box are checks that may fail.

## 3. Runs

All runs are exhaustive. Symmetry is used for identical handles, publishers,
threads, executors, islands and workers, never in a run with a liveness property.

| Run | Instance | States | Shows |
|---|---|---|---|
| `WordPatch` | 2 writers, 1 executor, boundary after byte 3, one displaced 5-byte instruction, budget 2, staleness 1, 2 publications each | 69 k | no torn instruction, exclusion, all-or-nothing, the refinement of `CodeVersion`; trapped threads return |
| `WordPatchInterior` | two displaced instructions of 2 and 4 bytes | violated | a thread between the two resumes inside the jump (finding 1) |
| `TrapRegistry` | windows of 3 bytes with jumps of 2 on sites 0, 2, 4, 6, 9, a boundary at 11, a rapid probe at 4, an installation at 3, 3 handles | 1.12 M | claims stay disjoint, whoever changes a byte is the only one who holds it, no neighbour makes a publication fail |
| `SyncBatch` | 2 members, 1 split, 2 batches, 1 executor | 449 k | torn-freedom and settled releases under failures and drops, the refinement of `BatchSwitch`; a trapped thread is released unless its batch failed or was dropped |
| `QuiescentInstall` | 5 instructions, 3 plans, 2 generations, 4 lease scopes, 2 publishers, 1 executor, 1 probe | 368 k | all safety properties of installation and the refinement of `Interception` |
| `SignalRouter` | 3 threads, either mode, every prior disposition | 75 k | no guard is lost, foreign traps reach the replaced action, every preparation returns |
| `SignalRouterRace` | 2 threads, the application races | violated | a custom handler is replaced (finding 2) |
| `HookArena` | 2 processes, 2 threads each, 2 hooks of which 1 explicit, 2 slots | 3.06 M | slots are written once, nobody runs another hook's code, states agree with bytes, threads in hooks can be translated |
| `HookArenaExplicit` | the same with one explicit hook | violated | a publication returns before the mappings are listed (finding 3) |
| `SiteFlip` | 3 executors, 3 islands, a foreign writer | 42 k | branches and `BRK`s lead somewhere, settled states are true, foreign words are kept |
| `AdmissionGate` | 3 neighbouring pages, 2 generations, 2 contents of the middle page | 44 k | scans stay true while pages are admitted, bundles are disjoint, torn pages stay shut |
| `Campaign` | 2 inputs, 4 workers | 2.00 M | the verdict is true, a runner that was not stopped is on record, known processes are drained, strangers are left alone |

The invariants that end in `Inv` gather the type invariant of a module and its
small bookkeeping facts: `PatchInv` (one writer), `RegistryInv` (overlapping
writers exclude each other, shared windows belong to word sites), `LeaseInv`
(changed members stay leased, receipts are truthful), `OwnershipInv` (written bytes
are owned, refusals leave nothing, identities are current), `RouterInv` (one mode,
nothing fails closed), `HookInv` (state and bytes agree), `SiteInv` (settled states
are true), `GateInv` (boundary claims agree, pages are published once), `BundleInv`
(disjoint, torn pages gated), `VerdictInv` (inputs once, success is true).

### Why these bounds are enough

* **WordPatch.** The site has one lease, so a third writer can only be refused
  like the second. Two publications per writer give apply, revert, apply again
  and every refused combination. `Budget` 2 and `MaxStale` 1 are the smallest
  values for which a wait that is one tick short goes wrong; the theorems cover
  all others. `MaxOps` bounds the calls only. The theorems cover every boundary.
* **TrapRegistry.** Windows of 3 bytes with jumps of 2 keep the geometry of 8 and
  5: a window meets its upper neighbour but never a third one's jump
  (`WindowLen < 2 * JumpLen`). Sites 0, 2, 4 are the shortest
  chain with a site that has neighbours on both sides; 6 lies inside what 4
  displaces, and 9 is cut by a boundary. Three handles choose any three of them.
  The installation covers the last byte of site 2 and the first of site 4: a plan
  made for 2 while it is there is stale when it is bound afterwards, and
  `begin_jump` may then fail to recognise a tail (`BeginFails`). The probe takes
  the jump of site 4, so that it competes with a handle and a neighbour at once.
* **SyncBatch.** Two members give a batch with both kinds of member. Each batch
  takes any of them, so that the two may want the same, overlap or be disjoint. A
  third member adds a second of one kind, which goes through every phase with the
  first; four million states with three members showed nothing more.
* **QuiescentInstall.** Plan A has three steps, one of which writes over bytes of
  an earlier one unchanged, and two locks; B conflicts with everything, C with B
  only. Routes exist in both generations. Two publishers hold disjoint leases at
  the same time, or one lease that serves two plans.
* **SignalRouter.** Three threads are the one that installs, one that waits for
  it, and one that runs while they do.

* **HookArena.** Two slots and two hooks fill the arena, and a failed binding makes
  one of them ask in vain. Two threads contend for every word; the second process
  is a child, and every race between relatives is one between two of them.
  The theorems cover all other sizes.
* **SiteFlip.** Three executors make one that acknowledged, one that runs without,
  and one that is parked. Three islands are one in custody, one that replaces it,
  and one that a refusal drops.
* **AdmissionGate.** The scan reaches into the neighbours only, so three pages are
  one with both of them. The theorems cover the rest.
* **Campaign.** Two inputs and the calibrations need three workers; the fourth
  repeats any one of them.

Except for the liveness properties, which no theorem covers, what the runs check is
proved in section 4 for all sizes; the instances then show that the properties are
not vacuous and that each of them notices a plausible mistake in the code.

Deadlock checking is off where the system may stop for good: a lost batch leaves
its members locked (documented by `Drop`), a failed installation leaves the gate
shut, a process may be killed by a signal, an arena is full, a dropped site does
nothing, a ledger whose callback panicked answers no call, a campaign ends.

### Fairness

* `WordPatch!FairSpec`: weak fairness of time, of each started publication, of
  fetching and executing, and of the handler's return. All are loops that the
  scheduler runs on. Nobody has to start a publication or enter the site.
* `SyncBatch!FairSpec`: weak fairness of the steps of a batch. The protocol makes
  its caller responsible for advancing it; failures and drops are not fair, and
  the property excludes them.
* `SignalRouter!FairSpec`: strong fairness of each preparation's next step, because
  a signal may interrupt it between any two steps but not for ever; weak fairness
  of delivery and delegation.

The other modules state safety only. Their operations are calls that return by
themselves or repeat a compare-and-exchange, which is lock-free: a single caller
can lose for ever, and the code promises no more.

## 4. Proofs

### WordPatch

`WordPatch_proofs` proves, for every number of writers and executors, every
boundary, every set of instruction heads and every budget:

| Theorem | Statement |
|---|---|
| `Invariant` | `Spec => []IInv` |
| `WellFormed` | `Spec => []PatchInv`: the type invariant, which includes that no wait passes the budget, and one writer |
| `WholeImage` | `Spec => []AllOrNothing` |
| `NeverTorn` | `SingleHead => (Spec => []NoTornExecution)` |
| `Refinement` | `SingleHead => (Spec => RunsOneVersion)` |

Assumptions: `GeometryAssumption` (the boundary is inside the window, one head is
at its start), `BudgetAssumption` (`MaxStale < Budget`: the budget was calibrated
for the machine) and `MaxOpsAssumption`. `SingleHead` says that no displaced
instruction starts inside the jump; it is a hypothesis of the last two theorems
because the code does not guarantee it (finding 1).

None of the three properties is inductive. The invariant is
`IInv == TypeOK /\ Ownership /\ MemoryInv /\ FlightInv`:

* `Ownership`: a writer that is not idle has the site in `WRITING`, and is alone.
  Without it, a second writer could change memory between the comparison and the
  guard.
* `MemoryInv`: what the two halves hold at each program counter of the writer,
  in particular that a guard implies a waiting writer.
* `FlightInv`: what an executor may still hold. Outside a publication: current
  bytes or a guard. During the first wait: old front bytes, but then *their age is
  at least the time waited*. So once `waited` reaches `Budget`, which exceeds
  `MaxStale`, which bounds every age, no old front byte is in flight and the back
  word may change; the second wait repeats the argument for old back bytes. This
  clause is the reason why the waits work and why one tick less does not.

### HookArena

`HookArena_proofs` proves, for every number of processes, threads, hooks and slots:

| Theorem | Statement |
|---|---|
| `Invariant` | `Spec => []IInv` |
| `HandlesAgree` | `Spec => []HookInv`: the type invariant, and state and bytes agree between toggles |
| `OwnCode` | `Spec => []RunsOwnCode` |
| `Translated` | `Spec => []InsideIsTranslated` |
| `WrittenOnce` | `Spec => SlotWrittenOnce`, an action property |

The only assumption is `HookArenaAssumption`, which gives the constants their
types. The invariant adds to `TypeOK` and `StateIsText`:

* `SlotInv`: a slot granted to a call that has not emitted yet is below the cursor,
  empty, and granted to no other call of any process; what is above the cursor is
  empty. The compare-and-exchange keeps it: the slot granted is the one at the
  cursor. It is what makes `SlotWrittenOnce` true.
* `FrameInv`: what the program counter of a call says of its hook's state and bytes.
* `AloneInv`: a hook that is being installed belongs to one call, and at most one
  thread toggles a hook, while others may publish its program counters.
* `CodeInv`: a hook that exists owns the code of its slot, in the child as well.
* `InsideInv` and `ListInv`: threads are inside existing hooks, and an automatic
  hook comes into existence after it is listed. The second needs that its published
  flag is clear until its only publisher sets it, the very fact that fails for
  explicit hooks (finding 3).

A step of a thread about a hook changes only that call and that handle. `FrameKept`,
`AloneKept`, `InsideKept`, `ListKept`, `CodeKept` and `TextKept` say once what
remains to be shown then; every action of a thread is proved through them.

### AdmissionGate

`Receipts_proofs` proves, for every set of pages, snapshots and dependencies:

| Theorem | Statement |
|---|---|
| `LedgerInvariant` | `Spec => []LedgerInv` |
| `WellFormed` | `Spec => []GateInv` |
| `Current` | `Spec => []AdmittedIsCurrent` |
| `Bundles` | `Spec => []BundleInv` |

Assumption: `AdmissionGateAssumption` (snapshots are well formed and end inside the
modelled pages). `AdmittedIsCurrent` speaks of neighbours a page's scan did not
see; the invariant derives it from `AdmittedFacts` (the scan covered both sides or
took the owner's word for it, and all it saw is in the bundle and still in the
ledger) and `BoundariesAgree` (nothing is registered where an owner's word denies
it). `AdmittedFacts` is kept by invalidation because the closure of a page contains
every page whose bundle meets it, by publication because bundles are disjoint.
That publications are counted by `ever` uses the library's theorems on cardinality.

### Campaign

`Receipts_proofs` also proves, for every set of inputs and workers, and however
often signals arrive and strangers take pathnames:

| Theorem | Statement |
|---|---|
| `CampaignInvariant` | `CampaignSpec => []CampaignInv` |
| `Verdict` | `CampaignSpec => []VerdictInv` |
| `Teardown` | `CampaignSpec => []TornDown` |
| `OwnOnly` | `CampaignSpec => OnlyOwnKilled`, an action property |

Assumption: `CampaignAssumption` (inputs are numbered from 1, the calibrations are 0,
and no worker is called `"stranger"` or `"none"`). None of the properties is
inductive: each is about the end of a run or a single kill, and holds because of
what the driver saw several statements before. `CampaignInv`, first checked with
TLC, has four parts:

* `WorkerInv`: a worker that holds processes is what the pathname of its control
  group leads to, and what has been launched, run and reported by then. So a pathname
  that a stranger has taken no longer hides a live worker.
* `SeedInv`: a launch receipt names a worker of that very input; and an inspection
  record other than an error says that the generation named holds no process, as
  soon as the driver has gone on to the next receipt. While it has not, a record is
  `"listed"`, or `"killed"` for the group the driver has open.
* `DriverInv`: the runner runs while the driver waits for it or stops it, and beyond
  that only with a receipt that was not completed or names an error; an open
  descriptor is that of the generation in the receipt under inspection, which is
  what `OwnOnly` rests on; and after an inspection no receipt is without record, if
  the runner succeeded: only the runner's own workers write receipts.
* `JudgedInv`: a runner that succeeded has no worker at work, and past the verdict
  every input has a worker that succeeded and no worker holds a process.

The first half of `Teardown` is in `DriverInv`: it has to be carried through every
way in which a signal or a wait of `stop_process` can fail. The second follows at
the last statement from `SeedInv`, because the cleanup has no receipt left to look
at; workers that a surviving runner starts meanwhile do not disturb it, because each
is a generation of its own and the launch receipts are exclusive. A receipt written
after the listing has no record, and is the case that the property, like the driver,
knows nothing of.

### SignalRouter

`SignalRouter_proofs` proves, for every set of threads, with or without an
application that races:

| Theorem | Statement |
|---|---|
| `Invariant` | `Spec => []IInv` |
| `RouterAgrees` | `Spec => []RouterInv` |
| `GuardsAreCaught` | `Spec => []NoGuardLost` |
| `Delegates` | `~AppRaces => (Spec => []DelegatesToReplaced)` |
| `CustomStays` | `~AppRaces => (Spec => CustomIsKept)`, an action property |

The only assumption gives `AppRaces` its type. That the application does not
change the disposition during an installation is a hypothesis of the last two
theorems, because without it they are false (finding 2); the first three need no
such thing. `CellInv` relates the three once-cells, the disposition in force and
the action that was replaced; `CallInv` says of each step of a preparation what has
been asked, installed and published by then, and that the one that installs is
alone; `AnswerInv` that a success was reported of what the cell holds; `TrapInv`
that the router is entered only between the installation and, for a host, outside
the moment before `publish`.

### SiteFlip

`SiteFlip_proofs` proves, for every set of executors and islands, with or without
a foreign writer:

| Theorem | Statement |
|---|---|
| `Invariant` | `Spec => []IInv` |
| `Settled` | `Spec => []SiteInv` |
| `Mapped` | `Spec => []BranchesLeadSomewhere` |
| `Owned` | `Spec => []BrkIsOwned` |
| `ForeignStays` | `Spec => ForeignWordKept`, an action property |

Assumption: islands are not one of the other words (`IslandAssumption`). The
invariant is per executor (`FetchInv`): the words it may still fetch include the
current one, are only `svc` at an unpatched site and only the flipped word at a
flipped one, and each island it may branch to or is in is published. The middle
states, where several words are possible, are held together by `OpInv`: a
publication that has stored has a pending word, and it is the one in memory.

### SyncBatch

`SyncBatch_proofs` proves, for every set of members, split or not, batches and
executors:

| Theorem | Statement |
|---|---|
| `Invariant` | `Spec => []IInv` |
| `Leases` | `Spec => []LeaseInv` |
| `NeverTorn` | `Spec => []NoTornExecution` |
| `Settled` | `Spec => []ReleasedIsSettled` |
| `Switches` | `Spec => CompletionSwitchesAll`, an action property about both halves of each member |
| `Refinement` | `Spec => SwitchesTogether` |

Assumptions: members are addresses, there is one at least (a thread runs
somewhere), and `"none"` is no batch. `MemberInv` says what both halves of a member
hold at each phase of the batch that leases it and on either side of the store
loop; `FlightInv` says what an executor may have fetched *since the last barrier*,
which plays the part that the age of a byte plays in `WordPatch`: between two
barriers a half takes at most two of the three values, and the two that would make
a torn instruction are never fetched in the same interval. `BatchInv` counts the
barriers, so that a completed batch passed three. That the store loop, in address
order, reaches every member uses well-founded induction on addresses.

The refinement goes action by action (`SeenOfAcquire` and so on). The first store
loop that has anything to store is `Open`: `Unmutated` says that until then every
member holds the expected image, in memory and in flight. The last barrier is
`Close`: by `LiveMember` every member's front is then the replacement. `LetGo` are
the refusals, failures and drops before the first store; all other stores, barriers
and failures are not seen (`Unseen`), because a member that is being changed shows
both versions anyhow. What a thread runs is a version its member shows, or the guard
of one that is being changed (`DecodesVisible`): for members that nobody is
changing this needs `FlightInv`, as their bytes may have been fetched long before.

### TrapRegistry

`TrapRegistry_proofs` proves, for every code, window and jump length, every set of
boundaries, jump sites, handles, probes and installations:

| Theorem | Statement |
|---|---|
| `Invariant` | `Spec => []IInv` |
| `Registered` | `Spec => []RegistryInv` |
| `Disjoint` | `Spec => []DisplacedDisjoint` |
| `Live` | `Spec => []CommittedIsLive` |
| `OwnStores` | `Spec => StoresOnlyOwnBytes`, an action property |
| `Blameless` | `Spec => MismatchIsOwn`, an action property |
| `OneOwner` | `Spec => BytesHaveOneOwner` |

Assumptions: `JumpLen < WindowLen < 2 * JumpLen` (5 and 8 in the code), windows lie
inside the code, a site displaces at least its jump, and names differ.
`WindowLen < 2 * JumpLen` is what the proofs turn on: a window meets its upper
neighbour's jump but no third one's, so the neighbours of a word site are on one
side each and whoever stores a window leaves what they own as it read it. The
invariant has two layers. `ControlInv` needs no bytes: what is registered, reserved
and locked, and that displaced intervals, clients and locked windows are pairwise
disjoint. `BytesInv` builds on it: what a word site holds as committed is live
(`LiveInv`), a plan's captured bytes are still there unless the byte has, or had,
another owner (`PlanInv`), and a publication's two images agree behind its jump
(`ImageInv`). `PristineInv` and `CleanInv` hold until an installation has written.

`OneOwner` is the refinement of `ByteClaims`, in which a byte has one claimant, only
its claimant changes it, and a claim that is given back leaves original bytes. A site
claims the instructions it displaces, a pending client its range. Binding and
reserving are `Take`: a rebinding may only enlarge its site's claim. Cancelling and
releasing are `GiveBack`; that the bytes are then original needs an invariant of its
own (`CoveredInv`): a byte that is not original is a registered site's own or under an
installation that is in place, because sites are never unregistered. A store of a
whole window is a `Write` of its site only, although the window is longer than what
the site has claimed (`StoreEffect`), and a probe's commit is not seen.

`OwnStores` says of every changed byte who changed it and that nobody else holds it:
a store of a handle whose site is the only one with a bound jump over the byte, where
no client has a claim (`JumpHolders`, `ClientHolders`), or a toggle, installation or
retirement of the only client that holds it, where no jump does. It needs
`StoreEffect`, that a store of the whole window changes bytes of the jump only, and
`HoldersApart`, that no byte has two holders.

The attempt to prove these properties corrected three of them. `DisplacedDisjoint`
counted a retired installation as a claim. `CommittedIsLive` is false of a plan
that was captured under an installation and bound after its retirement, because
registration does not look at the code; TLC shows it once the installation lies
where the present instance puts it, and the property now excepts the bytes that an
installation gave back. (The stale plan does no harm: its first publication is
refused.) `MismatchIsOwn` had allowed `begin_jump` not to recognise a neighbour;
that turned out to be impossible until an installation has written, and it now
says so.

### QuiescentInstall

`QuiescentInstall_proofs` proves, for every source, every set of plans with any
number of steps and locks, and all publishers, executors, lease scopes and
generations:

| Theorem | Statement |
|---|---|
| `Invariant` | `Spec => []IInv` |
| `Ownership` | `Spec => []OwnershipInv` |
| `NoneLost` | `Spec => []NoLostThread` |
| `Visible` | `Spec => []ReceiptIsVisible` |
| `Gone` | `Spec => []RetiredIsGone` |
| `PoisonStays` | `Spec => PoisonIsFinal`, an action property |
| `Refinement` | `Spec => RunsHooksAtomically` |
| `OneOwner` | `Spec => BytesHaveOneOwner` |

`PlanAssumption` is what the code checks of a plan before it can be published:
displaced instructions are an interval that starts at the head, and the store
covers it (`PatchPlan::checked`, `check_pun`); a step changes nothing that an
earlier step of its bundle displaces (`append_inner` compares each edit with the
bytes that are locked); a bundle locks whatever it stores; entries are
instructions. None of it speaks of other plans: that these stay apart is proved.

The inductive invariant, first checked with TLC, has one part per actor:

* `CallInv` of each publisher: its lease holds what its plan reads and is poisoned
  exactly from the first store on; and what it owns, has mapped, routed and written
  at each step. The bytes of a plan in the middle of its stores are those after its
  first `k` steps (`Shows`), in both directions.
* `InstalledInv` and `AbsentInv` of each plan. Past its last check a plan owns its
  locks, is of the current generation and has its routes, and *either its final
  bytes are there or it is broken*: a poisoned lease of its own call, or of one that
  failed, holds its source. Another call that is writing under the same lease does
  not break it, because owners have no instruction in common.
* `LeaseInv`: leases are disjoint, and one that holds something is of the current
  generation.
* `CodeInv`, `ViewInv`: bytes of a plan are where it edits, while it is installed;
  a fetched instruction is current, or one of a probe's two opcodes, or behind a
  shut gate.
* `ExecInv`: an executor is outside what a lease holds, in the generated code of
  installed plans only, and at a marker only if it is a legal entry.

The last one is why no thread is lost: a thread falls into a marker only from the
instruction before it, which the same step displaces (`MarkerFacts`), so that it
jumped; generated code ends behind its own step, where a marker would belong to
another plan and hence overlap (`LeaveKeeps`); and a branch goes to a legal entry,
which is routed (`FaultRouted`). For the refinement, a receipt is `Hook`, the end of
retirement is `Unhook`, a jump or a routed fault is `Intercepted`, every other move
of a thread is `Uninstrumented`, and all else stutters.

`OneOwner` is the same promise as `TrapRegistry`'s, from the side of the clients: locks
are taken one by one, each from nobody (`Takes`), every store and every restoration is
within what the plan's locks cover (`StoresOwned`), and a publication that is refused
half-way, a retirement and a cancelled probe give back original bytes (`GivesBack`).
`OwnedCode` is the reason: a byte that is not original is owned by an installed plan
that reads it, or by an installed probe. For the probe this needs `ProbedInv` next to
the inductive invariant, that its opcode and its ownership are only where its
instruction is. In both modules the promise is proved outright and not a property of a
run; TLC found it to hold on both instances before the proofs were begun.

### Only model-checked

Liveness (`TrappedThreadReturns`, `TrappedThreadReleased`, `PreparationReturns`),
which is out of the prover's reach together with `ENABLED`. Every other property of
a passing run is stated by a theorem.
What a recursive definition computes for all inputs, an induction over data, is out
of reach as well; no module here needs one.

## 5. Findings

1. **Windows of several instructions** (`WordPatchInterior`, `patcher.rs:355`).
   The planner accepts a window of several short instructions, rejects direct
   branches into it, and nothing moves a thread that was preempted after the
   first one. It resumes inside the jump. The guide says that a torn patch is
   impossible by construction; the README asks clients to exclude control-flow
   entries, which such a thread is not.
2. **Replaced SIGTRAP handlers** (`SignalRouterRace`, `trap.rs:657`–`675`). The
   standalone installer asks for the disposition and replaces it in two calls,
   and discards what the second one reports. A custom handler installed in between
   is replaced, although the README says it is refused without being replaced,
   and foreign traps go to the action seen by the first call. The host runtime
   interface does not have the gap, as long as the host is single-threaded then.

3. **Explicit publication of program counters** (`HookArenaExplicit`,
   `trampoline.rs:5206`). The published flag is set before the mappings are in the
   list. A second caller that meets the flag returns although a lookup would fail,
   and a child forked in between keeps the flag and never gets the mappings. The
   method's doc calls publication idempotent. Hooks that `bind` publishes are not
   concerned.

Smaller observations, without a run of their own:

* `Site::retain_island` (`site.rs:208`) drops the island of the previous flip when
  a site is flipped again; the comment at `flip.rs:305` and
  `RUNTIME-PATCHER-DESIGN.md:168` say that a rollback retains it. It is harmless,
  as `BranchesLeadSomewhere` shows: by then every executor has acknowledged the
  rollback.
* `TrapRoute` is a `Copy` token (`site.rs:72`), so it outlives the handler it
  vouches for unless the caller forgets it (`SiteFlip!Disarm`). The model takes the
  safety contract of `TrapRoute::arm` for granted: a route is offered only while its
  handler is installed. `BrkIsOwned` is about the rest, stale fetches of a `BRK`
  through failed rollbacks and lost acknowledgements.
* When `SIGKILL` cannot be sent or the last wait of `stop_process` expires
  (`driver.py:160`–`167`), the driver notes it in the runner's receipt and goes on:
  the cleanup and `failed-incomplete.json` do not wait for the runner.
* A signal inside the call that writes `complete.json` adds
  `failed-incomplete.json` to a campaign that is complete (`Campaign!Complete`).
* The driver finds control groups through launch receipts; a worker that was
  abandoned before it wrote one, or writes it after the cleanup has listed them, is
  missed. So are those that a runner which survived `stop_process` starts later.
  `TornDown` is stated for the groups it can know of.

## 6. Not modelled, and why

* **x86 encoding and decoding**: scanner, emitter, planner, tactics, search, block
  translator. Sequential functions of bytes, decided by instruction tables; their
  result, the heads and ranges of a plan, is a constant of the models. They are
  most of the lines of the library; transcribing tables into TLA+ would check the
  transcription against itself.
* **Address arithmetic, aliases and permissions**: preconditions checked once,
  without effect on the order of events. They appear as refusals.
* **Formats**: grouped backing, offline artifacts, evidence of launches.
* **Evaluation runners, auditors and record readers** (`evaluation/`, most of
  `tools/`, 300 000 lines of Python). They start programs one after another, hash
  what these leave and compare records; no state outlives a call and nothing
  interleaves. The one driver that has a life cycle, signals and concurrent
  processes is `Campaign`. The share of such scripts that the project covers is
  therefore small, and cannot honestly be large.
* **In-process first-touch gate** and **launch checkpoints**: protocols, but their
  code is a small part of very long files of evidence collection; see the plan.
* **Controls and clocks**, **Composition**: see the plan.
* **The thread that writes is not an executor.** A signal handler that interrupts
  a writer and runs through the site would wait for itself; the synchronized
  interface names this as a duty of the caller.
* **Unwinding frames** (`publish_with_unwind`): registration with the unwinder of
  the C runtime.
* **Private mappings of a hook**: the trampoline that is not in an arena has pages
  of its own, which nobody contends for.
* **Campaign**: that the runner's report is truthful about exit codes is assumed;
  that it is complete is not, because `audit_sweep` checks it. Case `k` of the
  model is seed `k - 1`. The final audit is run by the same `command` as the runner
  and may only succeed or fail here; that its process may survive `stop_process`, as
  the runner's may, is not modelled again. A runner that was sent `SIGKILL` may still
  start workers in the model until it has ended, which allows more than the kernel
  does.
* **Retirement of an installation** (`quiescent.rs:2929`–`2940`): the barrier, the
  deactivation of the routes and the release of the bytes are one step, `Retired`.
  The gate is shut, so no thread could run into a marker between them, and the
  models do not tell their order. That a *failed* barrier keeps all of it is
  modelled (`RetireFails`).

## 7. Plan

Done: `WordPatch` and `CodeVersion`, `TrapRegistry`, `SyncBatch` and `BatchSwitch`,
`ByteClaims`, `QuiescentInstall` and `Interception`, `SignalRouter`, `HookArena`,
`SiteFlip`, `AdmissionGate`, `Campaign`; proofs about all of them, among them the
refinements of `CodeVersion`, `BatchSwitch`, `ByteClaims` and `Interception`.

Modules left, in this order:

1. `ClockLease`: `backedge_clock.rs:82`–`326` across threads and fork, and the
   enable flags that generated code reads. Properties: one owner; a lease lost in a
   call or after fork keeps the page.
2. The in-process gate with its SIGSEGV rendezvous, an implementation of what
   `QuiescentInstall` assumes of a gate.
3. The life cycle of a launch checkpoint.
4. `Composition`: `append_inner` as an operator, checked against an independent
   definition of the final bytes over bounded sequences of plans.

Theorems left: that the members of a `SyncBatch` are split and word sites as
`TrapRegistry` registers them, so that its batches, too, implement `ByteClaims`.
