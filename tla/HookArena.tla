----------------------------- MODULE HookArena -----------------------------
(***************************************************************************)
(* Hooks in a trampoline arena: slots reserved from a cursor that          *)
(* fork-related processes share, the binding of a hook, its toggles and    *)
(* the publication of its program counters (TrampolineArena, InstalledHook *)
(* and the reverse-PC list of src/src/trampoline.rs).                      *)
(*                                                                         *)
(* The arena and its cursor are shared mappings; code at the sites, hook   *)
(* handles and the list belong to a process and are copied by fork, which  *)
(* takes only the calling thread along.  A site's bytes are "original" or  *)
(* the jump; how a publication changes them is WordPatch's subject, so it  *)
(* is one step here that may fail.  Fork during a toggle is excluded, as   *)
(* the repository's documents do for a transition.  The refusals that come *)
(* before the reservation (controls, reach) change nothing.                *)
(***************************************************************************)
EXTENDS Integers, Sequences, FiniteSets

CONSTANTS
  Procs, Root,        \* processes; the one that exists at first
  Threads,            \* threads of a process
  Hooks, Explicit,    \* hooks, one site each; those published explicitly
  Slots               \* the arena holds slots 1..Slots

ASSUME HookArenaAssumption ==
  Root \in Procs /\ Explicit \subseteq Hooks /\ "none" \notin Hooks /\ Slots \in Nat

VARIABLES
  cursor,             \* shared: slots granted so far
  code,               \* shared: who emitted each slot, or NoCode
  alive,              \* processes that exist
  hook,               \* per process and hook: the handle
  text,               \* per process and hook: the site's bytes
  list,               \* per process: the reverse-PC list from its head
  frame,              \* per thread: the call it is in
  inside,             \* per thread: the trampoline it runs in, or "none"
  returned            \* per process: hooks whose explicit publication returned

shared == <<cursor, code>>
vars == <<shared, alive, hook, text, list, frame, inside, returned>>

NoCode == [hook |-> "none", proc |-> "none"]
NoHook == [state |-> "none", slot |-> 0, by |-> "none", published |-> FALSE]
NoCall == [at |-> "idle", hook |-> "none", cursor |-> 0, head |-> <<>>]
Dead   == [NoCall EXCEPT !.at = "dead"]

Listed(p) == {list[p][i] : i \in DOMAIN list[p]}

Init ==
  /\ cursor = 0 /\ code = [s \in 1..Slots |-> NoCode]
  /\ alive = {Root}
  /\ hook = [p \in Procs |-> [h \in Hooks |-> NoHook]]
  /\ text = [p \in Procs |-> [h \in Hooks |-> "original"]]
  /\ list = [p \in Procs |-> <<>>]
  /\ frame = [p \in Procs |-> [t \in Threads |->
                 IF p = Root THEN NoCall ELSE Dead]]
  /\ inside = [p \in Procs |-> [t \in Threads |-> "none"]]
  /\ returned = [p \in Procs |-> {}]

At(p, t, where) == frame[p][t].at = where
Continue(p, t, f) == frame' = [frame EXCEPT ![p][t] = f]
Goto(p, t, where) == Continue(p, t, [frame[p][t] EXCEPT !.at = where])
Return(p, t) == Continue(p, t, NoCall)
Call(p, t, where, h) == Continue(p, t, [NoCall EXCEPT !.at = where, !.hook = h])

SetHandle(p, h, k) == hook' = [hook EXCEPT ![p][h] = k]
SetState(p, h, st) == SetHandle(p, h, [hook[p][h] EXCEPT !.state = st])

-----------------------------------------------------------------------------
(* Installation: install_in_arena, allocate, bind.                         *)

\* The caller has one handle per site: nobody else installs h meanwhile.
BeginInstall(p, t, h) ==
  /\ At(p, t, "idle") /\ hook[p][h].state = "none"
  /\ \A u \in Threads : frame[p][u].hook # h
  /\ Continue(p, t, [NoCall EXCEPT !.at = "reserve", !.hook = h, !.cursor = cursor])
  /\ UNCHANGED <<shared, alive, hook, text, list, inside, returned>>

\* Mutation of Granted: the cursor is stored without comparing.
GrantedAnyway(p, t) == TRUE
\* compare_exchange_weak on the cursor.
Granted(p, t) == cursor = frame[p][t].cursor

\* checked_add and the comparison with len.
Fits(p, t) == frame[p][t].cursor < Slots

\* reserve_arena_slot: a slot, another attempt or ArenaFull.
Reserve(p, t) ==
  /\ At(p, t, "reserve")
  /\ IF ~Fits(p, t) THEN Return(p, t) /\ UNCHANGED cursor
     ELSE IF Granted(p, t)
          THEN /\ cursor' = frame[p][t].cursor + 1
               /\ Goto(p, t, "emit")
          ELSE /\ Continue(p, t, [frame[p][t] EXCEPT !.cursor = cursor])
               /\ UNCHANGED cursor
  /\ UNCHANGED <<code, alive, hook, text, list, inside, returned>>

\* allocate: the image is copied into slot frame.cursor + 1, or emitting
\* fails and the slot is lost.
Emit(p, t) ==
  LET h == frame[p][t].hook  s == frame[p][t].cursor + 1 IN
  /\ At(p, t, "emit")
  /\ \/ /\ code' = [code EXCEPT ![s] = [hook |-> h, proc |-> p]]
        /\ SetHandle(p, h, [state |-> "binding", slot |-> s, by |-> p,
                             published |-> FALSE])
        /\ Call(p, t, "bind", h)
     \/ Return(p, t) /\ UNCHANGED <<code, hook>>
  /\ UNCHANGED <<cursor, alive, text, list, inside, returned>>

\* Mutation of Discard: the slot goes back to the arena.
DiscardReclaims(p, h) ==
  SetHandle(p, h, NoHook) /\ cursor' = cursor - 1
\* discard: an arena slot has no mapping of its own and stays granted.
Discard(p, h) ==
  SetHandle(p, h, NoHook) /\ UNCHANGED cursor

\* bind: a failure discards the trampoline; an automatic hook is published
\* before its handle is returned.
Bind(p, t) ==
  LET h == frame[p][t].hook IN
  /\ At(p, t, "bind")
  /\ \/ Discard(p, h) /\ Return(p, t)
     \/ /\ IF h \in Explicit
           THEN SetState(p, h, "inactive") /\ Return(p, t)
           ELSE Goto(p, t, "swap") /\ UNCHANGED hook
        /\ UNCHANGED cursor
  /\ UNCHANGED <<code, alive, text, list, inside, returned>>

-----------------------------------------------------------------------------
(* publish_program_counter_mappings.                                       *)

Handle(p, h) == hook[p][h].state \notin {"none", "binding"}

BeginPublish(p, t, h) ==
  /\ At(p, t, "idle") /\ Handle(p, h) /\ h \in Explicit
  /\ Call(p, t, "swap", h)
  /\ UNCHANGED <<shared, alive, hook, text, list, inside, returned>>

\* The end of a publication, and of an automatic hook's bind.
Published(p, t) ==
  LET h == frame[p][t].hook IN
  /\ Return(p, t)
  /\ returned' = [returned EXCEPT ![p] = @ \cup ({h} \cap Explicit)]
  /\ IF hook[p][h].state = "binding"
     THEN SetState(p, h, "inactive")
     ELSE UNCHANGED hook

\* The swap of the flag; only the first caller goes on to register.
Swap(p, t) ==
  LET h == frame[p][t].hook IN
  /\ At(p, t, "swap")
  /\ IF hook[p][h].published THEN Published(p, t)
     ELSE /\ SetHandle(p, h, [hook[p][h] EXCEPT !.published = TRUE])
          /\ Continue(p, t, [frame[p][t] EXCEPT !.at = "push", !.head = list[p]])
          /\ UNCHANGED returned
  /\ UNCHANGED <<shared, alive, text, list, inside>>

\* Mutation of Unmoved: the head is stored without comparing.
UnmovedAnyway(p, t) == TRUE
\* compare_exchange_weak on PROGRAM_COUNTER_MAP_HEAD.
Unmoved(p, t) == list[p] = frame[p][t].head

\* register_program_counter_mappings: node.next is the head that was read.
Push(p, t) ==
  /\ At(p, t, "push")
  /\ IF Unmoved(p, t)
     THEN /\ list' = [list EXCEPT ![p] = <<frame[p][t].hook>> \o frame[p][t].head]
          /\ Published(p, t)
     ELSE /\ Continue(p, t, [frame[p][t] EXCEPT !.head = list[p]])
          /\ UNCHANGED <<list, hook, returned>>
  /\ UNCHANGED <<shared, alive, text, inside>>

-----------------------------------------------------------------------------
(* Toggling: activate_with, deactivate_with.                               *)

\* to is "active" or "inactive"; in its own or another state the call returns.
BeginToggle(p, t, h, to) ==
  /\ At(p, t, "idle") /\ Handle(p, h)
  /\ hook[p][h].state = IF to = "active" THEN "inactive" ELSE "active"
  /\ SetState(p, h, "transitioning")
  /\ Call(p, t, IF to = "active" THEN "apply" ELSE "revert", h)
  /\ UNCHANGED <<shared, alive, text, list, inside, returned>>

\* Mutation of AfterFailure: a failed publication counts as done.
AfterFailureDone(p, t) == IF At(p, t, "apply") THEN "active" ELSE "inactive"
AfterFailure(p, t) == IF At(p, t, "apply") THEN "inactive" ELSE "active"

\* publish() and the store of the next state, with what others see between.
ToggleText(p, t) ==
  LET h == frame[p][t].hook IN
  /\ frame[p][t].at \in {"apply", "revert"}
  /\ \/ /\ text' = [text EXCEPT ![p][h] =
              IF At(p, t, "apply") THEN "jump" ELSE "original"]
        /\ Goto(p, t, IF At(p, t, "apply") THEN "applied" ELSE "reverted")
        /\ UNCHANGED hook
     \/ /\ SetState(p, h, AfterFailure(p, t))
        /\ Return(p, t) /\ UNCHANGED text
  /\ UNCHANGED <<shared, alive, list, inside, returned>>

ToggleState(p, t) ==
  LET h == frame[p][t].hook IN
  /\ frame[p][t].at \in {"applied", "reverted"}
  /\ SetState(p, h, IF At(p, t, "applied") THEN "active" ELSE "inactive")
  /\ Return(p, t)
  /\ UNCHANGED <<shared, alive, text, list, inside, returned>>

-----------------------------------------------------------------------------
(* Threads that run the instrumented code, and fork.                       *)

Enter(p, t, h) ==
  /\ At(p, t, "idle") /\ inside[p][t] = "none" /\ text[p][h] = "jump"
  /\ inside' = [inside EXCEPT ![p][t] = h]
  /\ UNCHANGED <<shared, alive, hook, text, list, frame, returned>>

Leave(p, t) ==
  /\ At(p, t, "idle") /\ inside[p][t] # "none"
  /\ inside' = [inside EXCEPT ![p][t] = "none"]
  /\ UNCHANGED <<shared, alive, hook, text, list, frame, returned>>

Toggling(p) == \E t \in Threads :
                 frame[p][t].at \in {"apply", "revert", "applied", "reverted"}

\* What the child sees of a handle: one still on the stack of another thread's
\* bind is gone with that thread.
Inherited(p) == [h \in Hooks |->
                   IF hook[p][h].state = "binding" THEN NoHook ELSE hook[p][h]]

\* Thread t, perhaps inside a trampoline, forks.
Fork(p, t, c) ==
  /\ p \in alive /\ c \notin alive
  /\ At(p, t, "idle") /\ ~Toggling(p)
  /\ alive' = alive \cup {c}
  /\ hook' = [hook EXCEPT ![c] = Inherited(p)]
  /\ text' = [text EXCEPT ![c] = text[p]]
  /\ list' = [list EXCEPT ![c] = list[p]]
  /\ frame' = [frame EXCEPT ![c] =
                 [u \in Threads |-> IF u = t THEN NoCall ELSE Dead]]
  /\ inside' = [inside EXCEPT ![c][t] = inside[p][t]]
  /\ returned' = [returned EXCEPT ![c] = returned[p]]
  /\ UNCHANGED shared

Step(p, t) ==
  \/ Reserve(p, t) \/ Emit(p, t) \/ Bind(p, t) \/ Swap(p, t) \/ Push(p, t)
  \/ ToggleText(p, t) \/ ToggleState(p, t) \/ Leave(p, t)

Next ==
  \E p \in Procs, t \in Threads :
    \/ Step(p, t)
    \/ \E h \in Hooks : \/ BeginInstall(p, t, h) \/ BeginPublish(p, t, h)
                        \/ Enter(p, t, h)
                        \/ \E to \in {"active", "inactive"} :
                             BeginToggle(p, t, h, to)
    \/ \E c \in Procs : Fork(p, t, c)

Spec == Init /\ [][Next]_vars

-----------------------------------------------------------------------------
(* Properties.                                                             *)

HandleType ==
  [state : {"none", "binding", "inactive", "transitioning", "active"},
   slot : 0..Slots, by : Procs \cup {"none"}, published : BOOLEAN]
CallType ==
  [at : {"idle", "dead", "reserve", "emit", "bind", "swap", "push",
         "apply", "revert", "applied", "reverted"},
   hook : Hooks \cup {"none"}, cursor : 0..Slots, head : Seq(Hooks)]

\* The state is well formed; the cursor never passes the arena's end.
TypeOK ==
  /\ cursor \in 0..Slots
  /\ code \in [1..Slots -> [hook : Hooks \cup {"none"}, proc : Procs \cup {"none"}]]
  /\ alive \subseteq Procs
  /\ hook \in [Procs -> [Hooks -> HandleType]]
  /\ text \in [Procs -> [Hooks -> {"original", "jump"}]]
  /\ list \in [Procs -> Seq(Hooks)]
  /\ frame \in [Procs -> [Threads -> CallType]]
  /\ inside \in [Procs -> [Threads -> Hooks \cup {"none"}]]
  /\ returned \in [Procs -> SUBSET Explicit]

\* A slot is granted once, to one caller of one process, and never emitted
\* again, whoever forked when and whatever became of its hook
\* (reserve_arena_slot, the shared cursor page).
SlotWrittenOnce ==
  [][\A s \in 1..Slots : code[s] # NoCode => code'[s] = code[s]]_vars

\* A redirected site and a thread inside a trampoline run the code that was
\* emitted for that very hook, in this process or the one it was forked from.
RunsOwnCode ==
  \A p \in Procs, h \in Hooks :
    text[p][h] = "jump" \/ (\E t \in Threads : inside[p][t] = h) =>
      /\ hook[p][h].slot # 0
      /\ code[hook[p][h].slot] = [hook |-> h, proc |-> hook[p][h].by]

\* Between toggles, is_active answers what the site's bytes are, also after a
\* failed publication and in a forked child.
StateIsText ==
  \A p \in Procs, h \in Hooks :
    /\ hook[p][h].state = "active" => text[p][h] = "jump"
    /\ hook[p][h].state \in {"none", "binding", "inactive"} =>
         text[p][h] = "original"

\* The handles are well formed and agree with the code.
HookInv == TypeOK /\ StateIsText

\* A thread in the trampoline of an automatic hook is translated by any walk
\* that starts now (bind publishes before the handle exists).
InsideIsTranslated ==
  \A p \in Procs, t \in Threads :
    inside[p][t] \in Hooks \ Explicit => inside[p][t] \in Listed(p)

\* A returned call of publish_program_counter_mappings has published.
ReturnedIsListed ==
  \A p \in Procs : returned[p] \subseteq Listed(p)
=============================================================================
