-------------------------- MODULE HookArena_proofs --------------------------
(***************************************************************************)
(* Theorems about HookArena: slots, hooks and the reverse-PC list, for any *)
(* number of processes, threads, hooks and slots.                          *)
(***************************************************************************)
EXTENDS HookArena, TLAPS

-----------------------------------------------------------------------------
(* The inductive invariant.                                                *)

Toggles == {"apply", "revert", "applied", "reverted"}

\* A granted slot that is not emitted yet belongs to one call and is empty,
\* and everything behind the cursor is empty.
SlotInv ==
  /\ \A p \in Procs, t \in Threads : At(p, t, "emit") =>
       frame[p][t].cursor < cursor /\ code[frame[p][t].cursor + 1] = NoCode
  /\ \A p, q \in Procs, t, u \in Threads :
       At(p, t, "emit") /\ At(q, u, "emit")
         /\ frame[p][t].cursor = frame[q][u].cursor => p = q /\ t = u
  /\ \A s \in 1..Slots : s > cursor => code[s] = NoCode

\* What the program counter of a call says of its hook.
CallInv(p, t) ==
  LET f == frame[p][t] IN
  /\ f.at \in {"idle", "dead"} <=> f.hook = "none"
  /\ f.at \in {"reserve", "emit"} => hook[p][f.hook].state = "none"
  /\ f.at = "bind" => hook[p][f.hook].state = "binding"
  /\ f.at \in {"swap", "push"} => hook[p][f.hook].state # "none"
  /\ f.at \in Toggles => hook[p][f.hook].state = "transitioning"
  /\ f.at \in {"apply", "reverted"} => text[p][f.hook] = "original"
  /\ f.at \in {"revert", "applied"} => text[p][f.hook] = "jump"
FrameInv == \A p \in Procs, t \in Threads : CallInv(p, t)

\* A hook that is being installed or toggled is so by one thread.
AloneInv ==
  \A p \in Procs, t, u \in Threads :
    frame[p][t].hook = frame[p][u].hook /\ frame[p][t].hook # "none" =>
      /\ hook[p][frame[p][t].hook].state \in {"none", "binding"} => t = u
      /\ frame[p][t].at \in Toggles /\ frame[p][u].at \in Toggles => t = u

\* A hook owns the code of its slot.
CodeInv ==
  \A p \in Procs, h \in Hooks : hook[p][h].state # "none" =>
    /\ hook[p][h].slot \in 1..Slots
    /\ code[hook[p][h].slot] = [hook |-> h, proc |-> hook[p][h].by]

\* Processes that do not exist yet run nothing; nobody is inside a hook that
\* has no handle.
InsideInv ==
  \A p \in Procs, t \in Threads :
    /\ p \notin alive => frame[p][t].at = "dead" /\ inside[p][t] = "none"
    /\ inside[p][t] # "none" => Handle(p, inside[p][t])

\* An automatic hook has a handle only once it is listed, and is registered
\* only while it is bound.
BoundInv(p, t) ==
  frame[p][t].hook \notin Explicit =>
    /\ frame[p][t].at \in {"swap", "push"} =>
         hook[p][frame[p][t].hook].state = "binding"
    /\ frame[p][t].at \in {"bind", "swap"} =>
         ~hook[p][frame[p][t].hook].published
ListInv ==
  /\ \A p \in Procs, h \in Hooks \ Explicit : Handle(p, h) => h \in Listed(p)
  /\ \A p \in Procs, t \in Threads : BoundInv(p, t)

IInv == /\ TypeOK /\ SlotInv /\ FrameInv /\ AloneInv /\ CodeInv /\ StateIsText
        /\ InsideInv /\ ListInv

-----------------------------------------------------------------------------
(* Records, and what an update of one call or one handle leaves alone.     *)

LEMMA EmptySeq == \A S : <<>> \in Seq(S)
OBVIOUS

\* The fields of a call and of a handle.
LEMMA Fields ==
  /\ \A f \in CallType :
       /\ f.at \in {"idle", "dead", "reserve", "emit", "bind", "swap", "push",
                    "apply", "revert", "applied", "reverted"}
       /\ f.hook \in Hooks \cup {"none"} /\ f.cursor \in 0..Slots
       /\ f.head \in Seq(Hooks)
  /\ \A k \in HandleType :
       /\ k.state \in {"none", "binding", "inactive", "transitioning", "active"}
       /\ k.slot \in 0..Slots /\ k.by \in Procs \cup {"none"}
       /\ k.published \in BOOLEAN
BY DEF CallType, HandleType

\* The idle call, the one of a dead thread, and the handle before installation.
LEMMA Empty ==
  /\ NoCall \in CallType /\ NoCall.at = "idle" /\ NoCall.hook = "none"
  /\ Dead \in CallType /\ Dead.at = "dead" /\ Dead.hook = "none"
  /\ NoHook \in HandleType /\ NoHook.state = "none"
<1>1. <<>> \in Seq(Hooks) /\ 0 \in 0..Slots
  BY EmptySeq, HookArenaAssumption
<1>2. NoCall \in CallType /\ NoCall.at = "idle" /\ NoCall.hook = "none"
  BY <1>1 DEF NoCall, CallType
<1>3. Dead \in CallType /\ Dead.at = "dead" /\ Dead.hook = "none"
  BY <1>1 DEF Dead, NoCall, CallType
<1>4. NoHook \in HandleType /\ NoHook.state = "none"
  BY <1>1 DEF NoHook, HandleType
<1> QED
  BY <1>2, <1>3, <1>4

LEMMA CallEffect ==
  ASSUME TypeOK, NEW p \in Procs, NEW t \in Threads, NEW f \in CallType,
         Continue(p, t, f)
  PROVE  /\ frame' \in [Procs -> [Threads -> CallType]]
         /\ frame'[p][t] = f
         /\ \A q \in Procs, u \in Threads :
              q # p \/ u # t => frame'[q][u] = frame[q][u]
BY DEF TypeOK, Continue

LEMMA HandleEffect ==
  ASSUME TypeOK, NEW p \in Procs, NEW h \in Hooks, NEW k \in HandleType,
         SetHandle(p, h, k)
  PROVE  /\ hook' \in [Procs -> [Hooks -> HandleType]]
         /\ hook'[p][h] = k
         /\ \A q \in Procs, g \in Hooks :
              q # p \/ g # h => hook'[q][g] = hook[q][g]
BY DEF TypeOK, SetHandle

Beside(p, h) == \A q \in Procs, g \in Hooks :
                  q # p \/ g # h => hook'[q][g] = hook[q][g]

LEMMA StateEffect ==
  ASSUME TypeOK, NEW p \in Procs, NEW h \in Hooks,
         NEW w \in {"inactive", "transitioning", "active"}, SetState(p, h, w)
  PROVE  /\ hook' \in [Procs -> [Hooks -> HandleType]] /\ Beside(p, h)
         /\ hook'[p][h].state = w /\ hook'[p][h].slot = hook[p][h].slot
         /\ hook'[p][h].by = hook[p][h].by
         /\ hook'[p][h].published = hook[p][h].published
<1> DEFINE k == [hook[p][h] EXCEPT !.state = w]
<1>1. hook[p][h] \in HandleType
  BY DEF TypeOK
<1>2. /\ k \in HandleType /\ k.state = w /\ k.slot = hook[p][h].slot
      /\ k.by = hook[p][h].by /\ k.published = hook[p][h].published
  BY <1>1 DEF HandleType
<1>3. SetHandle(p, h, k)
  BY DEF SetState
<1> HIDE DEF k
<1> QED
  BY <1>2, <1>3, HandleEffect DEF Beside

Others(p, t) == \A q \in Procs, u \in Threads :
                  q # p \/ u # t => frame'[q][u] = frame[q][u]

LEMMA ReturnEffect ==
  ASSUME TypeOK, NEW p \in Procs, NEW t \in Threads, Return(p, t)
  PROVE  /\ frame' \in [Procs -> [Threads -> CallType]] /\ Others(p, t)
         /\ frame'[p][t].at = "idle" /\ frame'[p][t].hook = "none"
<1>1. NoCall \in CallType /\ NoCall.at = "idle" /\ NoCall.hook = "none"
  BY Empty
<1>2. Continue(p, t, NoCall)
  BY DEF Return
<1> HIDE DEF NoCall
<1> QED
  BY <1>1, <1>2, CallEffect DEF Others

LEMMA BeginEffect ==
  ASSUME TypeOK, NEW p \in Procs, NEW t \in Threads, NEW h \in Hooks,
         NEW w \in {"reserve", "bind", "swap", "apply", "revert"}, Call(p, t, w, h)
  PROVE  /\ frame' \in [Procs -> [Threads -> CallType]] /\ Others(p, t)
         /\ frame'[p][t].at = w /\ frame'[p][t].hook = h
<1> DEFINE f == [NoCall EXCEPT !.at = w, !.hook = h]
<1>1. f \in CallType /\ f.at = w /\ f.hook = h
  BY Empty DEF CallType
<1>2. Continue(p, t, f)
  BY DEF Call
<1> HIDE DEF f
<1> QED
  BY <1>1, <1>2, CallEffect DEF Others

LEMMA GotoEffect ==
  ASSUME TypeOK, NEW p \in Procs, NEW t \in Threads,
         NEW w \in {"emit", "swap", "push", "applied", "reverted"}, Goto(p, t, w)
  PROVE  /\ frame' \in [Procs -> [Threads -> CallType]] /\ Others(p, t)
         /\ frame'[p][t].at = w /\ frame'[p][t].hook = frame[p][t].hook
         /\ frame'[p][t].cursor = frame[p][t].cursor
<1> DEFINE f == [frame[p][t] EXCEPT !.at = w]
<1>0. frame[p][t] \in CallType
  BY DEF TypeOK
<1>1. /\ f \in CallType /\ f.at = w /\ f.hook = frame[p][t].hook
      /\ f.cursor = frame[p][t].cursor
  BY <1>0 DEF CallType
<1>2. Continue(p, t, f)
  BY DEF Goto
<1> HIDE DEF f
<1> QED
  BY <1>1, <1>2, CallEffect DEF Others

\* The call a thread is in, and its hook.
LEMMA CallOf ==
  ASSUME TypeOK, FrameInv, NEW p \in Procs, NEW t \in Threads
  PROVE  /\ frame[p][t] \in CallType
         /\ frame[p][t].hook \in Hooks \cup {"none"}
         /\ frame[p][t].cursor \in 0..Slots /\ frame[p][t].head \in Seq(Hooks)
         /\ frame[p][t].at \notin {"idle", "dead"} =>
              /\ frame[p][t].hook \in Hooks
              /\ hook[p][frame[p][t].hook] \in HandleType
BY Fields DEF TypeOK, FrameInv, CallInv

\* Slots are not concerned when no call gets to emit.
LEMMA SlotKept ==
  ASSUME SlotInv, UNCHANGED <<cursor, code>>,
         \A q \in Procs, u \in Threads : frame'[q][u].at = "emit" =>
           frame[q][u].at = "emit" /\ frame'[q][u].cursor = frame[q][u].cursor
  PROVE  SlotInv'
<1>1. ASSUME NEW q \in Procs, NEW u \in Threads, At(q, u, "emit")'
      PROVE  /\ frame'[q][u].cursor < cursor'
             /\ code'[frame'[q][u].cursor + 1] = NoCode
  BY <1>1 DEF SlotInv, At
<1>2. ASSUME NEW q \in Procs, NEW r \in Procs, NEW u \in Threads,
             NEW v \in Threads, At(q, u, "emit")', At(r, v, "emit")',
             frame'[q][u].cursor = frame'[r][v].cursor
      PROVE  q = r /\ u = v
  BY <1>2 DEF SlotInv, At
<1> QED
  BY <1>1, <1>2 DEF SlotInv

\* While a hook is being installed, one thread at most has to do with it.
LEMMA Alone ==
  ASSUME AloneInv, NEW p \in Procs, NEW t \in Threads,
         frame[p][t].hook # "none",
         hook[p][frame[p][t].hook].state \in {"none", "binding"}
  PROVE  \A u \in Threads : u # t => frame[p][u].hook # frame[p][t].hook
BY DEF AloneInv

\* A step of thread t about hook h leaves the other calls and handles alone.
Local(p, t, h) ==
  /\ frame' \in [Procs -> [Threads -> CallType]] /\ Others(p, t)
  /\ hook' \in [Procs -> [Hooks -> HandleType]] /\ Beside(p, h)

\* The conjuncts of the invariant after such a step, from what it did to its
\* own call and its own hook.
LEMMA FrameKept ==
  ASSUME TypeOK, FrameInv, NEW p \in Procs, NEW t \in Threads, NEW h \in Hooks,
         Local(p, t, h), CallInv(p, t)',
         \A q \in Procs, g \in Hooks : q # p \/ g # h => text'[q][g] = text[q][g],
         \A u \in Threads : u # t /\ frame[p][u].hook = h =>
           \/ frame[p][u].at \in {"swap", "push"} /\ hook'[p][h].state # "none"
           \/ hook'[p][h].state = hook[p][h].state /\ text'[p][h] = text[p][h]
  PROVE  FrameInv'
<1>1. ASSUME NEW q \in Procs, NEW u \in Threads, q # p \/ u # t
      PROVE  CallInv(q, u)'
  <2>1. frame'[q][u] = frame[q][u] /\ CallInv(q, u)
    BY <1>1 DEF Local, Others, FrameInv
  <2>2. CASE q = p /\ frame[q][u].hook = h
    <3>1. \/ /\ frame[q][u].at \in {"swap", "push"}
             /\ hook'[q][frame[q][u].hook].state # "none"
          \/ /\ hook'[q][frame[q][u].hook].state = hook[q][frame[q][u].hook].state
             /\ text'[q][frame[q][u].hook] = text[q][frame[q][u].hook]
      BY <1>1, <2>2
    <3> QED
      BY <2>1, <3>1 DEF CallInv, Toggles
  <2>3. CASE frame[q][u].at \in {"idle", "dead"}
    BY <2>1, <2>3 DEF CallInv, Toggles
  <2>4. CASE /\ q # p \/ frame[q][u].hook # h
             /\ frame[q][u].at \notin {"idle", "dead"}
    <3>1. frame[q][u].hook \in Hooks
      BY <2>4, CallOf
    <3>2. /\ hook'[q][frame[q][u].hook] = hook[q][frame[q][u].hook]
          /\ text'[q][frame[q][u].hook] = text[q][frame[q][u].hook]
      BY <2>4, <3>1 DEF Local, Beside
    <3> QED
      BY <2>1, <3>2 DEF CallInv
  <2> QED
    BY <2>2, <2>3, <2>4
<1> QED
  BY <1>1 DEF FrameInv

LEMMA AloneKept ==
  ASSUME TypeOK, FrameInv, AloneInv, NEW p \in Procs, NEW t \in Threads,
         NEW h \in Hooks, Local(p, t, h), frame'[p][t].hook \in {h, "none"},
         \A u \in Threads : u # t /\ frame[p][u].hook = h =>
           /\ hook'[p][h].state \notin {"none", "binding"}
           /\ frame[p][u].at \in Toggles => frame'[p][t].at \notin Toggles
  PROVE  AloneInv'
<1> SUFFICES ASSUME NEW q \in Procs, NEW u \in Threads, NEW v \in Threads,
                    frame'[q][u].hook = frame'[q][v].hook,
                    frame'[q][u].hook # "none"
             PROVE  /\ hook'[q][frame'[q][u].hook].state \in {"none", "binding"}
                         => u = v
                    /\ frame'[q][u].at \in Toggles /\ frame'[q][v].at \in Toggles
                         => u = v
  BY DEF AloneInv
<1>1. CASE q = p /\ frame'[q][u].hook = h /\ (u = t \/ v = t)
  <2>1. \A w \in Threads : w # t => frame'[p][w] = frame[p][w]
    BY DEF Local, Others
  <2> QED
    BY <1>1, <2>1
<1>2. CASE q = p /\ frame'[q][u].hook = h /\ u # t /\ v # t
  <2>1. frame'[p][u] = frame[p][u] /\ frame'[p][v] = frame[p][v]
    BY <1>2 DEF Local, Others
  <2> QED
    BY <1>2, <2>1 DEF AloneInv
<1>3. CASE q # p \/ frame'[q][u].hook # h
  <2>1. (q # p \/ u # t) /\ (q # p \/ v # t)
    BY <1>3
  <2>2. frame'[q][u] = frame[q][u] /\ frame'[q][v] = frame[q][v]
    BY <2>1 DEF Local, Others
  <2>3. frame[q][u].hook \in Hooks
    BY <2>2, CallOf
  <2>4. hook'[q][frame[q][u].hook] = hook[q][frame[q][u].hook]
    BY <1>3, <2>2, <2>3 DEF Local, Beside
  <2> QED
    BY <2>2, <2>4 DEF AloneInv
<1> QED
  BY <1>1, <1>2, <1>3

LEMMA InsideKept ==
  ASSUME TypeOK, InsideInv, NEW p \in Procs, NEW t \in Threads, NEW h \in Hooks,
         Local(p, t, h), frame[p][t].at # "dead", UNCHANGED <<alive, inside>>,
         Handle(p, h) => hook'[p][h].state \notin {"none", "binding"}
  PROVE  InsideInv'
<1> SUFFICES ASSUME NEW q \in Procs, NEW u \in Threads
             PROVE  /\ q \notin alive =>
                         frame'[q][u].at = "dead" /\ inside[q][u] = "none"
                    /\ inside[q][u] # "none" =>
                         hook'[q][inside[q][u]].state \notin {"none", "binding"}
  BY DEF InsideInv, Handle
<1>1. q \notin alive => frame'[q][u].at = "dead" /\ inside[q][u] = "none"
  BY DEF InsideInv, Local, Others
<1>2. ASSUME inside[q][u] # "none"
      PROVE  hook'[q][inside[q][u]].state \notin {"none", "binding"}
  <2>1. inside[q][u] \in Hooks /\ Handle(q, inside[q][u])
    BY <1>2 DEF TypeOK, InsideInv
  <2>2. CASE q = p /\ inside[q][u] = h
    BY <2>1, <2>2
  <2>3. CASE q # p \/ inside[q][u] # h
    <3>1. hook'[q][inside[q][u]] = hook[q][inside[q][u]]
      BY <2>1, <2>3 DEF Local, Beside
    <3> QED
      BY <2>1, <3>1 DEF Handle
  <2> QED
    BY <2>2, <2>3
<1> QED
  BY <1>1, <1>2

LEMMA ListKept ==
  ASSUME TypeOK, FrameInv, ListInv, NEW p \in Procs, NEW t \in Threads,
         NEW h \in Hooks, Local(p, t, h), BoundInv(p, t)',
         \A q \in Procs : Listed(q) \subseteq Listed(q)',
         h \notin Explicit /\ hook'[p][h].state \notin {"none", "binding"} =>
           h \in Listed(p)',
         \A u \in Threads : u # t /\ frame[p][u].hook = h =>
           h \in Explicit \/ frame[p][u].at \in Toggles
  PROVE  ListInv'
<1>1. ASSUME NEW q \in Procs, NEW g \in Hooks \ Explicit, Handle(q, g)'
      PROVE  g \in Listed(q)'
  <2>1. CASE q = p /\ g = h
    BY <1>1, <2>1 DEF Handle
  <2>2. CASE q # p \/ g # h
    <3>1. Handle(q, g)
      BY <1>1, <2>2 DEF Handle, Local, Beside
    <3> QED
      BY <3>1 DEF ListInv
  <2> QED
    BY <2>1, <2>2
<1>2. ASSUME NEW q \in Procs, NEW u \in Threads
      PROVE  BoundInv(q, u)'
  <2>1. CASE q = p /\ u = t
    BY <2>1
  <2>2. CASE q # p \/ u # t
    <3>1. frame'[q][u] = frame[q][u] /\ BoundInv(q, u)
      BY <2>2 DEF Local, Others, ListInv
    <3>2. CASE frame[q][u].at \in {"idle", "dead"}
      BY <3>1, <3>2 DEF BoundInv
    <3>3. CASE q = p /\ frame[q][u].hook = h
      BY <2>2, <3>1, <3>3 DEF BoundInv, Toggles
    <3>4. CASE /\ frame[q][u].at \notin {"idle", "dead"}
               /\ q # p \/ frame[q][u].hook # h
      <4>1. hook'[q][frame[q][u].hook] = hook[q][frame[q][u].hook]
        BY <3>4, CallOf DEF Local, Beside
      <4> QED
        BY <3>1, <4>1 DEF BoundInv
    <3> QED
      BY <3>2, <3>3, <3>4
  <2> QED
    BY <2>1, <2>2
<1> QED
  BY <1>1, <1>2 DEF ListInv

LEMMA CodeKept ==
  ASSUME CodeInv, NEW p \in Procs, NEW h \in Hooks, Beside(p, h), UNCHANGED code,
         hook'[p][h].state # "none" =>
           /\ hook[p][h].state # "none" /\ hook'[p][h].slot = hook[p][h].slot
           /\ hook'[p][h].by = hook[p][h].by
  PROVE  CodeInv'
<1>1. ASSUME NEW q \in Procs, NEW g \in Hooks, hook'[q][g].state # "none"
      PROVE  /\ hook'[q][g].slot \in 1..Slots
             /\ code'[hook'[q][g].slot] = [hook |-> g, proc |-> hook'[q][g].by]
  <2>1. CASE q = p /\ g = h
    BY <1>1, <2>1 DEF CodeInv
  <2>2. CASE q # p \/ g # h
    <3>1. hook'[q][g] = hook[q][g]
      BY <2>2 DEF Beside
    <3> QED
      BY <1>1, <3>1 DEF CodeInv
  <2> QED
    BY <2>1, <2>2
<1> QED
  BY <1>1 DEF CodeInv

LEMMA TextKept ==
  ASSUME StateIsText, NEW p \in Procs, NEW h \in Hooks, Beside(p, h),
         \A q \in Procs, g \in Hooks : q # p \/ g # h => text'[q][g] = text[q][g],
         hook'[p][h].state = "active" => text'[p][h] = "jump",
         hook'[p][h].state \in {"none", "binding", "inactive"} =>
           text'[p][h] = "original"
  PROVE  StateIsText'
<1>1. ASSUME NEW q \in Procs, NEW g \in Hooks
      PROVE  /\ hook'[q][g].state = "active" => text'[q][g] = "jump"
             /\ hook'[q][g].state \in {"none", "binding", "inactive"} =>
                  text'[q][g] = "original"
  <2>1. CASE q = p /\ g = h
    BY <2>1
  <2>2. CASE q # p \/ g # h
    <3>1. hook'[q][g] = hook[q][g] /\ text'[q][g] = text[q][g]
      BY <2>2 DEF Beside
    <3> QED
      BY <3>1 DEF StateIsText
  <2> QED
    BY <2>1, <2>2
<1> QED
  BY <1>1 DEF StateIsText

-----------------------------------------------------------------------------
(* Each operation preserves the invariant.                                 *)

LEMMA BeginInstallStep ==
  ASSUME IInv, NEW p \in Procs, NEW t \in Threads, NEW h \in Hooks,
         BeginInstall(p, t, h)
  PROVE  IInv'
<1>1. /\ frame' \in [Procs -> [Threads -> CallType]] /\ Others(p, t)
      /\ frame'[p][t].at = "reserve" /\ frame'[p][t].hook = h
  <2> DEFINE f == [NoCall EXCEPT !.at = "reserve", !.hook = h, !.cursor = cursor]
  <2>1. f \in CallType /\ f.at = "reserve" /\ f.hook = h
    BY Empty DEF IInv, TypeOK, CallType
  <2>2. Continue(p, t, f)
    BY DEF BeginInstall
  <2> HIDE DEF f
  <2> QED
    BY <2>1, <2>2, CallEffect DEF IInv, Others
<1>2. /\ frame[p][t].at = "idle" /\ hook[p][h].state = "none"
      /\ \A u \in Threads : frame[p][u].hook # h
      /\ UNCHANGED <<cursor, code, alive, hook, text, list, inside, returned>>
  BY DEF BeginInstall, At, shared
<1>3. TypeOK'
  BY <1>1, <1>2 DEF IInv, TypeOK
<1>4. SlotInv'
  BY <1>1, <1>2 DEF IInv, Others, SlotInv, At
<1>5. FrameInv'
  <2>1. CallInv(p, t)'
    BY <1>1, <1>2, HookArenaAssumption DEF CallInv, Toggles
  <2>2. Local(p, t, h)
    BY <1>1, <1>2 DEF IInv, TypeOK, Local, Beside
  <2> QED
    BY <1>2, <2>1, <2>2, FrameKept DEF IInv
<1>6. AloneInv'
  BY <1>1, <1>2 DEF IInv, Others, AloneInv, Toggles
<1>7. CodeInv' /\ StateIsText'
  BY <1>2 DEF IInv, CodeInv, StateIsText
<1>8. InsideInv'
  BY <1>1, <1>2 DEF IInv, Others, InsideInv, Handle
<1>9. ListInv'
  <2>1. Local(p, t, h) /\ BoundInv(p, t)'
    BY <1>1, <1>2 DEF IInv, TypeOK, Local, Beside, BoundInv
  <2>2. \A q \in Procs : Listed(q) = Listed(q)'
    BY <1>2 DEF Listed
  <2> QED
    BY <1>2, <2>1, <2>2, ListKept DEF IInv
<1> QED
  BY <1>3, <1>4, <1>5, <1>6, <1>7, <1>8, <1>9 DEF IInv

LEMMA ReserveStep ==
  ASSUME IInv, NEW p \in Procs, NEW t \in Threads, Reserve(p, t)
  PROVE  IInv'
<1>1. /\ frame[p][t].at = "reserve" /\ frame[p][t].hook \in Hooks
      /\ frame[p][t] \in CallType /\ frame[p][t].cursor \in 0..Slots
      /\ UNCHANGED <<code, alive, hook, text, list, inside, returned>>
  BY CallOf DEF IInv, Reserve, At
<1>2. /\ frame' \in [Procs -> [Threads -> CallType]]
      /\ Others(p, t)
      /\ \/ frame'[p][t].at = "idle" /\ frame'[p][t].hook = "none"
            /\ cursor' = cursor
         \/ frame'[p][t].at = "reserve" /\ frame'[p][t].hook = frame[p][t].hook
            /\ cursor' = cursor
         \/ /\ frame'[p][t].at = "emit" /\ frame'[p][t].hook = frame[p][t].hook
            /\ cursor < Slots /\ cursor' = cursor + 1
            /\ frame'[p][t].cursor = cursor
  <2>1. CASE ~Fits(p, t)
    <3>1. Return(p, t) /\ cursor' = cursor
      BY <2>1 DEF Reserve
    <3> QED
      BY <3>1, ReturnEffect DEF IInv
  <2>2. CASE Fits(p, t) /\ Granted(p, t)
    <3>1. Goto(p, t, "emit") /\ cursor' = cursor + 1 /\ cursor < Slots
          /\ frame[p][t].cursor = cursor
      BY <2>2 DEF Reserve, Fits, Granted
    <3> QED
      BY <3>1, GotoEffect DEF IInv
  <2>3. CASE Fits(p, t) /\ ~Granted(p, t)
    <3>1. Continue(p, t, [frame[p][t] EXCEPT !.cursor = cursor])
          /\ cursor' = cursor /\ cursor \in 0..Slots
      BY <2>3 DEF Reserve, IInv, TypeOK
    <3> DEFINE f == [frame[p][t] EXCEPT !.cursor = cursor]
    <3>2. f \in CallType /\ f.at = "reserve" /\ f.hook = frame[p][t].hook
      BY <1>1, <3>1 DEF CallType
    <3> HIDE DEF f
    <3>3. Continue(p, t, f)
      BY <3>1 DEF f
    <3>4. /\ frame' \in [Procs -> [Threads -> CallType]] /\ Others(p, t)
          /\ frame'[p][t] = f
      BY <3>2, <3>3, CallEffect DEF IInv, Others
    <3> QED
      BY <3>1, <3>2, <3>4
  <2> QED
    BY <2>1, <2>2, <2>3
<1>3. TypeOK'
  BY <1>1, <1>2, HookArenaAssumption DEF IInv, TypeOK
<1>4. SlotInv'
  <2>1. /\ cursor \in Nat /\ Slots \in Nat
        /\ \A q \in Procs, u \in Threads : frame[q][u].cursor \in Int
    BY Fields, HookArenaAssumption DEF IInv, TypeOK
  <2>2. cursor' \in {cursor, cursor + 1}
    BY <1>2
  <2>3. ASSUME NEW q \in Procs, NEW u \in Threads, At(q, u, "emit")'
        PROVE  /\ frame'[q][u].cursor < cursor'
               /\ code'[frame'[q][u].cursor + 1] = NoCode
    <3>1. CASE q = p /\ u = t
      BY <1>1, <1>2, <2>1, <2>3, <3>1 DEF IInv, SlotInv, At
    <3>2. CASE q # p \/ u # t
      BY <1>1, <1>2, <2>1, <2>2, <2>3, <3>2 DEF IInv, Others, SlotInv, At
    <3> QED
      BY <3>1, <3>2
  <2>4. ASSUME NEW q \in Procs, NEW r \in Procs, NEW u \in Threads,
               NEW v \in Threads, At(q, u, "emit")', At(r, v, "emit")',
               frame'[q][u].cursor = frame'[r][v].cursor
        PROVE  q = r /\ u = v
    BY <1>2, <2>1, <2>4 DEF IInv, Others, SlotInv, At
  <2> QED
    BY <1>1, <2>1, <2>2, <2>3, <2>4 DEF IInv, SlotInv
<1>5. FrameInv'
  <2> DEFINE h == frame[p][t].hook
  <2>1. h \in Hooks /\ h # "none" /\ hook[p][h].state = "none"
    BY <1>1, HookArenaAssumption DEF IInv, FrameInv, CallInv
  <2>2. Local(p, t, h)
    BY <1>1, <1>2 DEF IInv, TypeOK, Local, Beside
  <2>3. CallInv(p, t)'
    BY <1>1, <1>2, <2>1 DEF CallInv, Toggles
  <2> HIDE DEF h
  <2> QED
    BY <1>1, <2>1, <2>2, <2>3, FrameKept DEF IInv
<1>6. AloneInv'
  BY <1>1, <1>2 DEF IInv, Others, AloneInv, Toggles
<1>7. CodeInv' /\ StateIsText'
  BY <1>1 DEF IInv, CodeInv, StateIsText
<1>8. InsideInv'
  BY <1>1, <1>2 DEF IInv, Others, InsideInv, Handle
<1>9. ListInv'
  <2> DEFINE h == frame[p][t].hook
  <2>1. Local(p, t, h) /\ BoundInv(p, t)'
    BY <1>1, <1>2 DEF IInv, TypeOK, Local, Beside, BoundInv
  <2>2. \A q \in Procs : Listed(q) = Listed(q)'
    BY <1>1 DEF Listed
  <2>3. hook[p][h].state = "none" /\ h # "none"
    BY <1>1, HookArenaAssumption DEF IInv, FrameInv, CallInv
  <2>4. \A u \in Threads : u # t => frame[p][u].hook # h
    BY <2>3, Alone DEF IInv
  <2> HIDE DEF h
  <2>5. hook'[p][h].state = "none" /\ h \in Hooks
    BY <1>1, <2>3 DEF h
  <2> QED
    BY <2>1, <2>2, <2>4, <2>5, ListKept DEF IInv
<1> QED
  BY <1>3, <1>4, <1>5, <1>6, <1>7, <1>8, <1>9 DEF IInv

LEMMA EmitStep ==
  ASSUME IInv, NEW p \in Procs, NEW t \in Threads, Emit(p, t)
  PROVE  IInv'
<1> DEFINE h == frame[p][t].hook
           s == frame[p][t].cursor + 1
<1>0. /\ frame[p][t].at = "emit"
      /\ UNCHANGED <<cursor, alive, text, list, inside, returned>>
  BY DEF Emit, At
<1>a. h \in Hooks /\ h # "none" /\ hook[p][h].state = "none"
  BY <1>0, CallOf, HookArenaAssumption DEF IInv, FrameInv, CallInv
<1>b. /\ s \in 1..Slots /\ s <= cursor /\ code[s] = NoCode /\ cursor \in Nat
  BY <1>0, CallOf, HookArenaAssumption DEF IInv, At, SlotInv, TypeOK
<1>c. \A u \in Threads : u # t => frame[p][u].hook # h
  BY <1>a, Alone DEF IInv
<1>1. /\ frame[p][t].at = "emit" /\ h \in Hooks /\ hook[p][h].state = "none"
      /\ s \in 1..Slots /\ s <= cursor /\ code[s] = NoCode /\ cursor \in Nat
      /\ UNCHANGED <<cursor, alive, text, list, inside, returned>>
  BY <1>0, <1>a, <1>b
<1>2. CASE Return(p, t) /\ UNCHANGED <<code, hook>>
  <2>1. /\ frame' \in [Procs -> [Threads -> CallType]] /\ Others(p, t)
        /\ frame'[p][t].at = "idle" /\ frame'[p][t].hook = "none"
    BY <1>2, ReturnEffect DEF IInv
  <2>3. TypeOK'
    BY <1>1, <1>2, <2>1 DEF IInv, TypeOK
  <2>4. SlotInv'
    BY <1>1, <1>2, <2>1, SlotKept DEF IInv, Others
  <2>5. FrameInv'
    <3>1. CallInv(p, t)'
      BY <2>1 DEF CallInv, Toggles
    <3>2. Local(p, t, h)
      BY <1>2, <2>1 DEF IInv, TypeOK, Local, Beside
    <3> HIDE DEF h, s
    <3> QED
      BY <1>1, <1>2, <3>1, <3>2, FrameKept DEF IInv
  <2>6. AloneInv'
    BY <1>1, <1>2, <2>1 DEF IInv, Others, AloneInv, Toggles
  <2>7. CodeInv' /\ StateIsText'
    BY <1>1, <1>2 DEF IInv, CodeInv, StateIsText
  <2>8. InsideInv'
    BY <1>1, <1>2, <2>1 DEF IInv, Others, InsideInv, Handle
  <2>9. ListInv'
    BY <1>1, <1>2, <2>1 DEF IInv, Others, ListInv, BoundInv, Handle, Listed
  <2> QED
    BY <2>3, <2>4, <2>5, <2>6, <2>7, <2>8, <2>9 DEF IInv
<1>3. CASE /\ code' = [code EXCEPT ![s] = [hook |-> h, proc |-> p]]
           /\ SetHandle(p, h, [state |-> "binding", slot |-> s, by |-> p,
                               published |-> FALSE])
           /\ Call(p, t, "bind", h)
  <2>1. /\ frame' \in [Procs -> [Threads -> CallType]] /\ Others(p, t)
        /\ frame'[p][t].at = "bind" /\ frame'[p][t].hook = h
    BY <1>1, <1>3, BeginEffect DEF IInv
  <2>2. /\ hook' \in [Procs -> [Hooks -> HandleType]] /\ Beside(p, h)
        /\ hook'[p][h].state = "binding" /\ hook'[p][h].slot = s
        /\ hook'[p][h].by = p /\ hook'[p][h].published = FALSE
    <3> DEFINE k == [state |-> "binding", slot |-> s, by |-> p, published |-> FALSE]
    <3>1. k \in HandleType /\ k.state = "binding" /\ k.slot = s /\ k.by = p
          /\ k.published = FALSE
      BY <1>1 DEF HandleType
    <3>2. SetHandle(p, h, k)
      BY <1>3
    <3> HIDE DEF k, s, h
    <3> QED
      BY <1>1, <3>1, <3>2, HandleEffect DEF IInv, Beside
  <2>a. /\ code'[s] = [hook |-> h, proc |-> p]
        /\ \A r \in 1..Slots : r # s => code'[r] = code[r]
        /\ code' \in [1..Slots -> [hook : Hooks \cup {"none"},
                                   proc : Procs \cup {"none"}]]
    BY <1>1, <1>3 DEF IInv, TypeOK
  <2>b. \A q \in Procs, g \in Hooks :
          hook[q][g].state # "none" => hook[q][g].slot # s
    <3>1. ASSUME NEW q \in Procs, NEW g \in Hooks, hook[q][g].state # "none",
                 hook[q][g].slot = s
          PROVE  FALSE
      <4>1. NoCode = [hook |-> g, proc |-> hook[q][g].by]
        BY <1>1, <3>1 DEF IInv, CodeInv
      <4>2. NoCode.hook = "none" /\ [hook |-> g, proc |-> hook[q][g].by].hook = g
        BY DEF NoCode
      <4> QED
        BY <4>1, <4>2, HookArenaAssumption
    <3> QED
      BY <3>1
  <2> HIDE DEF h, s
  <2>3. TypeOK'
    BY <1>1, <2>1, <2>2, <2>a DEF IInv, TypeOK
  <2>4. SlotInv'
    <3>1. ASSUME NEW q \in Procs, NEW u \in Threads, At(q, u, "emit")'
          PROVE  /\ frame'[q][u] = frame[q][u] /\ (q # p \/ u # t)
                 /\ frame[q][u].cursor + 1 # s
                 /\ frame[q][u].cursor + 1 \in 1..Slots
      <4>1. q # p \/ u # t
        BY <2>1, <3>1 DEF At
      <4>2. frame'[q][u] = frame[q][u] /\ frame[q][u].at = "emit"
        BY <2>1, <3>1, <4>1 DEF Others, At
      <4>3. frame[q][u].cursor # frame[p][t].cursor /\ frame[q][u].cursor < cursor
        BY <1>1, <4>1, <4>2 DEF IInv, SlotInv, At
      <4>4. /\ frame[q][u].cursor \in 0..Slots /\ frame[p][t].cursor \in 0..Slots
            /\ cursor \in 0..Slots /\ Slots \in Nat
        BY Fields, HookArenaAssumption DEF IInv, TypeOK
      <4> QED
        BY <4>1, <4>2, <4>3, <4>4 DEF s
    <3>2. ASSUME NEW q \in Procs, NEW u \in Threads, At(q, u, "emit")'
          PROVE  /\ frame'[q][u].cursor < cursor'
                 /\ code'[frame'[q][u].cursor + 1] = NoCode
      BY <1>1, <2>a, <3>1, <3>2 DEF IInv, SlotInv, At
    <3>3. ASSUME NEW q \in Procs, NEW r \in Procs, NEW u \in Threads,
                 NEW v \in Threads, At(q, u, "emit")', At(r, v, "emit")',
                 frame'[q][u].cursor = frame'[r][v].cursor
          PROVE  q = r /\ u = v
      BY <3>1, <3>3 DEF IInv, SlotInv, At
    <3>4. \A r \in 1..Slots : r > cursor' => code'[r] = NoCode
      BY <1>1, <2>a DEF IInv, SlotInv
    <3> QED
      BY <3>2, <3>3, <3>4 DEF SlotInv
  <2>c. Local(p, t, h) /\ (\A u \in Threads : u # t => frame[p][u].hook # h)
        /\ text' = text
    BY <1>1, <1>c, <2>1, <2>2 DEF Local, h
  <2>5. FrameInv'
    <3>1. CallInv(p, t)'
      BY <1>a, <2>1, <2>2 DEF CallInv, Toggles
    <3> QED
      BY <1>1, <2>c, <3>1, FrameKept DEF IInv
  <2>6. AloneInv'
    BY <1>1, <2>1, <2>c, AloneKept DEF IInv
  <2>7. CodeInv' /\ StateIsText'
    BY <1>1, <2>2, <2>a, <2>b DEF IInv, Beside, CodeInv, StateIsText
  <2>8. InsideInv'
    BY <1>1, <2>c, InsideKept DEF IInv, Handle
  <2>9. ListInv'
    <3>1. BoundInv(p, t)'
      BY <2>1, <2>2 DEF BoundInv
    <3>2. \A q \in Procs : Listed(q) \subseteq Listed(q)'
      BY <1>1 DEF Listed
    <3> QED
      BY <1>1, <2>2, <2>c, <3>1, <3>2, ListKept DEF IInv
  <2> QED
    BY <2>3, <2>4, <2>5, <2>6, <2>7, <2>8, <2>9 DEF IInv
<1> QED
  BY <1>2, <1>3 DEF Emit

LEMMA BindStep ==
  ASSUME IInv, NEW p \in Procs, NEW t \in Threads, Bind(p, t)
  PROVE  IInv'
<1> DEFINE h == frame[p][t].hook
<1>1. /\ frame[p][t].at = "bind" /\ h \in Hooks /\ hook[p][h].state = "binding"
      /\ hook[p][h] \in HandleType
      /\ UNCHANGED <<cursor, code, alive, text, list, inside, returned>>
  BY CallOf DEF IInv, Bind, At, Discard, FrameInv, CallInv
<1>2. \A u \in Threads : u # t => frame[p][u].hook # h
  BY <1>1, Alone, HookArenaAssumption DEF IInv
<1>3. /\ Local(p, t, h) /\ frame'[p][t].hook \in {h, "none"}
      /\ \/ /\ frame'[p][t].at = "idle" /\ frame'[p][t].hook = "none"
            /\ \/ hook'[p][h].state = "none"
               \/ /\ h \in Explicit /\ hook'[p][h].state = "inactive"
                  /\ hook'[p][h].slot = hook[p][h].slot
                  /\ hook'[p][h].by = hook[p][h].by
         \/ /\ frame'[p][t].at = "swap" /\ frame'[p][t].hook = h
            /\ hook' = hook
  <2>1. CASE Discard(p, h) /\ Return(p, t)
    <3>1. SetHandle(p, h, NoHook) /\ NoHook \in HandleType /\ NoHook.state = "none"
      BY <2>1, Empty DEF Discard
    <3> HIDE DEF NoHook, h
    <3> QED
      BY <1>1, <2>1, <3>1, HandleEffect, ReturnEffect DEF IInv, Local, Beside
  <2>2. CASE h \in Explicit /\ SetState(p, h, "inactive") /\ Return(p, t)
    <3> HIDE DEF h
    <3> QED
      BY <1>1, <2>2, StateEffect, ReturnEffect DEF IInv, Local
  <2>3. CASE Goto(p, t, "swap") /\ UNCHANGED hook
    BY <1>1, <2>3, GotoEffect DEF IInv, TypeOK, Local, Beside
  <2> QED
    BY <2>1, <2>2, <2>3 DEF Bind
<1> HIDE DEF h
<1>4. TypeOK'
  BY <1>1, <1>3 DEF IInv, TypeOK, Local
<1>5. SlotInv'
  BY <1>1, <1>3, SlotKept DEF IInv, Local, Others
<1>6. FrameInv'
  <2>1. CallInv(p, t)'
    BY <1>1, <1>3, HookArenaAssumption DEF CallInv, Toggles
  <2> QED
    BY <1>1, <1>2, <1>3, <2>1, FrameKept DEF IInv
<1>7. AloneInv'
  BY <1>1, <1>2, <1>3, AloneKept DEF IInv
<1>8. CodeInv' /\ StateIsText'
  <2>1. text[p][h] = "original"
    BY <1>1 DEF IInv, StateIsText
  <2> QED
    BY <1>1, <1>3, <2>1 DEF IInv, Local, Beside, CodeInv, StateIsText
<1>9. InsideInv'
  BY <1>1, <1>3, InsideKept DEF IInv, Handle
<1>10. ListInv'
  <2>1. BoundInv(p, t) /\ frame[p][t].hook = h
    BY DEF IInv, ListInv, h
  <2>2. BoundInv(p, t)'
    BY <1>1, <1>3, <2>1 DEF BoundInv
  <2>3. \A q \in Procs : Listed(q) = Listed(q)'
    BY <1>1 DEF Listed
  <2> QED
    BY <1>1, <1>2, <1>3, <2>2, <2>3, ListKept DEF IInv
<1> QED
  BY <1>4, <1>5, <1>6, <1>7, <1>8, <1>9, <1>10 DEF IInv

LEMMA BeginPublishStep ==
  ASSUME IInv, NEW p \in Procs, NEW t \in Threads, NEW h \in Hooks,
         BeginPublish(p, t, h)
  PROVE  IInv'
<1>1. /\ frame[p][t].at = "idle" /\ h \in Explicit
      /\ hook[p][h].state \notin {"none", "binding"}
      /\ UNCHANGED <<cursor, code, alive, hook, text, list, inside, returned>>
  BY DEF BeginPublish, At, Handle, shared
<1>2. /\ Local(p, t, h)
      /\ frame'[p][t].at = "swap" /\ frame'[p][t].hook = h
  <2>1. Call(p, t, "swap", h)
    BY DEF BeginPublish
  <2> QED
    BY <1>1, <2>1, BeginEffect DEF IInv, TypeOK, Local, Beside
<1>3. TypeOK'
  BY <1>1, <1>2 DEF IInv, TypeOK, Local
<1>4. SlotInv'
  BY <1>1, <1>2, SlotKept DEF IInv, Local, Others
<1>5. FrameInv'
  <2>1. CallInv(p, t)'
    BY <1>1, <1>2, HookArenaAssumption DEF CallInv, Toggles
  <2> QED
    BY <1>1, <1>2, <2>1, FrameKept DEF IInv
<1>6. AloneInv'
  BY <1>1, <1>2, AloneKept DEF IInv, Toggles
<1>7. CodeInv' /\ StateIsText'
  BY <1>1 DEF IInv, CodeInv, StateIsText
<1>8. InsideInv'
  BY <1>1, <1>2, InsideKept DEF IInv
<1>9. ListInv'
  <2>1. BoundInv(p, t)'
    BY <1>1, <1>2 DEF BoundInv
  <2>2. \A q \in Procs : Listed(q) = Listed(q)'
    BY <1>1 DEF Listed
  <2> QED
    BY <1>1, <1>2, <2>1, <2>2, ListKept DEF IInv
<1> QED
  BY <1>3, <1>4, <1>5, <1>6, <1>7, <1>8, <1>9 DEF IInv

\* The end of a publication.
LEMMA PublishedEffect ==
  ASSUME TypeOK, NEW p \in Procs, NEW t \in Threads, NEW h \in Hooks,
         h = frame[p][t].hook, Published(p, t)
  PROVE  /\ Local(p, t, h)
         /\ frame'[p][t].at = "idle" /\ frame'[p][t].hook = "none"
         /\ hook'[p][h].slot = hook[p][h].slot /\ hook'[p][h].by = hook[p][h].by
         /\ hook'[p][h].state = IF hook[p][h].state = "binding" THEN "inactive"
                                ELSE hook[p][h].state
         /\ returned' \in [Procs -> SUBSET Explicit]
<1>1. returned' \in [Procs -> SUBSET Explicit]
  BY DEF TypeOK, Published
<1>2. CASE hook[p][h].state = "binding"
  <2>1. SetState(p, h, "inactive") /\ Return(p, t)
    BY <1>2 DEF Published
  <2> QED
    BY <1>1, <1>2, <2>1, StateEffect, ReturnEffect DEF Local
<1>3. CASE hook[p][h].state # "binding"
  <2>1. hook' = hook /\ Return(p, t)
    BY <1>3 DEF Published
  <2> QED
    BY <1>1, <1>3, <2>1, ReturnEffect DEF TypeOK, Local, Beside
<1> QED
  BY <1>2, <1>3

\* What Swap and Push do to the handle, the call and the list.
LEMMA PublishEffect ==
  ASSUME IInv, NEW p \in Procs, NEW t \in Threads, NEW h \in Hooks,
         h = frame[p][t].hook, Swap(p, t) \/ Push(p, t)
  PROVE  /\ Local(p, t, h)
         /\ hook'[p][h].slot = hook[p][h].slot /\ hook'[p][h].by = hook[p][h].by
         /\ returned' \in [Procs -> SUBSET Explicit]
         /\ list' \in [Procs -> Seq(Hooks)]
         /\ \A q \in Procs : Listed(q) \subseteq Listed(q)'
         /\ UNCHANGED <<cursor, code, alive, text, inside>>
         /\ \/ /\ frame'[p][t].at = "idle" /\ frame'[p][t].hook = "none"
               /\ hook'[p][h].state = IF hook[p][h].state = "binding"
                                      THEN "inactive" ELSE hook[p][h].state
               /\ \/ frame[p][t].at = "swap" /\ hook[p][h].published
                  \/ h \in Listed(p)'
            \/ /\ frame'[p][t].at = "push" /\ frame'[p][t].hook = h
               /\ hook'[p][h].state = hook[p][h].state
<1>0. /\ UNCHANGED <<cursor, code, alive, text, inside>>
      /\ frame[p][t] \in CallType /\ hook[p][h] \in HandleType
      /\ list \in [Procs -> Seq(Hooks)] /\ returned \in [Procs -> SUBSET Explicit]
  BY SMTT(30) DEF Swap, Push, shared, IInv, TypeOK
<1>1. CASE Swap(p, t)
  <2>1. /\ list' = list /\ frame[p][t].at = "swap"
        /\ \A q \in Procs : Listed(q) \subseteq Listed(q)'
    BY <1>1 DEF Swap, At, Listed
  <2>2. CASE hook[p][h].published /\ Published(p, t)
    <3>1. /\ Local(p, t, h)
          /\ frame'[p][t].at = "idle" /\ frame'[p][t].hook = "none"
          /\ hook'[p][h].slot = hook[p][h].slot /\ hook'[p][h].by = hook[p][h].by
          /\ hook'[p][h].state = IF hook[p][h].state = "binding" THEN "inactive"
                                 ELSE hook[p][h].state
          /\ returned' \in [Procs -> SUBSET Explicit]
      BY <2>2, PublishedEffect, SMTT(30) DEF IInv
    <3> QED
      BY <1>0, <2>1, <2>2, <3>1
  <2>3. CASE /\ SetHandle(p, h, [hook[p][h] EXCEPT !.published = TRUE])
             /\ Continue(p, t, [frame[p][t] EXCEPT !.at = "push", !.head = list[p]])
             /\ UNCHANGED returned
    <3> DEFINE k == [hook[p][h] EXCEPT !.published = TRUE]
               f == [frame[p][t] EXCEPT !.at = "push", !.head = list[p]]
    <3>1. /\ k \in HandleType /\ k.state = hook[p][h].state
          /\ k.slot = hook[p][h].slot /\ k.by = hook[p][h].by
      BY <1>0 DEF HandleType
    <3>2. f \in CallType /\ f.at = "push" /\ f.hook = h
      BY <1>0 DEF CallType
    <3>3. SetHandle(p, h, k) /\ Continue(p, t, f)
      BY <2>3
    <3> HIDE DEF k, f
    <3>4. /\ hook' \in [Procs -> [Hooks -> HandleType]] /\ Beside(p, h)
          /\ hook'[p][h] = k
      BY <3>1, <3>3, HandleEffect DEF IInv, Beside
    <3>5. /\ frame' \in [Procs -> [Threads -> CallType]] /\ Others(p, t)
          /\ frame'[p][t] = f
      BY <3>2, <3>3, CallEffect DEF IInv, Others
    <3>6. Local(p, t, h)
      BY <3>4, <3>5, SMTT(30) DEF Local
    <3> QED
      BY <1>0, <2>1, <2>3, <3>1, <3>2, <3>4, <3>5, <3>6
  <2> QED
    BY <1>1, <2>2, <2>3 DEF Swap
<1>2. CASE Push(p, t)
  <2>1. frame[p][t].at = "push" /\ frame[p][t].head \in Seq(Hooks)
    BY <1>0, <1>2, Fields DEF Push, At
  <2>2. CASE /\ list[p] = frame[p][t].head
             /\ list' = [list EXCEPT ![p] = <<h>> \o frame[p][t].head]
             /\ Published(p, t)
    <3>1. list'[p] = <<h>> \o list[p]
          /\ \A q \in Procs : q # p => list'[q] = list[q]
      BY <1>0, <2>2
    <3>2. /\ list'[p] \in Seq(Hooks) /\ \E i \in DOMAIN list'[p] : list'[p][i] = h
          /\ \A i \in DOMAIN list[p] : \E j \in DOMAIN list'[p] :
               list'[p][j] = list[p][i]
      <4> DEFINE old == list[p]
                 new == list'[p]
      <4>1. old \in Seq(Hooks) /\ new = <<h>> \o old
        BY <1>0, <3>1
      <4> HIDE DEF old, new
      <4>2. /\ new \in Seq(Hooks) /\ Len(old) \in Nat
            /\ Len(new) = Len(old) + 1 /\ new[1] = h
            /\ DOMAIN old = 1..Len(old) /\ DOMAIN new = 1..Len(new)
            /\ \A j \in 2..Len(new) : new[j] = old[j - 1]
        BY <4>1
      <4>3. 1 \in DOMAIN new
        BY <4>2
      <4>4. ASSUME NEW i \in DOMAIN old
            PROVE  \E j \in DOMAIN new : new[j] = old[i]
        <5>1. i + 1 \in DOMAIN new /\ new[i + 1] = old[i]
          BY <4>2
        <5> QED
          BY <5>1
      <4>5. /\ new \in Seq(Hooks) /\ \E i \in DOMAIN new : new[i] = h
            /\ \A i \in DOMAIN old : \E j \in DOMAIN new : new[j] = old[i]
        BY <4>2, <4>3, <4>4
      <4> QED
        BY <4>5 DEF old, new
    <3>3. list' \in [Procs -> Seq(Hooks)]
      BY <1>0, <2>2, <3>1, <3>2
    <3>4. h \in Listed(p)' /\ \A q \in Procs : Listed(q) \subseteq Listed(q)'
      <4>1. h \in Listed(p)' /\ Listed(p) \subseteq Listed(p)'
        BY <3>2 DEF Listed
      <4>2. \A q \in Procs : q # p => Listed(q)' = Listed(q)
        BY <3>1 DEF Listed
      <4> QED
        BY <4>1, <4>2
    <3>5. /\ Local(p, t, h)
          /\ frame'[p][t].at = "idle" /\ frame'[p][t].hook = "none"
          /\ hook'[p][h].slot = hook[p][h].slot /\ hook'[p][h].by = hook[p][h].by
          /\ hook'[p][h].state = IF hook[p][h].state = "binding" THEN "inactive"
                                 ELSE hook[p][h].state
          /\ returned' \in [Procs -> SUBSET Explicit]
      BY <2>2, PublishedEffect DEF IInv
    <3> QED
      BY <1>0, <3>3, <3>4, <3>5
  <2>3. CASE /\ Continue(p, t, [frame[p][t] EXCEPT !.head = list[p]])
             /\ UNCHANGED <<list, hook, returned>>
    <3> DEFINE f == [frame[p][t] EXCEPT !.head = list[p]]
    <3>1. f \in CallType /\ f.at = "push" /\ f.hook = h
      BY <1>0, <2>1 DEF CallType
    <3>2. Continue(p, t, f)
      BY <2>3
    <3>3. \A q \in Procs : Listed(q) \subseteq Listed(q)'
      BY <2>3 DEF Listed
    <3> HIDE DEF f
    <3>4. /\ frame' \in [Procs -> [Threads -> CallType]] /\ Others(p, t)
          /\ frame'[p][t] = f
      BY <3>1, <3>2, CallEffect DEF IInv, Others
    <3>5. Local(p, t, h)
      BY <2>3, <3>4 DEF IInv, TypeOK, Local, Beside
    <3> QED
      BY <1>0, <2>3, <3>1, <3>3, <3>4, <3>5
  <2> QED
    BY <1>2, <2>2, <2>3 DEF Push, Unmoved
<1> QED
  BY <1>1, <1>2

LEMMA PublishStep ==
  ASSUME IInv, NEW p \in Procs, NEW t \in Threads, Swap(p, t) \/ Push(p, t)
  PROVE  IInv'
<1> DEFINE h == frame[p][t].hook
<1>1. /\ frame[p][t].at \in {"swap", "push"} /\ h \in Hooks
      /\ hook[p][h].state # "none"
      /\ BoundInv(p, t)
  BY CallOf DEF IInv, Swap, Push, At, FrameInv, CallInv, ListInv
<1>2. \A u \in Threads : u # t /\ frame[p][u].hook = h =>
        hook[p][h].state \notin {"none", "binding"} /\ h \in Explicit
  BY <1>1, HookArenaAssumption DEF IInv, AloneInv, BoundInv
<1>3. h = frame[p][t].hook
  OBVIOUS
<1> HIDE DEF h
<1>4. /\ Local(p, t, h) /\ frame'[p][t].hook \in {h, "none"}
      /\ hook'[p][h].slot = hook[p][h].slot /\ hook'[p][h].by = hook[p][h].by
      /\ hook'[p][h].state \in {hook[p][h].state, "inactive"}
      /\ hook[p][h].state # "binding" => hook'[p][h].state = hook[p][h].state
      /\ frame'[p][t].at \in {"idle", "push"}
      /\ frame'[p][t].at = "idle" <=> frame'[p][t].hook = "none"
      /\ frame'[p][t].at = "push" => hook'[p][h].state = hook[p][h].state
      /\ \/ frame'[p][t].at = "push" \/ h \in Listed(p)'
         \/ frame[p][t].at = "swap" /\ hook[p][h].published
      /\ \A q \in Procs : Listed(q) \subseteq Listed(q)'
      /\ returned' \in [Procs -> SUBSET Explicit]
      /\ list' \in [Procs -> Seq(Hooks)]
      /\ UNCHANGED <<cursor, code, alive, text, inside>>
  <2>1. h # "none"
    BY <1>1, HookArenaAssumption
  <2>2. /\ Local(p, t, h)
        /\ hook'[p][h].slot = hook[p][h].slot /\ hook'[p][h].by = hook[p][h].by
        /\ returned' \in [Procs -> SUBSET Explicit]
        /\ list' \in [Procs -> Seq(Hooks)]
        /\ \A q \in Procs : Listed(q) \subseteq Listed(q)'
        /\ UNCHANGED <<cursor, code, alive, text, inside>>
    BY <1>1, <1>3, PublishEffect
  <2>3. \/ /\ frame'[p][t].at = "idle" /\ frame'[p][t].hook = "none"
           /\ hook'[p][h].state = IF hook[p][h].state = "binding"
                                  THEN "inactive" ELSE hook[p][h].state
           /\ \/ frame[p][t].at = "swap" /\ hook[p][h].published
              \/ h \in Listed(p)'
        \/ /\ frame'[p][t].at = "push" /\ frame'[p][t].hook = h
           /\ hook'[p][h].state = hook[p][h].state
    BY <1>1, <1>3, PublishEffect
  <2> QED
    BY <2>1, <2>2, <2>3
<1>5. TypeOK'
  BY <1>4 DEF IInv, TypeOK, Local
<1>6. SlotInv'
  BY <1>4, SlotKept DEF IInv, Local, Others
<1>7. FrameInv'
  <2>1. CallInv(p, t)'
    BY <1>1, <1>4 DEF CallInv, Toggles
  <2> QED
    BY <1>1, <1>2, <1>4, <2>1, FrameKept DEF IInv
<1>8. AloneInv'
  BY <1>1, <1>2, <1>4, AloneKept DEF IInv, Toggles
<1>9. CodeInv' /\ StateIsText'
  <2>1. hook[p][h].state = "binding" => text[p][h] = "original"
    BY <1>1 DEF IInv, StateIsText
  <2>2. CodeInv'
    BY <1>1, <1>4, CodeKept DEF IInv, Local
  <2>3. hook[p][h].state = "inactive" => text[p][h] = "original"
    BY <1>1 DEF IInv, StateIsText
  <2>4. hook[p][h].state = "active" => text[p][h] = "jump"
    BY <1>1 DEF IInv, StateIsText
  <2>5. StateIsText'
    BY <1>1, <1>4, <2>1, <2>3, <2>4, TextKept DEF IInv, Local
  <2> QED
    BY <2>2, <2>5
<1>10. InsideInv'
  BY <1>1, <1>4, InsideKept DEF IInv, Handle
<1>11. ListInv'
  <2>1. BoundInv(p, t)'
    BY <1>1, <1>3, <1>4 DEF BoundInv
  <2>2. h \notin Explicit /\ hook'[p][h].state \notin {"none", "binding"} =>
          h \in Listed(p)'
    BY <1>1, <1>3, <1>4 DEF BoundInv
  <2> QED
    BY <1>1, <1>2, <1>4, <2>1, <2>2, ListKept DEF IInv
<1> QED
  BY <1>5, <1>6, <1>7, <1>8, <1>9, <1>10, <1>11 DEF IInv

LEMMA BeginToggleStep ==
  ASSUME IInv, NEW p \in Procs, NEW t \in Threads, NEW h \in Hooks,
         NEW to \in {"active", "inactive"}, BeginToggle(p, t, h, to)
  PROVE  IInv'
<1> DEFINE w == IF to = "active" THEN "apply" ELSE "revert"
<1>1. /\ frame[p][t].at = "idle" /\ w \in {"apply", "revert"}
      /\ hook[p][h].state = IF w = "apply" THEN "inactive" ELSE "active"
      /\ UNCHANGED <<cursor, code, alive, text, list, inside, returned>>
  BY DEF BeginToggle, At, shared
<1>2. /\ Local(p, t, h) /\ frame'[p][t].at = w /\ frame'[p][t].hook = h
      /\ hook'[p][h].state = "transitioning"
      /\ hook'[p][h].slot = hook[p][h].slot /\ hook'[p][h].by = hook[p][h].by
  <2>1. SetState(p, h, "transitioning") /\ Call(p, t, w, h)
    BY DEF BeginToggle
  <2> HIDE DEF w
  <2> QED
    BY <1>1, <2>1, BeginEffect, StateEffect DEF IInv, Local
<1> HIDE DEF w
<1>3. \A u \in Threads : u # t /\ frame[p][u].hook = h =>
        frame[p][u].at \in {"swap", "push"} /\ h \in Explicit
  <2>1. ASSUME NEW u \in Threads, frame[p][u].hook = h
        PROVE  frame[p][u].at \in {"swap", "push"} /\ h \in Explicit
    <3>1. CallInv(p, u) /\ BoundInv(p, u) /\ frame[p][u] \in CallType
      BY DEF IInv, FrameInv, ListInv, TypeOK
    <3>2. hook[p][h].state \in {"inactive", "active"} /\ h # "none"
      BY <1>1, HookArenaAssumption
    <3>3. frame[p][u].at \in {"swap", "push"}
      BY <2>1, <3>1, <3>2, Fields DEF CallInv, Toggles
    <3> QED
      BY <2>1, <3>1, <3>2, <3>3 DEF BoundInv
  <2> QED
    BY <2>1
<1>4. TypeOK'
  BY <1>1, <1>2 DEF IInv, TypeOK, Local
<1>5. SlotInv'
  BY <1>1, <1>2, SlotKept DEF IInv, Local, Others
<1>6. FrameInv'
  <2>1. text[p][h] = IF w = "apply" THEN "original" ELSE "jump"
    BY <1>1 DEF IInv, StateIsText
  <2>2. CallInv(p, t)'
    BY <1>1, <1>2, <2>1, HookArenaAssumption DEF CallInv, Toggles
  <2> QED
    BY <1>1, <1>2, <1>3, <2>2, FrameKept DEF IInv
<1>7. AloneInv'
  BY <1>1, <1>2, <1>3, AloneKept DEF IInv, Toggles
<1>8. CodeInv'
  BY <1>1, <1>2, CodeKept DEF IInv, Local
<1>9. StateIsText'
  BY <1>1, <1>2, TextKept DEF IInv, Local
<1>10. InsideInv'
  BY <1>1, <1>2, InsideKept DEF IInv
<1>11. ListInv'
  <2>1. BoundInv(p, t)'
    BY <1>1, <1>2 DEF BoundInv
  <2>2. \A q \in Procs : Listed(q) = Listed(q)'
    BY <1>1 DEF Listed
  <2>3. h \notin Explicit => h \in Listed(p)
    BY <1>1 DEF IInv, ListInv, Handle
  <2> QED
    BY <1>2, <1>3, <2>1, <2>2, <2>3, ListKept DEF IInv
<1> QED
  BY <1>4, <1>5, <1>6, <1>7, <1>8, <1>9, <1>10, <1>11 DEF IInv

\* What ToggleText and ToggleState do: the bytes agree with the call, or the
\* call has returned and they agree with the state.
LEMMA ToggleEffect ==
  ASSUME IInv, NEW p \in Procs, NEW t \in Threads, NEW h \in Hooks,
         h = frame[p][t].hook, ToggleText(p, t) \/ ToggleState(p, t)
  PROVE  /\ Local(p, t, h) /\ frame[p][t].at \in Toggles
         /\ hook'[p][h].slot = hook[p][h].slot /\ hook'[p][h].by = hook[p][h].by
         /\ text' \in [Procs -> [Hooks -> {"original", "jump"}]]
         /\ \A q \in Procs, g \in Hooks : q # p \/ g # h => text'[q][g] = text[q][g]
         /\ UNCHANGED <<cursor, code, alive, list, inside, returned>>
         /\ \/ /\ frame'[p][t].at = "idle" /\ frame'[p][t].hook = "none"
               /\ hook'[p][h].state \in {"active", "inactive"}
               /\ text'[p][h] = IF hook'[p][h].state = "active" THEN "jump"
                                ELSE "original"
            \/ /\ frame'[p][t].at \in {"applied", "reverted"}
               /\ frame'[p][t].hook = h /\ hook'[p][h].state = "transitioning"
               /\ text'[p][h] = IF frame'[p][t].at = "applied" THEN "jump"
                                ELSE "original"
<1>1. /\ frame[p][t].at \in Toggles /\ hook[p][h].state = "transitioning"
      /\ frame[p][t].at \in {"apply", "reverted"} => text[p][h] = "original"
      /\ frame[p][t].at \in {"revert", "applied"} => text[p][h] = "jump"
      /\ hook \in [Procs -> [Hooks -> HandleType]]
      /\ text \in [Procs -> [Hooks -> {"original", "jump"}]]
      /\ UNCHANGED <<cursor, code, alive, list, inside, returned>>
  BY DEF ToggleText, ToggleState, Toggles, shared, IInv, FrameInv, CallInv, TypeOK
<1>2. CASE /\ frame[p][t].at \in {"apply", "revert"}
           /\ text' = [text EXCEPT ![p][h] =
                 IF At(p, t, "apply") THEN "jump" ELSE "original"]
           /\ Goto(p, t, IF At(p, t, "apply") THEN "applied" ELSE "reverted")
           /\ UNCHANGED hook
  <2> DEFINE w == IF At(p, t, "apply") THEN "applied" ELSE "reverted"
             b == IF At(p, t, "apply") THEN "jump" ELSE "original"
  <2>1. /\ w \in {"applied", "reverted"} /\ b \in {"jump", "original"}
        /\ b = IF w = "applied" THEN "jump" ELSE "original"
        /\ Goto(p, t, w) /\ text' = [text EXCEPT ![p][h] = b]
    BY <1>2
  <2> HIDE DEF w, b
  <2>2. /\ text' \in [Procs -> [Hooks -> {"original", "jump"}]]
        /\ text'[p][h] = b
        /\ \A q \in Procs, g \in Hooks : q # p \/ g # h => text'[q][g] = text[q][g]
    BY <1>1, <2>1
  <2>3. Local(p, t, h) /\ frame'[p][t].at = w /\ frame'[p][t].hook = h
    BY <1>1, <1>2, <2>1, GotoEffect DEF IInv, Local, Beside
  <2> QED
    BY <1>1, <1>2, <2>1, <2>2, <2>3
<1>3. ASSUME NEW w \in {"active", "inactive"}, SetState(p, h, w), Return(p, t),
             text' = text, text[p][h] = IF w = "active" THEN "jump" ELSE "original"
      PROVE  /\ Local(p, t, h)
             /\ hook'[p][h].slot = hook[p][h].slot /\ hook'[p][h].by = hook[p][h].by
             /\ text' \in [Procs -> [Hooks -> {"original", "jump"}]]
             /\ frame'[p][t].at = "idle" /\ frame'[p][t].hook = "none"
             /\ hook'[p][h].state \in {"active", "inactive"}
             /\ text'[p][h] = IF hook'[p][h].state = "active" THEN "jump"
                              ELSE "original"
  <2>1. /\ hook' \in [Procs -> [Hooks -> HandleType]] /\ Beside(p, h)
        /\ hook'[p][h].state = w /\ hook'[p][h].slot = hook[p][h].slot
        /\ hook'[p][h].by = hook[p][h].by
    BY <1>3, StateEffect DEF IInv
  <2>2. /\ frame' \in [Procs -> [Threads -> CallType]] /\ Others(p, t)
        /\ frame'[p][t].at = "idle" /\ frame'[p][t].hook = "none"
    BY <1>3, ReturnEffect DEF IInv
  <2>3. Local(p, t, h)
    BY <2>1, <2>2 DEF Local
  <2> QED
    BY <1>1, <1>3, <2>1, <2>2, <2>3
<1>4. CASE /\ frame[p][t].at \in {"apply", "revert"}
           /\ SetState(p, h, AfterFailure(p, t)) /\ Return(p, t) /\ text' = text
  <2>1. /\ AfterFailure(p, t) \in {"active", "inactive"}
        /\ text[p][h] = IF AfterFailure(p, t) = "active" THEN "jump" ELSE "original"
    BY <1>1, <1>4 DEF AfterFailure, At
  <2> QED
    BY <1>1, <1>3, <1>4, <2>1
<1>5. CASE ToggleState(p, t)
  <2> DEFINE w == IF At(p, t, "applied") THEN "active" ELSE "inactive"
  <2>1. /\ w \in {"active", "inactive"} /\ SetState(p, h, w) /\ Return(p, t)
        /\ text' = text /\ text[p][h] = IF w = "active" THEN "jump" ELSE "original"
    BY <1>1, <1>5 DEF ToggleState, At
  <2> HIDE DEF w
  <2> QED
    BY <1>1, <1>3, <2>1
<1> QED
  BY <1>2, <1>4, <1>5 DEF ToggleText

LEMMA ToggleStep ==
  ASSUME IInv, NEW p \in Procs, NEW t \in Threads,
         ToggleText(p, t) \/ ToggleState(p, t)
  PROVE  IInv'
<1> DEFINE h == frame[p][t].hook
<1>1. /\ h \in Hooks /\ hook[p][h].state = "transitioning"
  BY CallOf DEF IInv, ToggleText, ToggleState, At, FrameInv, CallInv, Toggles
<1>2. h = frame[p][t].hook
  OBVIOUS
<1> HIDE DEF h
<1>3. /\ Local(p, t, h) /\ frame[p][t].at \in Toggles
      /\ frame'[p][t].hook \in {h, "none"}
      /\ hook'[p][h].slot = hook[p][h].slot /\ hook'[p][h].by = hook[p][h].by
      /\ text' \in [Procs -> [Hooks -> {"original", "jump"}]]
      /\ \A q \in Procs, g \in Hooks : q # p \/ g # h => text'[q][g] = text[q][g]
      /\ UNCHANGED <<cursor, code, alive, list, inside, returned>>
      /\ hook'[p][h].state \in {"active", "inactive", "transitioning"}
      /\ hook'[p][h].state = "active" => text'[p][h] = "jump"
      /\ hook'[p][h].state = "inactive" => text'[p][h] = "original"
      /\ \/ frame'[p][t].at = "idle" /\ frame'[p][t].hook = "none"
         \/ /\ frame'[p][t].at \in {"applied", "reverted"}
            /\ frame'[p][t].hook = h /\ hook'[p][h].state = "transitioning"
            /\ text'[p][h] = IF frame'[p][t].at = "applied" THEN "jump"
                             ELSE "original"
  BY <1>1, <1>2, ToggleEffect
<1>4. \A u \in Threads : u # t /\ frame[p][u].hook = h =>
        frame[p][u].at \in {"swap", "push"} /\ h \in Explicit
  <2>1. ASSUME NEW u \in Threads, u # t, frame[p][u].hook = h
        PROVE  frame[p][u].at \in {"swap", "push"} /\ h \in Explicit
    <3>1. CallInv(p, u) /\ BoundInv(p, u) /\ frame[p][u] \in CallType /\ h # "none"
      BY <1>1, HookArenaAssumption DEF IInv, FrameInv, ListInv, TypeOK
    <3>2. frame[p][u].at \notin Toggles
      BY <1>1, <1>2, <1>3, <2>1, <3>1 DEF IInv, AloneInv
    <3>3. frame[p][u].at \in {"swap", "push"}
      BY <1>1, <2>1, <3>1, <3>2, Fields DEF CallInv, Toggles
    <3> QED
      BY <1>1, <2>1, <3>1, <3>3 DEF BoundInv
  <2> QED
    BY <2>1
<1>5. TypeOK'
  BY <1>3 DEF IInv, TypeOK, Local
<1>6. SlotInv'
  BY <1>3, SlotKept DEF IInv, Local, Others
<1>7. FrameInv'
  <2>1. CallInv(p, t)'
    BY <1>1, <1>3, HookArenaAssumption DEF CallInv, Toggles
  <2> QED
    BY <1>1, <1>3, <1>4, <2>1, FrameKept DEF IInv
<1>8. AloneInv'
  <2>1. \A u \in Threads : u # t /\ frame[p][u].hook = h =>
          /\ hook'[p][h].state \notin {"none", "binding"}
          /\ frame[p][u].at \notin Toggles
    BY <1>3, <1>4 DEF Toggles
  <2> QED
    BY <1>1, <1>3, <2>1, AloneKept DEF IInv
<1>9. CodeInv'
  BY <1>1, <1>3, CodeKept DEF IInv, Local
<1>10. StateIsText'
  BY <1>1, <1>3, TextKept DEF IInv, Local
<1>11. InsideInv'
  BY <1>1, <1>3, InsideKept DEF IInv, Toggles
<1>12. ListInv'
  <2>1. BoundInv(p, t)'
    BY <1>3 DEF BoundInv
  <2>2. \A q \in Procs : Listed(q) = Listed(q)'
    BY <1>3 DEF Listed
  <2>3. h \notin Explicit => h \in Listed(p)
    BY <1>1 DEF IInv, ListInv, Handle
  <2> QED
    BY <1>1, <1>3, <1>4, <2>1, <2>2, <2>3, ListKept DEF IInv
<1> QED
  BY <1>5, <1>6, <1>7, <1>8, <1>9, <1>10, <1>11, <1>12 DEF IInv

LEMMA EnterLeaveStep ==
  ASSUME IInv, NEW p \in Procs, NEW t \in Threads, NEW h \in Hooks,
         Enter(p, t, h) \/ Leave(p, t)
  PROVE  IInv'
<1>1. /\ UNCHANGED <<cursor, code, alive, hook, text, list, frame, returned>>
      /\ frame[p][t].at = "idle"
      /\ inside' \in [Procs -> [Threads -> Hooks \cup {"none"}]]
      /\ \A q \in Procs, u \in Threads : q # p \/ u # t => inside'[q][u] = inside[q][u]
      /\ inside'[p][t] \in {"none", h}
      /\ inside'[p][t] = h => text[p][h] = "jump" \/ h = "none"
  <2>1. CASE Enter(p, t, h)
    BY <2>1 DEF Enter, At, shared, IInv, TypeOK
  <2>2. CASE Leave(p, t)
    BY <2>2 DEF Leave, At, shared, IInv, TypeOK
  <2> QED
    BY <2>1, <2>2
<1>2. TypeOK'
  BY <1>1 DEF IInv, TypeOK
<1>3. SlotInv'
  BY <1>1, SlotKept DEF IInv
<1>4. FrameInv' /\ AloneInv' /\ CodeInv' /\ StateIsText'
  <2>1. FrameInv'
    <3>1. UNCHANGED <<frame, hook, text>>
      BY <1>1
    <3> QED
      BY <3>1 DEF IInv, FrameInv, CallInv
  <2>2. AloneInv'
    BY <1>1 DEF IInv, AloneInv
  <2>3. CodeInv' /\ StateIsText'
    BY <1>1 DEF IInv, CodeInv, StateIsText
  <2> QED
    BY <2>1, <2>2, <2>3
<1>5. InsideInv'
  <2>1. inside'[p][t] # "none" => Handle(p, inside'[p][t])
    BY <1>1 DEF IInv, StateIsText, Handle
  <2>2. p \in alive
    BY <1>1 DEF IInv, InsideInv
  <2>3. ASSUME NEW q \in Procs, NEW u \in Threads
        PROVE  /\ q \notin alive => frame[q][u].at = "dead" /\ inside'[q][u] = "none"
               /\ inside'[q][u] # "none" => Handle(q, inside'[q][u])
    <3>1. CASE q = p /\ u = t
      BY <2>1, <2>2, <3>1
    <3>2. CASE q # p \/ u # t
      BY <1>1, <3>2 DEF IInv, InsideInv
    <3> QED
      BY <3>1, <3>2
  <2> QED
    BY <1>1, <2>3 DEF InsideInv, Handle
<1>6. ListInv'
  BY <1>1 DEF IInv, ListInv, BoundInv, Handle, Listed
<1> QED
  BY <1>2, <1>3, <1>4, <1>5, <1>6 DEF IInv

\* The child of a fork: its only thread is idle and its handles are the parent's.
LEMMA ForkEffect ==
  ASSUME IInv, NEW p \in Procs, NEW t \in Threads, NEW c \in Procs, Fork(p, t, c)
  PROVE  /\ p \in alive /\ c \notin alive /\ alive' = alive \cup {c}
         /\ UNCHANGED <<cursor, code>>
         /\ hook' \in [Procs -> [Hooks -> HandleType]]
         /\ text' \in [Procs -> [Hooks -> {"original", "jump"}]]
         /\ list' \in [Procs -> Seq(Hooks)]
         /\ frame' \in [Procs -> [Threads -> CallType]]
         /\ inside' \in [Procs -> [Threads -> Hooks \cup {"none"}]]
         /\ returned' \in [Procs -> SUBSET Explicit]
         /\ \A q \in Procs : q # c => /\ hook'[q] = hook[q] /\ text'[q] = text[q]
                                      /\ list'[q] = list[q] /\ frame'[q] = frame[q]
                                      /\ inside'[q] = inside[q]
         /\ text'[c] = text[p] /\ list'[c] = list[p]
         /\ \A g \in Hooks : hook'[c][g] = IF hook[p][g].state = "binding"
                                           THEN NoHook ELSE hook[p][g]
         /\ \A u \in Threads : /\ frame'[c][u].at \in {"idle", "dead"}
                               /\ frame'[c][u].hook = "none"
                               /\ inside'[c][u] \in {"none", inside[p][t]}
<1>1. /\ NoCall \in CallType /\ Dead \in CallType /\ NoHook \in HandleType
      /\ NoCall.at = "idle" /\ Dead.at = "dead"
      /\ NoCall.hook = "none" /\ Dead.hook = "none"
  BY Empty
<1> HIDE DEF NoCall, Dead, NoHook
<1>2. Inherited(p) \in [Hooks -> HandleType]
  BY <1>1 DEF Inherited, IInv, TypeOK
<1>3. /\ p \in alive /\ c \notin alive /\ alive' = alive \cup {c}
      /\ UNCHANGED <<cursor, code>>
  BY DEF Fork, shared
<1>4. /\ hook' \in [Procs -> [Hooks -> HandleType]] /\ hook'[c] = Inherited(p)
      /\ \A q \in Procs : q # c => hook'[q] = hook[q]
  BY <1>2 DEF Fork, IInv, TypeOK
<1>5. /\ text' \in [Procs -> [Hooks -> {"original", "jump"}]] /\ text'[c] = text[p]
      /\ list' \in [Procs -> Seq(Hooks)] /\ list'[c] = list[p]
      /\ returned' \in [Procs -> SUBSET Explicit]
      /\ \A q \in Procs : q # c => text'[q] = text[q] /\ list'[q] = list[q]
  BY DEF Fork, IInv, TypeOK
<1>6. /\ frame' \in [Procs -> [Threads -> CallType]]
      /\ \A u \in Threads : frame'[c][u] \in {NoCall, Dead}
      /\ \A q \in Procs : q # c => frame'[q] = frame[q]
  BY <1>1 DEF Fork, IInv, TypeOK
<1>7. /\ inside' \in [Procs -> [Threads -> Hooks \cup {"none"}]]
      /\ \A u \in Threads : inside'[c][u] \in {inside[c][u], inside[p][t]}
      /\ \A q \in Procs : q # c => inside'[q] = inside[q]
  BY DEF Fork, IInv, TypeOK
<1>8. \A u \in Threads : inside[c][u] = "none"
  BY <1>3 DEF IInv, InsideInv
<1> QED
  BY <1>1, <1>3, <1>4, <1>5, <1>6, <1>7, <1>8 DEF Inherited

LEMMA ForkStep ==
  ASSUME IInv, NEW p \in Procs, NEW t \in Threads, NEW c \in Procs, Fork(p, t, c)
  PROVE  IInv'
<1>1. /\ p \in alive /\ c \notin alive /\ alive' = alive \cup {c}
      /\ UNCHANGED <<cursor, code>>
      /\ \A q \in Procs : q # c => /\ hook'[q] = hook[q] /\ text'[q] = text[q]
                                   /\ list'[q] = list[q] /\ frame'[q] = frame[q]
                                   /\ inside'[q] = inside[q]
  BY ForkEffect
<1>2. \A u \in Threads : /\ frame'[c][u].at \in {"idle", "dead"}
                         /\ frame'[c][u].hook = "none"
                         /\ inside'[c][u] \in {"none", inside[p][t]}
  BY ForkEffect
<1>3. /\ text'[c] = text[p] /\ list'[c] = list[p]
      /\ \A g \in Hooks : \/ hook'[c][g] = hook[p][g] /\ hook[p][g].state # "binding"
                          \/ /\ hook'[c][g].state = "none"
                             /\ hook[p][g].state = "binding"
  BY ForkEffect, Empty
<1>4. TypeOK'
  BY ForkEffect DEF IInv, TypeOK
<1>5. SlotInv'
  BY <1>1, <1>2, SlotKept DEF IInv
<1>6. FrameInv'
  <2>1. ASSUME NEW q \in Procs, NEW u \in Threads
        PROVE  CallInv(q, u)'
    <3>1. CASE q = c
      BY <1>2, <3>1 DEF CallInv, Toggles
    <3>2. CASE q # c
      BY <1>1, <3>2 DEF IInv, FrameInv, CallInv
    <3> QED
      BY <3>1, <3>2
  <2> QED
    BY <2>1 DEF FrameInv
<1>7. AloneInv'
  BY <1>1, <1>2 DEF IInv, AloneInv
<1>8. CodeInv'
  BY <1>1, <1>3 DEF IInv, CodeInv
<1>9. StateIsText'
  BY <1>1, <1>3 DEF IInv, StateIsText
<1>10. InsideInv'
  <2>1. inside[p][t] \in Hooks \cup {"none"}
    BY DEF IInv, TypeOK
  <2>2. inside[p][t] # "none" =>
          hook[p][inside[p][t]].state \notin {"none", "binding"}
    BY DEF IInv, InsideInv, Handle
  <2>3. ASSUME NEW q \in Procs, NEW u \in Threads
        PROVE  /\ q \notin alive' =>
                    frame'[q][u].at = "dead" /\ inside'[q][u] = "none"
               /\ inside'[q][u] # "none" =>
                    hook'[q][inside'[q][u]].state \notin {"none", "binding"}
    <3>1. CASE q = c
      BY <1>1, <1>2, <1>3, <2>1, <2>2, <3>1
    <3>2. CASE q # c
      <4>1. /\ q \notin alive => frame[q][u].at = "dead" /\ inside[q][u] = "none"
            /\ inside[q][u] # "none" =>
                 hook[q][inside[q][u]].state \notin {"none", "binding"}
        BY DEF IInv, InsideInv, Handle
      <4> QED
        BY <1>1, <3>2, <4>1
    <3> QED
      BY <3>1, <3>2
  <2> QED
    BY <2>3 DEF InsideInv, Handle
<1>11. ListInv'
  <2>1. Listed(c)' = Listed(p) /\ \A q \in Procs : q # c => Listed(q)' = Listed(q)
    BY <1>1, <1>3 DEF Listed
  <2>2. ASSUME NEW q \in Procs, NEW g \in Hooks \ Explicit, Handle(q, g)'
        PROVE  g \in Listed(q)'
    <3>1. CASE q = c
      <4>1. Handle(p, g)
        BY <1>3, <2>2, <3>1 DEF Handle
      <4> QED
        BY <2>1, <3>1, <4>1 DEF IInv, ListInv
    <3>2. CASE q # c
      <4>1. Handle(q, g)
        BY <1>1, <2>2, <3>2 DEF Handle
      <4> QED
        BY <2>1, <3>2, <4>1 DEF IInv, ListInv
    <3> QED
      BY <3>1, <3>2
  <2>3. ASSUME NEW q \in Procs, NEW u \in Threads
        PROVE  BoundInv(q, u)'
    <3>1. CASE q = c
      BY <1>2, <3>1 DEF BoundInv
    <3>2. CASE q # c
      BY <1>1, <3>2 DEF IInv, ListInv, BoundInv
    <3> QED
      BY <3>1, <3>2
  <2> QED
    BY <2>2, <2>3 DEF ListInv
<1> QED
  BY <1>4, <1>5, <1>6, <1>7, <1>8, <1>9, <1>10, <1>11 DEF IInv

-----------------------------------------------------------------------------
(* The theorems.                                                           *)

LEMMA InitInv == Init => IInv
<1> SUFFICES ASSUME Init PROVE IInv
  OBVIOUS
<1>1. /\ NoCall \in CallType /\ Dead \in CallType /\ NoHook \in HandleType
      /\ NoCall.at = "idle" /\ Dead.at = "dead" /\ NoHook.state = "none"
      /\ NoCall.hook = "none" /\ Dead.hook = "none"
  BY Empty
<1>2. NoCode \in [hook : Hooks \cup {"none"}, proc : Procs \cup {"none"}]
  BY DEF NoCode
<1> HIDE DEF NoCall, Dead, NoHook, NoCode
<1>3. /\ \A p \in Procs, t \in Threads :
           /\ frame[p][t].at = IF p = Root THEN "idle" ELSE "dead"
           /\ frame[p][t].hook = "none" /\ inside[p][t] = "none"
      /\ \A p \in Procs, h \in Hooks :
           hook[p][h].state = "none" /\ text[p][h] = "original"
      /\ \A s \in 1..Slots : code[s] = NoCode
      /\ alive = {Root}
  BY <1>1 DEF Init
<1>4. TypeOK
  <2>1. \A p \in Procs : list[p] = <<>> /\ <<>> \in Seq(Hooks)
    BY EmptySeq DEF Init
  <2> QED
    BY <1>1, <1>2, <2>1, HookArenaAssumption DEF Init, TypeOK
<1>5. SlotInv
  BY <1>3 DEF SlotInv, At
<1>6. FrameInv /\ AloneInv
  BY <1>3 DEF FrameInv, CallInv, AloneInv, Toggles
<1>7. CodeInv /\ StateIsText /\ InsideInv
  BY <1>3 DEF CodeInv, StateIsText, InsideInv
<1>8. ListInv
  BY <1>3 DEF ListInv, BoundInv, Handle
<1> QED
  BY <1>4, <1>5, <1>6, <1>7, <1>8 DEF IInv

LEMMA NextInv == IInv /\ [Next]_vars => IInv'
<1> SUFFICES ASSUME IInv, [Next]_vars PROVE IInv'
  OBVIOUS
<1>1. CASE UNCHANGED vars
  <2>1. UNCHANGED <<cursor, code, alive, hook, text, list, frame, inside, returned>>
    BY <1>1 DEF vars, shared
  <2>2. TypeOK' /\ SlotInv'
    BY <2>1 DEF IInv, TypeOK, SlotInv, At
  <2>3. FrameInv'
    BY <2>1 DEF IInv, FrameInv, CallInv
  <2>4. AloneInv' /\ CodeInv' /\ StateIsText'
    BY <2>1 DEF IInv, AloneInv, CodeInv, StateIsText
  <2>5. InsideInv' /\ ListInv'
    BY <2>1 DEF IInv, InsideInv, ListInv, BoundInv, Handle, Listed
  <2> QED
    BY <2>2, <2>3, <2>4, <2>5 DEF IInv
<1>2. ASSUME NEW p \in Procs, NEW t \in Threads, Step(p, t)
      PROVE  IInv'
  <2>1. CASE Leave(p, t)
    <3>1. PICK h \in Hooks : TRUE
      BY <2>1 DEF Leave, IInv, TypeOK
    <3> QED
      BY <2>1, EnterLeaveStep
  <2> QED
    BY <1>2, <2>1, ReserveStep, EmitStep, BindStep, PublishStep, ToggleStep DEF Step
<1>3. ASSUME NEW p \in Procs, NEW t \in Threads, NEW h \in Hooks,
             \/ BeginInstall(p, t, h) \/ BeginPublish(p, t, h) \/ Enter(p, t, h)
             \/ \E to \in {"active", "inactive"} : BeginToggle(p, t, h, to)
      PROVE  IInv'
  BY <1>3, BeginInstallStep, BeginPublishStep, EnterLeaveStep, BeginToggleStep
<1>4. ASSUME NEW p \in Procs, NEW t \in Threads, NEW c \in Procs, Fork(p, t, c)
      PROVE  IInv'
  BY <1>4, ForkStep
<1> QED
  BY <1>1, <1>2, <1>3, <1>4 DEF Next

\* IInv holds in every reachable state: it is inductive.
THEOREM Invariant == Spec => []IInv
<1> QED
  BY InitInv, NextInv, PTL DEF Spec

\* Every state is well formed, and between toggles is_active answers what the
\* site's bytes are, for any number of processes, threads, hooks and slots.
THEOREM HandlesAgree == Spec => []HookInv
<1>1. IInv => HookInv
  BY DEF IInv, HookInv
<1> QED
  BY <1>1, Invariant, PTL

\* Whoever runs in a trampoline runs the code emitted for that very hook.
THEOREM OwnCode == Spec => []RunsOwnCode
<1>1. IInv => RunsOwnCode
  <2> SUFFICES ASSUME IInv, NEW p \in Procs, NEW h \in Hooks,
                      text[p][h] = "jump" \/ (\E t \in Threads : inside[p][t] = h)
               PROVE  /\ hook[p][h].slot # 0
                      /\ code[hook[p][h].slot] = [hook |-> h, proc |-> hook[p][h].by]
    BY DEF RunsOwnCode
  <2>1. hook[p][h].state # "none"
    BY HookArenaAssumption DEF IInv, StateIsText, InsideInv, Handle
  <2> QED
    BY <2>1, HookArenaAssumption DEF IInv, CodeInv
<1> QED
  BY <1>1, Invariant, PTL

\* Whoever runs in the trampoline of an automatic hook is translated by a walk
\* of the reverse-PC list that starts now.
THEOREM Translated == Spec => []InsideIsTranslated
<1>1. IInv => InsideIsTranslated
  BY HookArenaAssumption DEF IInv, InsideInv, ListInv, InsideIsTranslated
<1> QED
  BY <1>1, Invariant, PTL

\* No step overwrites an emitted slot: the only one that writes code is Emit,
\* into the slot its own call was granted.
THEOREM WrittenOnce == Spec => SlotWrittenOnce
<1> DEFINE Kept == \A s \in 1..Slots : code[s] # NoCode => code'[s] = code[s]
<1>1. IInv /\ [Next]_vars => [Kept]_vars
  <2> SUFFICES ASSUME IInv, Next PROVE Kept
    OBVIOUS
  <2>1. CASE UNCHANGED code
    BY <2>1
  <2>2. ASSUME NEW p \in Procs, NEW t \in Threads, Emit(p, t)
        PROVE  Kept
    <3>1. code[frame[p][t].cursor + 1] = NoCode
      BY <2>2 DEF Emit, IInv, SlotInv
    <3> QED
      BY <2>2, <3>1 DEF Emit, IInv, TypeOK
  <2>3. ASSUME NEW p \in Procs, NEW t \in Threads, Step(p, t)
        PROVE  Kept
    <3>1. CASE Reserve(p, t) \/ Bind(p, t) \/ Leave(p, t)
      BY <2>1, <3>1 DEF Reserve, Bind, Leave, shared
    <3>2. CASE Swap(p, t) \/ Push(p, t) \/ ToggleText(p, t) \/ ToggleState(p, t)
      BY <2>1, <3>2 DEF Swap, Push, ToggleText, ToggleState, shared
    <3> QED
      BY <2>2, <2>3, <3>1, <3>2 DEF Step
  <2>4. ASSUME NEW p \in Procs, NEW t \in Threads, NEW h \in Hooks,
               \/ BeginInstall(p, t, h) \/ BeginPublish(p, t, h) \/ Enter(p, t, h)
               \/ \E to \in {"active", "inactive"} : BeginToggle(p, t, h, to)
        PROVE  Kept
    BY <2>1, <2>4 DEF BeginInstall, BeginPublish, Enter, BeginToggle, shared
  <2>5. ASSUME NEW p \in Procs, NEW t \in Threads, NEW c \in Procs, Fork(p, t, c)
        PROVE  Kept
    BY <2>1, <2>5 DEF Fork, shared
  <2> QED
    BY <2>3, <2>4, <2>5 DEF Next
<1> QED
  BY <1>1, Invariant, PTL DEF Spec, SlotWrittenOnce
=============================================================================
