--------------------------- MODULE Interception ---------------------------
(***************************************************************************)
(* What an installation behind an admission gate promises the program      *)
(* (src/A1-QUIESCENT.md, src/A2-COMPOSITION.md): a set of hooked plans     *)
(* that changes in one step, while no thread is inside the instructions    *)
(* concerned.  A thread at an instruction that a hooked plan displaces     *)
(* continues in that plan's generated code, from any entry; a thread       *)
(* elsewhere never enters generated code; and no thread is lost.           *)
(***************************************************************************)
EXTENDS Integers

CONSTANTS
  N,          \* instructions of the source
  Plans,
  Target,     \* Target[i][u]: where plan i sends a thread at instruction u
  Executors

VARIABLES
  hooked,     \* the plans in force
  at          \* place of each thread

avars == <<hooked, at>>

Outside       == <<"out", 0>>
Instruction(u) == <<"src", u>>
Original      == {Instruction(u) : u \in 1 .. N} \cup {Outside}
Displaced(i)  == DOMAIN Target[i]
Generated(i)  == {Target[i][u] : u \in Displaced(i)}

AInit == hooked = {} /\ at = [e \in Executors |-> Outside]

Hook(i) ==
  /\ i \notin hooked
  /\ \A e \in Executors : \A u \in Displaced(i) : at[e] # Instruction(u)
  /\ hooked' = hooked \cup {i}
  /\ UNCHANGED at

Unhook(i) ==
  /\ i \in hooked
  /\ \A e \in Executors :
       at[e] \notin Generated(i) \cup {Instruction(u) : u \in Displaced(i)}
  /\ hooked' = hooked \ {i}
  /\ UNCHANGED at

\* A thread at a displaced instruction has one way to go.
Intercepted(e) ==
  \E i \in hooked : \E u \in Displaced(i) :
    at[e] = Instruction(u) /\ at' = [at EXCEPT ![e] = Target[i][u]]

Uninstrumented(e) ==
  /\ \A i \in hooked : \A u \in Displaced(i) : at[e] # Instruction(u)
  /\ \E place \in Original : at' = [at EXCEPT ![e] = place]

ANext ==
  \/ \E i \in Plans : Hook(i) \/ Unhook(i)
  \/ \E e \in Executors : (Intercepted(e) \/ Uninstrumented(e)) /\ UNCHANGED hooked

Spec == AInit /\ [][ANext]_avars
=============================================================================
