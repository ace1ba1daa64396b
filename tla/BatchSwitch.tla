---------------------------- MODULE BatchSwitch ----------------------------
(***************************************************************************)
(* What synchronized publication promises (src/A4-SYNCHRONIZED.md): a      *)
(* batch takes its members one by one, changes all of them or none, and    *)
(* hands them back when every thread runs the version it asked for.  While *)
(* it changes them a thread may run either version of any of them, or meet *)
(* a guard.  A batch that fails then keeps its members for good.           *)
(***************************************************************************)
CONSTANTS Members, Batches, Executors
VARIABLES
  holder,    \* the batch that has a member, or "none"
  visible,   \* the versions of a member that threads may run
  wanted,    \* the version a batch is changing its members to, or "none"
  at, ran    \* where each thread is, and what it ran last

vars == <<holder, visible, wanted, at, ran>>

Versions == {"old", "new"}
Held(b) == {m \in Members : holder[m] = b}

Init == /\ holder = [m \in Members |-> "none"]
        /\ visible = [m \in Members |-> {"old"}]
        /\ wanted = [b \in Batches |-> "none"]
        /\ at \in [Executors -> Members]
        /\ ran = [e \in Executors |-> "none"]

Take(b, m) == /\ holder[m] = "none" /\ holder' = [holder EXCEPT ![m] = b]
              /\ UNCHANGED <<visible, wanted, at, ran>>

GiveBack(b) == holder' = [m \in Members |-> IF holder[m] = b THEN "none" ELSE holder[m]]
Show(b, vs) == visible' = [m \in Members |-> IF holder[m] = b THEN vs ELSE visible[m]]

LetGo(b) == /\ wanted[b] = "none" /\ GiveBack(b)
            /\ UNCHANGED <<visible, wanted, at, ran>>

\* The change begins: every member shows the other version until then.
Open(b, v) == /\ wanted[b] = "none" /\ Held(b) # {}
              /\ \A m \in Held(b) : visible[m] = Versions \ {v}
              /\ wanted' = [wanted EXCEPT ![b] = v] /\ Show(b, Versions)
              /\ UNCHANGED <<holder, at, ran>>

\* It is complete: no thread runs the other version of any member any more.
Close(b) == /\ wanted[b] # "none" /\ Show(b, {wanted[b]})
            /\ wanted' = [wanted EXCEPT ![b] = "none"] /\ GiveBack(b)
            /\ UNCHANGED <<at, ran>>

Enter(e, m) == at' = [at EXCEPT ![e] = m] /\ UNCHANGED <<holder, visible, wanted, ran>>

Run(e) == /\ \E r \in visible[at[e]] \cup
                      (IF visible[at[e]] = Versions THEN {"trap"} ELSE {}) :
               ran' = [ran EXCEPT ![e] = r]
          /\ UNCHANGED <<holder, visible, wanted, at>>

Next == \/ \E b \in Batches :
             \/ \E m \in Members : Take(b, m)
             \/ LetGo(b) \/ Close(b) \/ \E v \in Versions : Open(b, v)
        \/ \E e \in Executors : Run(e) \/ \E m \in Members : Enter(e, m)

Spec == Init /\ [][Next]_vars
=============================================================================
