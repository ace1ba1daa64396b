----------------------------- MODULE ByteClaims -----------------------------
(***************************************************************************)
(* What the registry of patch sites promises to the clients that share     *)
(* one body of code, whichever they are: a byte has one claimant at a      *)
(* time, only its claimant changes it, and a claim that is given back      *)
(* leaves the program's own bytes behind.                                  *)
(***************************************************************************)
CONSTANTS Addresses, Claimants, Contents, Original
VARIABLES
  claims,    \* the addresses of each claimant
  mem        \* the code

vars == <<claims, mem>>

Init == /\ claims = [c \in Claimants |-> {}]
        /\ mem = [a \in Addresses |-> Original]

\* A claim begins or grows; what it takes is nobody else's.
Take(c) == /\ claims[c] # claims'[c] /\ claims[c] \subseteq claims'[c]
           /\ claims' \in [Claimants -> SUBSET Addresses]
           /\ \A d \in Claimants \ {c} : /\ claims'[d] = claims[d]
                                         /\ claims[d] \cap claims'[c] = {}
           /\ UNCHANGED mem

GiveBack(c) == /\ claims[c] # claims'[c] /\ claims' = [claims EXCEPT ![c] = {}]
               /\ \A a \in claims[c] : mem[a] = Original
               /\ UNCHANGED mem

Write(c) == /\ mem' # mem /\ mem' \in [Addresses -> Contents]
            /\ \A a \in Addresses \ claims[c] : mem'[a] = mem[a]
            /\ UNCHANGED claims

Next == \E c \in Claimants : Take(c) \/ GiveBack(c) \/ Write(c)

Spec == Init /\ [][Next]_vars
=============================================================================
