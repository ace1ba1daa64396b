------------------------ MODULE MCQuiescentInstall ------------------------
(***************************************************************************)
(* Five instructions.  Plan "A" is a bundle: it displaces 2 and 3, then    *)
(* puns 1 with a store that spans 2 (written unchanged), and relocates 5,  *)
(* so it owns {1,2,3} and {5}.  Plan "B" displaces 3 and 4 and conflicts   *)
(* with both others; plan "C" displaces 4 and can be published next to A.  *)
(* The rapid probe is at 5.  The first generation is entered at 1 and 3,   *)
(* so A routes 3; the second at 1 and 4, so B routes 4.                    *)
(***************************************************************************)
EXTENDS QuiescentInstall, TLC

Step(h, E, S) == [head |-> h, edits |-> E, span |-> S]

PlanNames  == {"A", "B", "C"}
PlanSteps  == [i \in PlanNames |->
                 CASE i = "A" -> << Step(2, {2, 3}, {2, 3}),
                                    Step(1, {1}, {1, 2}),
                                    Step(5, {5}, {5}) >>
                   [] i = "B" -> << Step(3, {3, 4}, {3, 4}) >>
                   [] i = "C" -> << Step(4, {4}, {4}) >>]
PlanLocks  == [i \in PlanNames |->
                 CASE i = "A" -> << {1, 2, 3}, {5} >>
                   [] i = "B" -> << {3, 4} >>
                   [] i = "C" -> << {4} >>]
PlanEntries == << {1, 3}, {1, 4} >>

\* Leases to publish the plans, several or one at a time, and to retire A and B.
LeaseScopes == {Source(1 .. 5), Source({4}),
                Source({1, 2, 3, 5}) \cup Image("A"),
                Source({3, 4}) \cup Image("B")}

PublisherSymmetry == Permutations(Publishers)
=============================================================================
