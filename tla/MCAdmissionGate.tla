-------------------------- MODULE MCAdmissionGate --------------------------
(***************************************************************************)
(* Three pages in a row.  Snapshots of one page close both sides or leave  *)
(* the right one to a neighbour; snapshots of two pages carry the          *)
(* neighbour's bytes.  Two generations, two contents.                      *)
(***************************************************************************)
EXTENDS AdmissionGate

Snap(g, l, h, b, bf, af, st) ==
  [gen |-> g, lo |-> l, hi |-> h, bytes |-> [p \in Pages |-> b],
   before |-> bf, after |-> af, settled |-> st, decodes |-> TRUE]

\* Pages 1 and 2 belong together, page 3 stands behind a closed boundary or
\* claims to have nothing before it.
MCSnapshots ==
  {Snap(g, 1, 2, b, "closed", "unknown", TRUE) : g \in 1..2, b \in 0..1}
    \cup {Snap(g, 1, 3, 0, "closed", "closed", TRUE) : g \in 1..2}
    \cup {Snap(g, 3, 3, 0, bf, "closed", TRUE) : g \in 1..2, bf \in {"closed", "unknown"}}
    \cup {Snap(1, 1, 1, 0, "closed", "closed", TRUE),
          Snap(1, 2, 3, 0, "unknown", "closed", FALSE)}

MCExtras == {{}} \cup {{d} : d \in {e \in DependencyType :
                                      e.page \in e.snap.lo..e.snap.hi}}
=============================================================================
