------------------------------- MODULE MCReport -------------------------------
(* Small logs for TLC: every order of a few starts, outcomes and samples. *)
EXTENDS Report

CONSTANT MaxStart

Sample(status, capacity) == [status |-> status, capacity |-> capacity]

MCSamples ==
  {Sample("charging", 2), Sample("discharging", 1), Sample("discharging", 2),
   Sample("discharging", -1)}

\* How long a cycle took depends on its start and its sample.
MCLines ==
  {[start |-> s, took |-> (s + m.capacity) % 3, status |-> m.status, capacity |-> m.capacity] :
     s \in 1 .. MaxStart, m \in MCSamples}
  \cup {Empty, [start |-> 2, took |-> -1, status |-> "discharging", capacity |-> 1]}

MCFilters == {[since |-> 0, until |-> 0], [since |-> 2, until |-> 4], [since |-> 3, until |-> 3]}
=============================================================================
