----------------------------- MODULE MCLifecycle -----------------------------
(***************************************************************************)
(* Small instances of Lifecycle for TLC: three process ids, two knobs of   *)
(* which the second is one of the leading integers of the backup file, and *)
(* for each question a bound on how often every outside event happens.     *)
(***************************************************************************)
EXTENDS Lifecycle, TLC

MCVmKnobs == {2}

Symmetry == Permutations(Pids)

\* No event but those listed.
Quiet == [e \in Events |-> 0]

\* Commands issued one at a time; failing steps, other programs, shutdowns and
\* power losses, but no crash and no full disk.
CarefulLimit ==
  [Quiet EXCEPT !["start"] = 2, !["stop"] = 1, !["clean"] = 1, !["fault"] = 1,
                !["foreign"] = 1, !["critical"] = 1, !["shutdown"] = 1, !["power"] = 1]

\* Commands issued one at a time on a machine where processes crash.
CrashLimit ==
  [Quiet EXCEPT !["start"] = 2, !["stop"] = 1, !["clean"] = 1, !["fault"] = 1,
                !["foreign"] = 1, !["critical"] = 1, !["crash"] = 1, !["power"] = 1]

\* Everything but other programs, and commands at any moment.
ChaosLimit ==
  [[e \in Events |-> 1] EXCEPT !["foreign"] = 0]

\* What a careful user and a sound machine do, for the liveness properties; the
\* second shutdown is the one that finds the service running.
LiveLimit ==
  [Quiet EXCEPT !["start"] = 1, !["stop"] = 1, !["critical"] = 1, !["shutdown"] = 2]

-----------------------------------------------------------------------------
(* The least that shows the disagreement with the documentation.           *)

\* The machine is shut down twice: under the first daemon, and under the
\* service that the first boot started.
ShutdownsLimit == [Quiet EXCEPT !["start"] = 1, !["shutdown"] = 2]
=============================================================================
