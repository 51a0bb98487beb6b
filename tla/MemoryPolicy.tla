----------------------------- MODULE MemoryPolicy -----------------------------
(***************************************************************************)
(* The memory policy of the daemon, from the capture of the sysctls it     *)
(* changes to their restore: one file is read or written at a time, while  *)
(* the pressure and an administrator go their own ways.                    *)
(*                                                                         *)
(* Which process a tick terminates is in MemoryScan.tla; here it matters   *)
(* only that it may be the daemon.                                         *)
(*                                                                         *)
(* A tick that reads healthy pressure changes nothing and is left out.     *)
(***************************************************************************)
EXTENDS Integers

CONSTANTS
  Ratios,      \* the values vm.dirty_ratio may have at the start
  ByteLimits,  \* may the machine start with vm.dirty_bytes instead: a set of BOOLEANs
  AdminRatios, \* what an administrator may write to vm.dirty_ratio
  MaxWrites,   \* how often the administrator does
  MaxVfs       \* vm.vfs_cache_pressure is not followed above this bound

InitialVfs == 100

ASSUME MemoryAssumption ==
  /\ Ratios \subseteq 1..100
  /\ ByteLimits \subseteq BOOLEAN
  /\ AdminRatios \subseteq 0..100
  /\ MaxWrites \in Nat
  /\ MaxVfs \in Nat /\ MaxVfs > InitialVfs

VARIABLES
  level,      \* what MemGuard::classify makes of avg10
  vfs,        \* vm.vfs_cache_pressure
  ratio,      \* vm.dirty_ratio; zero while the limit is given in bytes
  bytes,      \* is the limit given by vm.dirty_bytes
  saved,      \* the two sysctls in the backup
  signalled,  \* has the daemon been sent SIGTERM
  phase,      \* what the daemon does next
  seen,       \* the number it has read, or is about to write
  writes,     \* how often the administrator has written
  first       \* history: the sysctls before the daemon started

sysctls == <<vfs, ratio, bytes>>
vars == <<level, vfs, ratio, bytes, saved, signalled, phase, seen, writes, first>>

Init ==
  /\ level = "healthy"
  /\ vfs = InitialVfs
  /\ bytes \in ByteLimits
  /\ IF bytes THEN ratio = 0 ELSE ratio \in Ratios
  /\ saved = [vfs |-> 0, ratio |-> 0]
  /\ signalled = FALSE
  /\ phase = "capture"
  /\ seen = 0
  /\ writes = 0
  /\ first = [vfs |-> vfs, ratio |-> ratio, bytes |-> bytes]

-----------------------------------------------------------------------------
(* The kernel.  A dirty_ratio out of range is rejected; one that differs    *)
(* from the ratio in force takes the place of dirty_bytes.                  *)

WriteRatio(r) ==
  IF r \in 0..100 /\ r # ratio
    THEN ratio' = r /\ bytes' = FALSE
    ELSE UNCHANGED <<ratio, bytes>>

CaptureCurrentState ==
  /\ phase = "capture"
  /\ saved' = [vfs |-> vfs, ratio |-> ratio]
  /\ phase' = "pressure"
  /\ UNCHANGED <<level, sysctls, signalled, seen, writes, first>>

\* One look at /proc/pressure/memory decides what this tick does.
ReadPressure ==
  /\ phase = "pressure"
  /\ ~ signalled
  /\ \/ level = "rising" /\ phase' = "vfs"
     \/ level = "critical" /\ phase' = "terminate"
  /\ UNCHANGED <<level, sysctls, saved, signalled, seen, writes, first>>

ReadVfs ==
  /\ phase = "vfs"
  /\ seen' = vfs
  /\ phase' = "write_vfs"
  /\ UNCHANGED <<level, sysctls, saved, signalled, writes, first>>

WriteVfs ==
  /\ phase = "write_vfs"
  /\ vfs' = IF seen + 20 <= MaxVfs THEN seen + 20 ELSE MaxVfs
  /\ phase' = "ratio"
  /\ UNCHANGED <<level, ratio, bytes, saved, signalled, seen, writes, first>>

\* Mutant of ReadRatio: the comparison includes five.
ReadRatioFromFive ==
  /\ phase = "ratio"
  /\ IF ratio >= 5
       THEN phase' = "ratio_again" /\ UNCHANGED seen
       ELSE phase' = "write_ratio" /\ seen' = 5
  /\ UNCHANGED <<level, sysctls, saved, signalled, writes, first>>

ReadRatio ==
  /\ phase = "ratio"
  /\ IF ratio > 5
       THEN phase' = "ratio_again" /\ UNCHANGED seen
       ELSE phase' = "write_ratio" /\ seen' = 5
  /\ UNCHANGED <<level, sysctls, saved, signalled, writes, first>>

\* Mutant of ReadRatioAgain: the operands are swapped.
ReadRatioSwapped ==
  /\ phase = "ratio_again"
  /\ seen' = 5 - ratio
  /\ phase' = "write_ratio"
  /\ UNCHANGED <<level, sysctls, saved, signalled, writes, first>>

\* The ratio is read a second time to be reduced.
ReadRatioAgain ==
  /\ phase = "ratio_again"
  /\ seen' = ratio - 5
  /\ phase' = "write_ratio"
  /\ UNCHANGED <<level, sysctls, saved, signalled, writes, first>>

SetDirtyRatio ==
  /\ phase = "write_ratio"
  /\ WriteRatio(seen)
  /\ phase' = "pressure"
  /\ UNCHANGED <<level, vfs, saved, signalled, seen, writes, first>>

\* The largest process is sent SIGTERM, which the daemon may be itself.
RequestTermination ==
  /\ phase = "terminate"
  /\ signalled' = TRUE \/ UNCHANGED signalled
  /\ phase' = "pressure"
  /\ UNCHANGED <<level, sysctls, saved, seen, writes, first>>

\* SIGTERM from `stop`, or from the policy itself, ends the loop between ticks.
StopRequested ==
  /\ phase = "pressure"
  /\ signalled' = TRUE
  /\ phase' = "restore_vfs"
  /\ UNCHANGED <<level, sysctls, saved, seen, writes, first>>

\* Mutant of RestoreVfs: the dirty ratio is forgotten.
RestoreVfsOnly ==
  /\ phase = "restore_vfs"
  /\ vfs' = saved.vfs
  /\ phase' = "done"
  /\ UNCHANGED <<level, ratio, bytes, saved, signalled, seen, writes, first>>

RestoreVfs ==
  /\ phase = "restore_vfs"
  /\ vfs' = saved.vfs
  /\ phase' = "restore_ratio"
  /\ UNCHANGED <<level, ratio, bytes, saved, signalled, seen, writes, first>>

RestoreRatio ==
  /\ phase = "restore_ratio"
  /\ WriteRatio(saved.ratio)
  /\ phase' = "done"
  /\ UNCHANGED <<level, vfs, saved, signalled, seen, writes, first>>

-----------------------------------------------------------------------------
(* The machine.                                                            *)

\* avg10 is an average over ten seconds: it may stay critical for many ticks.
PressureChanges ==
  /\ level' \in {"healthy", "rising", "critical"} \ {level}
  /\ UNCHANGED <<sysctls, saved, signalled, phase, seen, writes, first>>

AdminWritesRatio ==
  /\ writes < MaxWrites
  /\ writes' = writes + 1
  /\ \E r \in AdminRatios : WriteRatio(r)
  /\ UNCHANGED <<level, vfs, saved, signalled, phase, seen, first>>

-----------------------------------------------------------------------------
PolicyStep ==
  \/ CaptureCurrentState
  \/ ReadPressure
  \/ ReadVfs \/ WriteVfs
  \/ ReadRatio \/ ReadRatioAgain \/ SetDirtyRatio
  \/ RequestTermination
  \/ RestoreVfs \/ RestoreRatio

MachineStep ==
  \/ StopRequested
  \/ PressureChanges
  \/ AdminWritesRatio

Next == PolicyStep \/ MachineStep

Spec == Init /\ [][Next]_vars

\* The daemon's thread is scheduled.  A daemon that has been signalled leaves
\* the loop; a stop from outside is never bound to come.
FairSpec ==
  /\ Spec
  /\ WF_vars(PolicyStep)
  /\ WF_vars(signalled /\ StopRequested)

-----------------------------------------------------------------------------
TypeOK ==
  /\ level \in {"healthy", "rising", "critical"}
  /\ vfs \in 0..MaxVfs
  /\ ratio \in 0..100
  /\ bytes \in BOOLEAN
  /\ saved \in [vfs : 0..MaxVfs, ratio : 0..100]
  /\ signalled \in BOOLEAN
  /\ phase \in {"capture", "pressure", "vfs", "write_vfs", "ratio", "ratio_again",
                "write_ratio", "terminate", "restore_vfs", "restore_ratio", "done"}
  /\ seen \in -5..MaxVfs
  /\ writes \in 0..MaxWrites
  /\ first \in [vfs : 0..MaxVfs, ratio : 0..100, bytes : BOOLEAN]

\* The dirty limit is a ratio, and nobody but the daemon has written it.
RatioUndisturbed == ~ first.bytes /\ writes = 0

\* On such a machine the policy never takes the ratio down to zero, which would
\* make every writer wait for its own pages.
RatioPositive == RatioUndisturbed => ratio >= 1 /\ ~ bytes

\* On such a machine a stop brings back both sysctls.
RatioRestored ==
  phase = "done" /\ RatioUndisturbed =>
    vfs = first.vfs /\ ratio = first.ratio /\ ~ bytes

-----------------------------------------------------------------------------
(* What makes them inductive.                                              *)

\* The saved values are the first ones, the second reading of the ratio finds
\* what the first one compared, and the restore has written what it has passed.
LimitsKept ==
  RatioUndisturbed =>
    /\ ~ bytes /\ ratio >= 1 /\ first.ratio >= 1
    /\ phase = "capture" => vfs = first.vfs /\ ratio = first.ratio
    /\ phase # "capture" => saved.vfs = first.vfs /\ saved.ratio = first.ratio
    /\ phase = "ratio_again" => ratio > 5
    /\ phase = "write_ratio" => seen \in 1..95
    /\ phase \in {"restore_ratio", "done"} => vfs = first.vfs
    /\ phase = "done" => ratio = first.ratio

-----------------------------------------------------------------------------
\* Under pressure that goes on rising, the ratio settles at five.
RatioSettles ==
  <>[](level = "rising") => <>[](ratio = 5 \/ signalled)
=============================================================================
