--------------------------- MODULE MCBackupRestore ---------------------------
(***************************************************************************)
(* Small machines for BackupRestore: one or two cores of every kind, up to *)
(* three devices in every order in which readdir may list them.            *)
(***************************************************************************)
EXTENDS BackupRestore, SequencesExt

MCNumbers == {"0", "1", "2", "3", "5", "10", "20", "60", "100", "128", "200", "800", "3000"}
MCNumerals == <<"0", "1", "2", "3">>
MCGovernors == {"schedutil", "powersave"}
MCSchedulers == {"none", "mq-deadline", "bfq"}
MCNvme == {"nvme0n1"}
MCRotational == {"sdb"}

Sysctl == [s \in Sysctls |-> CASE s = "swappiness" -> "60"
                               [] s = "vfs_cache_pressure" -> "100"
                               [] s = "dirty_ratio" -> "20"
                               [] s = "dirty_background_ratio" -> "10"]

Core(governor, min, max, epp) ==
  [governor |-> governor, min |-> min, max |-> max, epp |-> epp]

NoCpufreq == Core("", "0", "0", "absent")
NoEpp == Core("powersave", "800", "3000", "absent")
NumberEpp == Core("powersave", "800", "3000", "128")
NamedEppCore == Core("powersave", "800", "3000", "balance_performance")

Device(name, scheduler) == [name |-> name, scheduler |-> scheduler]

\* A SATA SSD, a rotational disk, and an NVMe device.
Disks == {Device("sda", "mq-deadline"), Device("sdb", "bfq"), Device("nvme0n1", "none")}
Mapped == {Device("dm-0", ""), Device("zram0", "")}

\* The machines with cores of some kinds and at most three of some devices.
With(coreKinds, devices) ==
  {[sysctl |-> Sysctl, cores |-> cores, devices |-> listed] :
     cores \in {<<c>> : c \in coreKinds} \cup {<<c, d>> : c, d \in coreKinds},
     listed \in UNION {SetToSeqs(S) : S \in {D \in SUBSET devices : Cardinality(D) <= 3}}}

AnyMachine == With({NoCpufreq, NoEpp, NumberEpp, NamedEppCore}, Disks \cup Mapped)

\* The least machines that show the gap of a device without a scheduler.
MappedMachine == With({NoEpp}, Disks \cup Mapped)
=============================================================================
