------------------------- MODULE BackupRestoreProofs -------------------------
(***************************************************************************)
(* Proofs about the backup, for any machine: what save() writes, load()    *)
(* reads back, up to the first core or device that has left a token out.   *)
(***************************************************************************)
EXTENDS BackupRestore, SequenceTheorems, TLAPS

-----------------------------------------------------------------------------
(* The text, token by token.  Each of the first five tokens is a line of its *)
(* own; after them core i has the tokens 5i+1 to 5i+5, as long as all cores  *)
(* before it have a governor, and device i the last two tokens up to its     *)
(* DeviceEnd, as long as it and all devices before it have a scheduler.      *)

\* The strings, with two of which the provers do not know that they are strings.
Words == STRING \cup {"none", Empty}

NumCores == Len(before.cores)
NumDevices == Len(before.devices)

\* The first n cores, or devices, leave no token out.
Governed(n) == \A i \in 1..n : before.cores[i].governor # Empty
Scheduled(n) == \A i \in 1..n : before.devices[i].scheduler # Empty

DeviceEnd(i) == 6 + 5 * NumCores + 2 * i

\* A text has these tokens, the first of them in place k.
TokensAt(text, k, tokens) ==
  /\ Len(text) >= k + Len(tokens) - 1
  /\ \A j \in 1..Len(tokens) : text[k + j - 1] = tokens[j]

HeadWritten ==
  TokensAt(file, 1, <<before.sysctl["swappiness"], before.sysctl["vfs_cache_pressure"],
                      before.sysctl["dirty_ratio"], before.sysctl["dirty_background_ratio"],
                      Numeral(NumCores)>>)

CoresWritten(n) ==
  \A i \in 1..n : Governed(i - 1) =>
    TokensAt(file, 5 * i + 1, CoreLine(Snapshot(i - 1, before.cores[i])))

\* The name of a device whose pair is in its place does not come again.
DevicesWritten(n) ==
  \A i \in 1..n : Scheduled(i) =>
    /\ TokensAt(file, DeviceEnd(i) - 1, <<before.devices[i].name, before.devices[i].scheduler>>)
    /\ \A k \in DeviceEnd(i)..Len(file) : file[k] # before.devices[i].name

DeviceCountWritten == TokensAt(file, DeviceEnd(0), <<Numeral(NumDevices)>>)

\* What save() has written when it has come to line n of the cores, of the devices.
CoresSaved(n) ==
  /\ HeadWritten
  /\ CoresWritten(n)
  /\ Governed(n) => Len(file) = 5 * n + 5

DevicesSaved(n) ==
  /\ HeadWritten
  /\ CoresWritten(NumCores)
  /\ Governed(NumCores) =>
       /\ DeviceCountWritten
       /\ DevicesWritten(n)
       /\ Scheduled(n) => Len(file) = DeviceEnd(n)

FileComplete == DevicesSaved(NumDevices)

-----------------------------------------------------------------------------
(* The invariant.                                                          *)

Captured ==
  [sysctl  |-> before.sysctl,
   cores   |-> [i \in DOMAIN before.cores |-> Snapshot(i - 1, before.cores[i])],
   devices |-> before.devices]

Saving ==
  /\ phase \in {"capture", "save", "save_cores", "save_devices"} => kernel = before
  /\ phase \in {"save", "save_cores", "save_devices"} => memory = Captured
  /\ phase = "save_cores" => left \in 0..NumCores /\ CoresSaved(NumCores - left)
  /\ phase = "save_devices" => left \in 0..NumDevices /\ DevicesSaved(NumDevices - left)
  /\ phase \in {"tune", "load", "load_cores", "load_devices"} => FileComplete

\* What tuning leaves as it was: which files there are.
Retuned ==
  /\ DOMAIN kernel = {"sysctl", "cores", "devices"}
  /\ DOMAIN kernel.cores = DOMAIN before.cores
  /\ \A i \in DOMAIN before.cores :
       LET was == before.cores[i]
           is == kernel.cores[i]
       IN  /\ DOMAIN is = {"governor", "min", "max", "epp"}
           /\ was.governor = Empty => is = was
           /\ was.governor # Empty => is.governor # Empty
           /\ was.epp = "absent" <=> is.epp = "absent"
  /\ DOMAIN kernel.devices = DOMAIN before.devices
  /\ \A i \in DOMAIN before.devices :
       LET was == before.devices[i]
           is == kernel.devices[i]
       IN  /\ DOMAIN is = {"name", "scheduler"}
           /\ is.name = was.name
           /\ was.scheduler # Empty => is.scheduler # Empty

Snapshots == [id : Words, governor : Words, min : Words, max : Words, epp : Words]
Pairs == [name : Words, scheduler : Words]

\* A core that has been read has a governor, or the line would not have extracted.
CoresLoaded ==
  /\ memory.sysctl = before.sysctl
  /\ memory.cores \in Seq(Snapshots)
  /\ Len(memory.cores) <= NumCores
  /\ Governed(Len(memory.cores))
  /\ \A i \in 1..Len(memory.cores) : memory.cores[i] = Snapshot(i - 1, before.cores[i])

\* A device in its place has been read as it was, and no pair after it has its name.
DevicesLoaded ==
  /\ memory.devices \in Seq(Pairs)
  /\ Len(memory.devices) <= NumDevices
  /\ \A i \in 1..Len(memory.devices) : Scheduled(i) =>
       /\ memory.devices[i] = before.devices[i]
       /\ \A j \in (i + 1)..Len(memory.devices) : memory.devices[j].name # before.devices[i].name

AllCoresLoaded == CoresLoaded /\ Len(memory.cores) = NumCores
AllDevicesLoaded == DevicesLoaded /\ Len(memory.devices) = NumDevices

Loading ==
  /\ phase \in {"capture", "save", "save_cores", "save_devices", "tune", "load"} =>
       stream = [read |-> 0, ok |-> TRUE]
  /\ phase = "load_cores" =>
       /\ memory = [sysctl |-> memory.sysctl, cores |-> memory.cores, devices |-> <<>>]
       /\ CoresLoaded
       /\ left = NumCores - Len(memory.cores)
       /\ stream = [read |-> 5 + 5 * Len(memory.cores), ok |-> TRUE]
  /\ phase = "load_devices" =>
       /\ memory = [sysctl |-> memory.sysctl, cores |-> memory.cores, devices |-> memory.devices]
       /\ AllCoresLoaded
       /\ DevicesLoaded
       /\ left = NumDevices - Len(memory.devices)
       /\ stream.read = DeviceEnd(Len(memory.devices))
       /\ Scheduled(Len(memory.devices)) => stream.ok
  /\ phase = "restore" => AllCoresLoaded /\ AllDevicesLoaded

IInv ==
  /\ phase \in {"capture", "save", "save_cores", "save_devices", "tune", "load",
                "load_cores", "load_devices", "restore", "restored", "aborted"}
  /\ Machine(before)
  /\ file \in Seq(Words)
  /\ left \in Nat
  /\ Saving
  /\ phase \in {"tune", "load", "load_cores", "load_devices", "restore"} => Retuned
  /\ Loading
  /\ AbortsOnlyWithoutGovernor
  /\ RestoredButForGaps
-----------------------------------------------------------------------------
(* Texts and numerals.                                                     *)

LEMMA Appended ==
  ASSUME NEW text \in Seq(Words), NEW line \in Seq(Words)
  PROVE  /\ text \o line \in Seq(Words)
         /\ Len(text \o line) = Len(text) + Len(line)
         /\ \A j \in 1..Len(text) : (text \o line)[j] = text[j]
         /\ \A j \in 1..Len(line) : (text \o line)[Len(text) + j] = line[j]
  OBVIOUS

\* What follows changes nothing of what is there.
LEMMA TokensStay ==
  ASSUME NEW text \in Seq(Words), NEW line \in Seq(Words),
         NEW k \in Nat \ {0}, NEW tokens \in Seq(Words),
         TokensAt(text, k, tokens)
  PROVE  TokensAt(text \o line, k, tokens)
  <1>1. \A j \in 1..Len(tokens) : k + j - 1 \in 1..Len(text)
    BY DEF TokensAt
  <1>. QED BY <1>1, Appended DEF TokensAt

\* A line that is appended is found behind the text.
LEMMA TokensAppended ==
  ASSUME NEW text \in Seq(Words), NEW line \in Seq(Words)
  PROVE  TokensAt(text \o line, Len(text) + 1, line)
  <1>1. \A j \in 1..Len(line) : Len(text) + 1 + j - 1 = Len(text) + j
    OBVIOUS
  <1>. QED BY <1>1, Appended DEF TokensAt

LEMMA NumeralFacts ==
  ASSUME NEW n \in 0..(Len(Numerals) - 1)
  PROVE  /\ Numeral(n) \in Numbers
         /\ Numeral(n) \in Words
         /\ \A k \in 0..(Len(Numerals) - 1) : Numeral(k) = Numeral(n) => k = n
         /\ Count(Numeral(n)) = n
  <1>1. n + 1 \in DOMAIN Numerals /\ Numeral(n) = Numerals[n + 1]
    BY TokenAssumption DEF Numeral
  <1>2. Numeral(n) \in Numbers
    BY <1>1, TokenAssumption
  <1>5. Numeral(n) \in Words
    BY <1>2, TokenAssumption DEF Words
  <1>3. ASSUME NEW k \in 0..(Len(Numerals) - 1), Numeral(k) = Numeral(n)
        PROVE  k = n
    <2>1. k + 1 \in DOMAIN Numerals /\ Numeral(k) = Numerals[k + 1]
      BY TokenAssumption DEF Numeral
    <2>2. Numerals[k + 1] = Numerals[n + 1]
      BY <1>1, <1>3, <2>1
    <2>3. k + 1 = n + 1
      BY <1>1, <2>1, <2>2, TokenAssumption
    <2>4. Len(Numerals) \in Nat
      BY TokenAssumption
    <2>. QED BY <2>3, <2>4
  <1>4. Count(Numeral(n)) = n
    BY <1>3 DEF Count
  <1>. QED BY <1>2, <1>3, <1>4, <1>5

\* What a machine is, piece by piece.
LEMMA MachineFacts ==
  ASSUME Machine(before)
  PROVE  /\ before = [sysctl |-> before.sysctl, cores |-> before.cores, devices |-> before.devices]
         /\ NumCores \in Nat /\ NumDevices \in Nat
         /\ NumCores \in 0..(Len(Numerals) - 1) /\ NumDevices \in 0..(Len(Numerals) - 1)
         /\ before.sysctl \in [Sysctls -> Numbers]
         /\ \A s \in Sysctls : before.sysctl[s] \in Numbers /\ before.sysctl[s] \in Words
         /\ DOMAIN before.cores = 1..NumCores
         /\ DOMAIN before.devices = 1..NumDevices
         /\ before.cores \in Seq(Cores)
         /\ before.devices \in Seq(Devices)
         /\ \A i \in 1..NumCores : before.cores[i] \in Cores
         /\ \A i \in 1..NumDevices : before.devices[i] \in Devices
  <1>1. before \in [sysctl : [Sysctls -> Numbers], cores : Seq(Cores), devices : Seq(Devices)]
        /\ Len(before.cores) < Len(Numerals) /\ Len(before.devices) < Len(Numerals)
    BY DEF Machine
  <1>2. before.sysctl \in [Sysctls -> Numbers] /\ before.cores \in Seq(Cores) /\ before.devices \in Seq(Devices)
    BY <1>1
  <1>3. before = [sysctl |-> before.sysctl, cores |-> before.cores, devices |-> before.devices]
    BY <1>1
  <1>4. Len(Numerals) \in Nat /\ Numbers \subseteq Words
    BY TokenAssumption DEF Words
  <1>5. \A s \in Sysctls : before.sysctl[s] \in Numbers /\ before.sysctl[s] \in Words
    BY <1>2, <1>4
  <1>6. /\ DOMAIN before.cores = 1..NumCores /\ NumCores \in Nat
        /\ DOMAIN before.devices = 1..NumDevices /\ NumDevices \in Nat
    BY <1>2 DEF NumCores, NumDevices
  <1>7. /\ \A i \in 1..NumCores : before.cores[i] \in Cores
        /\ \A i \in 1..NumDevices : before.devices[i] \in Devices
    BY <1>2, <1>6
  <1>. QED BY <1>1, <1>2, <1>3, <1>4, <1>5, <1>6, <1>7 DEF NumCores, NumDevices

-----------------------------------------------------------------------------
(* The lines of a core and of a device.                                    *)

LEMMA Tuples ==
  ASSUME NEW S, NEW a \in S, NEW b \in S, NEW c \in S, NEW d \in S, NEW e \in S
  PROVE  /\ <<>> \in Seq(S) /\ <<a>> \in Seq(S) /\ <<a, b>> \in Seq(S)
         /\ <<a, b, c>> \in Seq(S) /\ <<a, b, c, d>> \in Seq(S) /\ <<a, b, c, d, e>> \in Seq(S)
  OBVIOUS

LEMMA JoinedTo ==
  ASSUME NEW S, NEW s \in Seq(S), NEW t \in Seq(S), NEW u \in Seq(S),
         Len(u) = Len(s) + Len(t),
         \A i \in 1..Len(s) : u[i] = s[i],
         \A i \in 1..Len(t) : u[Len(s) + i] = t[i]
  PROVE  s \o t = u
  <1>1. /\ s \o t \in Seq(S)
        /\ Len(s \o t) = Len(u)
        /\ \A i \in 1..(Len(s) + Len(t)) :
             (s \o t)[i] = IF i <= Len(s) THEN s[i] ELSE t[i - Len(s)]
    BY ConcatProperties
  <1>2. ASSUME NEW i \in 1..Len(s \o t)
        PROVE  (s \o t)[i] = u[i]
    <2>1. CASE i <= Len(s)
      BY <1>1, <2>1
    <2>2. CASE i > Len(s)
      <3>1. i - Len(s) \in 1..Len(t) /\ Len(s) + (i - Len(s)) = i
        BY <1>1, <2>2
      <3>2. u[i] = t[i - Len(s)]
        BY <3>1
      <3>3. i \in 1..(Len(s) + Len(t)) /\ ~ (i <= Len(s))
        BY <1>1, <2>2
      <3>. QED BY <1>1, <3>2, <3>3
    <2>. QED BY <1>1, <2>1, <2>2
  <1>. QED BY <1>1, <1>2, SeqEqual

LEMMA JoinedTwo ==
  ASSUME NEW S, NEW a \in S, NEW b \in S
  PROVE  <<a>> \o <<b>> = <<a, b>>
  <1>. DEFINE s == <<a>>
              t == <<b>>
              u == <<a, b>>
  <1>1. s \in Seq(S) /\ t \in Seq(S) /\ u \in Seq(S)
    BY Tuples
  <1>2. Len(s) = 1 /\ Len(t) = 1 /\ Len(u) = 2
    OBVIOUS
  <1>3. \A i \in 1..1 : u[i] = s[i]
    OBVIOUS
  <1>4. \A i \in 1..1 : u[1 + i] = t[i]
    OBVIOUS
  <1>. HIDE DEF s, t, u
  <1>5. Len(u) = Len(s) + Len(t)
    BY <1>2
  <1>6. \A i \in 1..Len(s) : u[i] = s[i]
    BY <1>2, <1>3
  <1>7. \A i \in 1..Len(t) : u[Len(s) + i] = t[i]
    BY <1>2, <1>4
  <1>8. s \o t = u
    BY ONLY <1>1, <1>5, <1>6, <1>7, JoinedTo
  <1>. QED BY <1>8 DEF s, t, u

LEMMA JoinedFour ==
  ASSUME NEW S, NEW a \in S, NEW c \in S, NEW d \in S, NEW e \in S
  PROVE  <<a>> \o <<c, d, e>> = <<a, c, d, e>>
  <1>. DEFINE s == <<a>>
              t == <<c, d, e>>
              u == <<a, c, d, e>>
  <1>1. s \in Seq(S) /\ t \in Seq(S) /\ u \in Seq(S)
    BY Tuples
  <1>2. Len(s) = 1 /\ Len(t) = 3 /\ Len(u) = 4
    OBVIOUS
  <1>3. \A i \in 1..1 : u[i] = s[i]
    OBVIOUS
  <1>4. \A i \in 1..3 : u[1 + i] = t[i]
    OBVIOUS
  <1>. HIDE DEF s, t, u
  <1>5. Len(u) = Len(s) + Len(t)
    BY <1>2
  <1>6. \A i \in 1..Len(s) : u[i] = s[i]
    BY <1>2, <1>3
  <1>7. \A i \in 1..Len(t) : u[Len(s) + i] = t[i]
    BY <1>2, <1>4
  <1>8. s \o t = u
    BY ONLY <1>1, <1>5, <1>6, <1>7, JoinedTo
  <1>. QED BY <1>8 DEF s, t, u

LEMMA JoinedFive ==
  ASSUME NEW S, NEW a \in S, NEW b \in S, NEW c \in S, NEW d \in S, NEW e \in S
  PROVE  <<a, b>> \o <<c, d, e>> = <<a, b, c, d, e>>
  <1>. DEFINE s == <<a, b>>
              t == <<c, d, e>>
              u == <<a, b, c, d, e>>
  <1>1. s \in Seq(S) /\ t \in Seq(S) /\ u \in Seq(S)
    BY Tuples
  <1>2. Len(s) = 2 /\ Len(t) = 3 /\ Len(u) = 5
    OBVIOUS
  <1>3. \A i \in 1..2 : u[i] = s[i]
    OBVIOUS
  <1>4. \A i \in 1..3 : u[2 + i] = t[i]
    OBVIOUS
  <1>. HIDE DEF s, t, u
  <1>5. Len(u) = Len(s) + Len(t)
    BY <1>2
  <1>6. \A i \in 1..Len(s) : u[i] = s[i]
    BY <1>2, <1>3
  <1>7. \A i \in 1..Len(t) : u[Len(s) + i] = t[i]
    BY <1>2, <1>4
  <1>8. s \o t = u
    BY ONLY <1>1, <1>5, <1>6, <1>7, JoinedTo
  <1>. QED BY <1>8 DEF s, t, u

LEMMA CoreLineTokens ==
  ASSUME NEW core, core.id \in Words, core.governor \in Words, core.min \in Words,
         core.max \in Words, core.epp \in Words
  PROVE  /\ core.governor = Empty =>
              CoreLine(core) = <<core.id, core.min, core.max, core.epp>>
         /\ core.governor # Empty =>
              CoreLine(core) = <<core.id, core.governor, core.min, core.max, core.epp>>
  <1>1. /\ <<core.id>> \o <<>> = <<core.id>>
        /\ <<core.id>> \o <<core.governor>> = <<core.id, core.governor>>
    BY ConcatEmptySeq, Tuples, JoinedTwo
  <1>2. /\ <<core.id>> \o <<core.min, core.max, core.epp>>
             = <<core.id, core.min, core.max, core.epp>>
        /\ <<core.id, core.governor>> \o <<core.min, core.max, core.epp>>
             = <<core.id, core.governor, core.min, core.max, core.epp>>
    BY JoinedFour, JoinedFive
  <1>. QED BY <1>1, <1>2 DEF CoreLine, Token

LEMMA DeviceLineTokens ==
  ASSUME NEW device, device.name \in Words, device.scheduler \in Words
  PROVE  /\ device.scheduler = Empty => DeviceLine(device) = <<device.name>>
         /\ device.scheduler # Empty => DeviceLine(device) = <<device.name, device.scheduler>>
  <1>1. /\ <<device.name>> \o <<>> = <<device.name>>
        /\ <<device.name>> \o <<device.scheduler>> = <<device.name, device.scheduler>>
    BY ConcatEmptySeq, Tuples, JoinedTwo
  <1>. QED BY <1>1 DEF DeviceLine, Token

\* A tuple's length and members.
LEMMA FourTokens ==
  ASSUME NEW text, NEW k \in Nat \ {0}, NEW a, NEW b, NEW c, NEW d
  PROVE  TokensAt(text, k, <<a, b, c, d>>) <=>
           /\ Len(text) >= k + 3
           /\ text[k] = a /\ text[k + 1] = b /\ text[k + 2] = c /\ text[k + 3] = d
  BY DEF TokensAt

LEMMA FiveTokens ==
  ASSUME NEW text, NEW k \in Nat \ {0}, NEW a, NEW b, NEW c, NEW d, NEW e
  PROVE  TokensAt(text, k, <<a, b, c, d, e>>) <=>
           /\ Len(text) >= k + 4
           /\ text[k] = a /\ text[k + 1] = b /\ text[k + 2] = c
           /\ text[k + 3] = d /\ text[k + 4] = e
  BY DEF TokensAt

LEMMA TwoTokens ==
  ASSUME NEW text, NEW k \in Nat \ {0}, NEW a, NEW b
  PROVE  TokensAt(text, k, <<a, b>>) <=>
           Len(text) >= k + 1 /\ text[k] = a /\ text[k + 1] = b
  BY DEF TokensAt

LEMMA OneToken ==
  ASSUME NEW text, NEW k \in Nat \ {0}, NEW a
  PROVE  TokensAt(text, k, <<a>>) <=> Len(text) >= k /\ text[k] = a
  BY DEF TokensAt

\* What a core's line is made of.
LEMMA SnapshotFacts ==
  ASSUME Machine(before), NEW i \in 1..NumCores
  PROVE  LET c == before.cores[i]
             s == Snapshot(i - 1, c)
         IN  /\ s = [id |-> Numeral(i - 1), governor |-> c.governor,
                     min |-> c.min, max |-> c.max, epp |-> CurrentEpp(c)]
             /\ Numeral(i - 1) \in Numbers /\ Numeral(i - 1) \in Words
             /\ c.governor \in Words
             /\ c.min \in Numbers /\ c.min \in Words
             /\ c.max \in Numbers /\ c.max \in Words
             /\ CurrentEpp(c) \in Words
             /\ CurrentEpp(c) = "none" \/ CurrentEpp(c) \in Numbers
             /\ c.governor = Empty => CurrentEpp(c) = "none"
             /\ c.governor # Empty => c.governor \in Governors
  <1>. DEFINE c == before.cores[i]
  <1>1. c \in Cores /\ i - 1 \in 0..(Len(Numerals) - 1)
    BY MachineFacts
  <1>2. Numeral(i - 1) \in Numbers /\ Numeral(i - 1) \in Words
    BY <1>1, NumeralFacts
  <1>3. c.governor \in Governors \cup {Empty} /\ c.min \in Numbers /\ c.max \in Numbers
    BY <1>1 DEF Cores
  <1>4. c.governor \in Words /\ c.min \in Words /\ c.max \in Words
    BY <1>3, TokenAssumption DEF Words
  <1>5. CurrentEpp(c) = "none" \/ CurrentEpp(c) \in Numbers
    BY DEF CurrentEpp
  <1>6. CurrentEpp(c) \in Words
    BY <1>5, TokenAssumption DEF Words
  <1>7. ASSUME c.governor = Empty PROVE CurrentEpp(c) = "none"
    <2>1. c.epp = "absent"
      BY <1>7, MachineFacts DEF Machine
    <2>. QED BY <2>1, TokenAssumption DEF CurrentEpp
  <1>. QED BY <1>2, <1>3, <1>4, <1>5, <1>6, <1>7 DEF Snapshot

\* The line of a core, as a sequence of tokens.
LEMMA CoreLineFacts ==
  ASSUME Machine(before), NEW i \in 1..NumCores
  PROVE  LET c == before.cores[i]
             line == CoreLine(Snapshot(i - 1, c))
         IN  /\ line \in Seq(Words)
             /\ c.governor = Empty => line = <<Numeral(i - 1), c.min, c.max, "none">>
             /\ c.governor # Empty =>
                  /\ line = <<Numeral(i - 1), c.governor, c.min, c.max, CurrentEpp(c)>>
                  /\ Len(line) = 5
  <1>. DEFINE c == before.cores[i]
              core == Snapshot(i - 1, c)
              line == CoreLine(core)
  <1>1. /\ core.id = Numeral(i - 1) /\ core.governor = c.governor /\ core.min = c.min
        /\ core.max = c.max /\ core.epp = CurrentEpp(c)
        /\ core.id \in Words /\ core.governor \in Words /\ core.min \in Words
        /\ core.max \in Words /\ core.epp \in Words
        /\ c.governor = Empty => core.epp = "none"
    <2>1. /\ core = [id |-> Numeral(i - 1), governor |-> c.governor, min |-> c.min,
                      max |-> c.max, epp |-> CurrentEpp(c)]
          /\ Numeral(i - 1) \in Words /\ c.governor \in Words /\ c.min \in Words
          /\ c.max \in Words /\ CurrentEpp(c) \in Words
          /\ c.governor = Empty => CurrentEpp(c) = "none"
      BY SnapshotFacts
    <2>. HIDE DEF core, c
    <2>. QED BY <2>1
  <1>. HIDE DEF core
  <1>2. /\ core.governor = Empty => line = <<core.id, core.min, core.max, core.epp>>
        /\ core.governor # Empty =>
             line = <<core.id, core.governor, core.min, core.max, core.epp>>
    BY ONLY <1>1, CoreLineTokens
  <1>. HIDE DEF line, c
  <1>3. line \in Seq(Words)
    <2>1. /\ <<core.id, core.min, core.max, core.epp>> \in Seq(Words)
          /\ <<core.id, core.governor, core.min, core.max, core.epp>> \in Seq(Words)
      BY ONLY <1>1, Tuples
    <2>. QED BY ONLY <1>2, <2>1
  <1>4. c.governor # Empty => Len(line) = 5
    BY <1>1, <1>2
  <1>5. /\ c.governor = Empty => line = <<Numeral(i - 1), c.min, c.max, "none">>
        /\ c.governor # Empty =>
             line = <<Numeral(i - 1), c.governor, c.min, c.max, CurrentEpp(c)>>
    BY <1>1, <1>2
  <1>. QED BY <1>3, <1>4, <1>5 DEF line, core, c
-----------------------------------------------------------------------------
(* save(): each line leaves what is written, and comes to its own place.    *)

LEMMA HeadFacts ==
  ASSUME Machine(before)
  PROVE  <<before.sysctl["swappiness"], before.sysctl["vfs_cache_pressure"],
           before.sysctl["dirty_ratio"], before.sysctl["dirty_background_ratio"],
           Numeral(NumCores)>> \in Seq(Words)
  <1>1. /\ before.sysctl["swappiness"] \in Words
        /\ before.sysctl["vfs_cache_pressure"] \in Words
        /\ before.sysctl["dirty_ratio"] \in Words
        /\ before.sysctl["dirty_background_ratio"] \in Words
    BY MachineFacts DEF Sysctls
  <1>2. Numeral(NumCores) \in Words
    BY MachineFacts, NumeralFacts
  <1>. QED BY ONLY <1>1, <1>2, Tuples

LEMMA DeviceFacts ==
  ASSUME Machine(before), NEW i \in 1..NumDevices
  PROVE  LET d == before.devices[i] IN
         /\ d = [name |-> d.name, scheduler |-> d.scheduler]
         /\ d.name \in Words /\ d.scheduler \in Words
         /\ d.name \notin Schedulers /\ d.name # Empty
         /\ d.scheduler # Empty => d.scheduler \in Schedulers
         /\ \A j \in 1..NumDevices : before.devices[j].name = d.name => j = i
         /\ DeviceLine(d) \in Seq(Words)
         /\ d.scheduler = Empty => DeviceLine(d) = <<d.name>>
         /\ d.scheduler # Empty => DeviceLine(d) = <<d.name, d.scheduler>>
  <1>. DEFINE d == before.devices[i]
  <1>1. d \in Devices /\ i \in DOMAIN before.devices /\ DOMAIN before.devices = 1..NumDevices
    BY MachineFacts
  <1>2. /\ d.name \notin Schedulers \cup {Empty}
        /\ \A j \in 1..NumDevices : before.devices[j].name = d.name => j = i
    BY <1>1 DEF Machine
  <1>. HIDE DEF d
  <1>3. /\ d = [name |-> d.name, scheduler |-> d.scheduler]
        /\ d.name \in STRING /\ d.scheduler \in Schedulers \cup {Empty}
    BY <1>1 DEF Devices
  <1>4. d.name \in Words /\ d.scheduler \in Words
    BY <1>3, TokenAssumption DEF Words
  <1>5. /\ d.scheduler = Empty => DeviceLine(d) = <<d.name>>
        /\ d.scheduler # Empty => DeviceLine(d) = <<d.name, d.scheduler>>
    BY ONLY <1>4, DeviceLineTokens
  <1>6. <<d.name>> \in Seq(Words) /\ <<d.name, d.scheduler>> \in Seq(Words)
    BY ONLY <1>4, Tuples
  <1>7. DeviceLine(d) \in Seq(Words)
    BY ONLY <1>5, <1>6
  <1>. QED BY <1>2, <1>3, <1>4, <1>5, <1>7 DEF d

LEMMA HeadStays ==
  ASSUME Machine(before), before' = before, file \in Seq(Words),
         NEW line \in Seq(Words), file' = file \o line, HeadWritten
  PROVE  HeadWritten'
  <1>. DEFINE head == <<before.sysctl["swappiness"], before.sysctl["vfs_cache_pressure"],
                        before.sysctl["dirty_ratio"], before.sysctl["dirty_background_ratio"],
                        Numeral(NumCores)>>
  <1>1. head \in Seq(Words) /\ head' = head
    BY HeadFacts DEF NumCores, Numeral
  <1>2. TokensAt(file, 1, head)
    BY DEF HeadWritten
  <1>. HIDE DEF head
  <1>3. TokensAt(file \o line, 1, head)
    BY <1>1, <1>2, TokensStay
  <1>4. TokensAt(file', 1, head')
    BY <1>1, <1>3
  <1>. QED BY <1>4 DEF HeadWritten, head

LEMMA CoresStay ==
  ASSUME Machine(before), before' = before, file \in Seq(Words),
         NEW line \in Seq(Words), file' = file \o line,
         NEW n \in 0..NumCores, CoresWritten(n)
  PROVE  CoresWritten(n)'
  <1>. SUFFICES ASSUME NEW i \in 1..n, Governed(i - 1)'
                PROVE  TokensAt(file, 5 * i + 1, CoreLine(Snapshot(i - 1, before.cores[i])))'
    BY DEF CoresWritten
  <1>1. i \in 1..NumCores /\ 5 * i + 1 \in Nat \ {0}
    BY MachineFacts
  <1>. DEFINE core == CoreLine(Snapshot(i - 1, before.cores[i]))
  <1>2. core \in Seq(Words)
    BY <1>1, CoreLineFacts
  <1>3. TokensAt(file, 5 * i + 1, core)
    BY DEF CoresWritten, Governed
  <1>4. TokensAt(file \o line, 5 * i + 1, core)
    BY ONLY <1>1, <1>2, <1>3, file \in Seq(Words), line \in Seq(Words), TokensStay
  <1>5. core' = core
    BY DEF CoreLine, Snapshot, Token, Numeral, CurrentEpp
  <1>. HIDE DEF core
  <1>6. TokensAt(file', 5 * i + 1, core')
    BY <1>4, <1>5
  <1>. QED BY <1>6 DEF core

LEMMA CoreComes ==
  ASSUME Machine(before), before' = before, file \in Seq(Words),
         NEW n \in 0..NumCores, n < NumCores, CoresSaved(n),
         file' = file \o CoreLine(Snapshot(n, before.cores[n + 1]))
  PROVE  file' \in Seq(Words) /\ CoresSaved(n + 1)'
  <1>. DEFINE line == CoreLine(Snapshot(n, before.cores[n + 1]))
  <1>1. n + 1 \in 1..NumCores /\ (n + 1) - 1 = n /\ NumCores \in Nat /\ NumCores' = NumCores
    BY MachineFacts DEF NumCores
  <1>2. /\ line \in Seq(Words)
        /\ before.cores[n + 1].governor # Empty => Len(line) = 5
    <2>1. LET c == before.cores[n + 1]
              core == CoreLine(Snapshot((n + 1) - 1, c))
          IN  core \in Seq(Words) /\ (c.governor # Empty => Len(core) = 5)
      BY <1>1, CoreLineFacts
    <2>. QED BY <1>1, <2>1
  <1>3. \A k \in 0..NumCores : Governed(k)' <=> Governed(k)
    BY DEF Governed
  <1>4. HeadWritten' /\ CoresWritten(n)'
    BY <1>2, HeadStays, CoresStay DEF CoresSaved
  <1>5. line' = line
    BY DEF CoreLine, Snapshot, Token, Numeral, CurrentEpp
  <1>6. Governed(n) => TokensAt(file', 5 * (n + 1) + 1, line')
    <2>1. TokensAt(file \o line, Len(file) + 1, line)
      BY <1>2, TokensAppended
    <2>2. Governed(n) => Len(file) + 1 = 5 * (n + 1) + 1
      <3>1. Governed(n) => Len(file) = 5 * n + 5
        BY DEF CoresSaved
      <3>2. n \in Nat
        BY <1>1
      <3>. QED BY ONLY <3>1, <3>2
    <2>. QED BY <1>5, <2>1, <2>2
  <1>7. CoresWritten(n + 1)'
    <2>. SUFFICES ASSUME NEW i \in 1..(n + 1), Governed(i - 1)'
                  PROVE  TokensAt(file, 5 * i + 1, CoreLine(Snapshot(i - 1, before.cores[i])))'
      BY DEF CoresWritten
    <2>1. CASE i = n + 1
      BY <1>1, <1>3, <1>6, <2>1
    <2>2. CASE i \in 1..n
      BY <1>4, <2>2 DEF CoresWritten
    <2>. QED BY <2>1, <2>2
  <1>8. Governed(n + 1) => Len(file') = 5 * (n + 1) + 5
    <2>. SUFFICES ASSUME Governed(n + 1) PROVE Len(file') = 5 * (n + 1) + 5
      OBVIOUS
    <2>1. Governed(n) /\ before.cores[n + 1].governor # Empty
      BY DEF Governed
    <2>2. Len(file) = 5 * n + 5 /\ Len(line) = 5
      BY <1>2, <2>1 DEF CoresSaved
    <2>3. Len(file \o line) = Len(file) + Len(line)
      BY <1>2, Appended
    <2>. QED BY <1>1, <2>2, <2>3
  <1>9. file' \in Seq(Words)
    BY <1>2, Appended
  <1>. QED BY <1>1, <1>3, <1>4, <1>7, <1>8, <1>9 DEF CoresSaved

LEMMA DeviceEndFacts ==
  ASSUME Machine(before)
  PROVE  /\ \A i \in Nat : DeviceEnd(i) \in Nat \ {0} /\ DeviceEnd(i) = 6 + 5 * NumCores + 2 * i
         /\ \A i \in Nat : i # 0 => DeviceEnd(i) - 1 \in Nat \ {0}
         /\ before' = before =>
              /\ \A i \in Nat : DeviceEnd(i)' = DeviceEnd(i)
              /\ NumCores' = NumCores /\ NumDevices' = NumDevices
              /\ \A i : Governed(i)' <=> Governed(i)
              /\ \A i : Scheduled(i)' <=> Scheduled(i)
  <1>1. NumCores \in Nat
    BY MachineFacts
  <1>2. \A i \in Nat : DeviceEnd(i) = 6 + 5 * NumCores + 2 * i
    BY DEF DeviceEnd
  <1>3. before' = before =>
              /\ \A i \in Nat : DeviceEnd(i)' = DeviceEnd(i)
              /\ NumCores' = NumCores /\ NumDevices' = NumDevices
              /\ \A i : Governed(i)' <=> Governed(i)
              /\ \A i : Scheduled(i)' <=> Scheduled(i)
    BY DEF DeviceEnd, NumCores, NumDevices, Governed, Scheduled
  <1>4. \A i \in Nat : 6 + 5 * NumCores + 2 * i \in Nat \ {0}
    BY <1>1
  <1>5. \A i \in Nat : i # 0 => 6 + 5 * NumCores + 2 * i - 1 \in Nat \ {0}
    BY <1>1
  <1>6. ASSUME NEW i \in Nat, i # 0
        PROVE  DeviceEnd(i) - 1 \in Nat \ {0}
    <2>1. DeviceEnd(i) = 6 + 5 * NumCores + 2 * i
      BY <1>2
    <2>2. 6 + 5 * NumCores + 2 * i - 1 \in Nat \ {0}
      BY <1>5, <1>6
    <2>. QED BY <1>1, <1>6, <2>1, <2>2
  <1>7. \A i \in Nat : DeviceEnd(i) \in Nat \ {0}
    BY ONLY <1>2, <1>4
  <1>. QED BY ONLY <1>2, <1>3, <1>6, <1>7

LEMMA DeviceCountComes ==
  ASSUME Machine(before), before' = before, file \in Seq(Words), CoresSaved(NumCores),
         file' = Append(file, Numeral(NumDevices))
  PROVE  file' \in Seq(Words) /\ DevicesSaved(0)'
  <1>. DEFINE count == Numeral(NumDevices)
              line == <<count>>
  <1>1. NumCores \in Nat /\ NumDevices \in Nat /\ NumCores \in 0..NumCores
    BY MachineFacts
  <1>2. count \in Words /\ count' = count
    BY MachineFacts, NumeralFacts DEF NumDevices, Numeral
  <1>. HIDE DEF count
  <1>3. line \in Seq(Words) /\ Len(line) = 1
    BY <1>2, Tuples
  <1>4. file' = file \o line
    BY <1>2, AppendIsConcat DEF count
  <1>. HIDE DEF line
  <1>5. HeadWritten' /\ CoresWritten(NumCores)'
    <2>1. HeadWritten /\ CoresWritten(NumCores)
      BY DEF CoresSaved
    <2>2. HeadWritten'
      BY <1>3, <1>4, <2>1, HeadStays
    <2>3. PICK n \in 0..NumCores : n = NumCores
      BY <1>1
    <2>4. CoresWritten(n)'
      BY <1>3, <1>4, <2>1, <2>3, CoresStay
    <2>5. CoresWritten(NumCores)'
      BY <2>3, <2>4, DeviceEndFacts DEF CoresWritten
    <2>. QED BY <2>2, <2>5
  <1>6. file' \in Seq(Words) /\ Len(file') = Len(file) + 1
    BY ONLY <1>3, <1>4, file \in Seq(Words), Appended
  <1>7. ASSUME Governed(NumCores)
        PROVE  DeviceCountWritten' /\ DevicesWritten(0)' /\ Len(file') = DeviceEnd(0)
    <2>1. Len(file) = 5 * NumCores + 5
      BY <1>7 DEF CoresSaved
    <2>2. DeviceEnd(0) = 6 + 5 * NumCores + 2 * 0 /\ DeviceEnd(0)' = DeviceEnd(0)
      BY DeviceEndFacts
    <2>3. Len(file) + 1 = DeviceEnd(0)
      BY ONLY <1>1, <2>1, <2>2
    <2>4. TokensAt(file', DeviceEnd(0), line)
      BY <1>3, <1>4, <2>3, TokensAppended
    <2>5. DeviceCountWritten'
      BY <1>2, <2>2, <2>4 DEF DeviceCountWritten, line, count
    <2>6. DevicesWritten(0)'
      BY DEF DevicesWritten
    <2>. QED BY <1>6, <2>3, <2>5, <2>6
  <1>. QED BY <1>5, <1>6, <1>7, DeviceEndFacts DEF DevicesSaved

LEMMA DevicesStay ==
  ASSUME Machine(before), before' = before, file \in Seq(Words), NEW n \in Nat,
         n < NumDevices, file' = file \o DeviceLine(before.devices[n + 1]),
         NEW i \in 1..n, Scheduled(i), DevicesWritten(n)
  PROVE  /\ TokensAt(file', DeviceEnd(i) - 1, <<before.devices[i].name, before.devices[i].scheduler>>)
         /\ \A k \in DeviceEnd(i)..Len(file') : file'[k] # before.devices[i].name
  <1>. DEFINE next == before.devices[n + 1]
              line == DeviceLine(next)
              d == before.devices[i]
  <1>1. i \in 1..NumDevices /\ n + 1 \in 1..NumDevices /\ i # n + 1 /\ i \in Nat /\ i # 0
    BY MachineFacts
  <1>2. /\ line \in Seq(Words)
        /\ next.name \in Words /\ next.scheduler \in Words
        /\ next.scheduler = Empty => line = <<next.name>>
        /\ next.scheduler # Empty => line = <<next.name, next.scheduler>>
        /\ next.scheduler # Empty => next.scheduler \in Schedulers
    BY <1>1, DeviceFacts
  <1>3. d.name \in Words /\ d.scheduler \in Words /\ d.name \notin Schedulers
    BY <1>1, DeviceFacts
  <1>4. next.name # d.name
    BY <1>1, DeviceFacts
  <1>. HIDE DEF next, line, d
  <1>5. \A j \in 1..Len(line) : line[j] # d.name
    <2>1. CASE next.scheduler = Empty
      <3>1. line = <<next.name>>
        BY <1>2, <2>1
      <3>2. Len(line) = 1 /\ line[1] = next.name
        BY <3>1
      <3>. QED BY ONLY <1>4, <3>2
    <2>2. CASE next.scheduler # Empty
      <3>1. line = <<next.name, next.scheduler>> /\ next.scheduler # d.name
        BY <1>2, <1>3, <2>2
      <3>2. Len(line) = 2 /\ line[1] = next.name /\ line[2] = next.scheduler
        BY <3>1
      <3>. QED BY ONLY <1>4, <3>1, <3>2
    <2>. QED BY <2>1, <2>2
  <1>6. file' = file \o line
    BY DEF line, next
  <1>7. /\ TokensAt(file, DeviceEnd(i) - 1, <<d.name, d.scheduler>>)
        /\ \A k \in DeviceEnd(i)..Len(file) : file[k] # d.name
    BY DEF DevicesWritten, d
  <1>8. TokensAt(file', DeviceEnd(i) - 1, <<d.name, d.scheduler>>)
    <2>1. <<d.name, d.scheduler>> \in Seq(Words)
      BY <1>3, Tuples
    <2>2. DeviceEnd(i) - 1 \in Nat \ {0}
      BY <1>1, DeviceEndFacts
    <2>3. TokensAt(file \o line, DeviceEnd(i) - 1, <<d.name, d.scheduler>>)
      BY ONLY <1>2, <1>7, <2>1, <2>2, file \in Seq(Words), TokensStay
    <2>. QED BY <1>6, <2>3
  <1>9. ASSUME NEW k \in DeviceEnd(i)..Len(file')
        PROVE  file'[k] # d.name
    <2>1. /\ Len(file') = Len(file) + Len(line)
          /\ \A j \in 1..Len(file) : file'[j] = file[j]
          /\ \A j \in 1..Len(line) : file'[Len(file) + j] = line[j]
          /\ Len(file) \in Nat /\ Len(line) \in Nat
      BY ONLY <1>2, <1>6, file \in Seq(Words), Appended
    <2>2. DeviceEnd(i) \in Nat \ {0}
      BY <1>1, DeviceEndFacts
    <2>3. CASE k <= Len(file)
      BY <1>7, <2>1, <2>2, <2>3
    <2>4. CASE k > Len(file)
      <3>1. k - Len(file) \in 1..Len(line) /\ Len(file) + (k - Len(file)) = k
        BY <2>1, <2>2, <2>4
      <3>. QED BY <1>5, <2>1, <3>1
    <2>. QED BY <2>1, <2>2, <2>3, <2>4
  <1>. QED BY <1>8, <1>9 DEF d

LEMMA DeviceComes ==
  ASSUME Machine(before), before' = before, file \in Seq(Words), NEW n \in Nat,
         n < NumDevices, DevicesSaved(n),
         file' = file \o DeviceLine(before.devices[n + 1])
  PROVE  file' \in Seq(Words) /\ DevicesSaved(n + 1)'
  <1>. DEFINE d == before.devices[n + 1]
              line == DeviceLine(d)
  <1>1. n + 1 \in 1..NumDevices /\ NumCores \in Nat /\ NumDevices \in Nat /\ n + 1 \in Nat
    BY MachineFacts
  <1>2. /\ line \in Seq(Words)
        /\ d.name \in Words /\ d.scheduler \in Words
        /\ d.name \notin Schedulers
        /\ d.scheduler # Empty => line = <<d.name, d.scheduler>> /\ d.scheduler \in Schedulers
    BY <1>1, DeviceFacts
  <1>3. file' = file \o line
    OBVIOUS
  <1>. HIDE DEF line, d
  <1>4. HeadWritten' /\ CoresWritten(NumCores)'
    <2>1. HeadWritten /\ CoresWritten(NumCores)
      BY DEF DevicesSaved
    <2>2. HeadWritten'
      BY <1>2, <1>3, <2>1, HeadStays
    <2>3. PICK m \in 0..NumCores : m = NumCores
      BY <1>1
    <2>4. CoresWritten(m)'
      BY <1>2, <1>3, <2>1, <2>3, CoresStay
    <2>5. CoresWritten(NumCores)'
      BY <2>3, <2>4, DeviceEndFacts DEF CoresWritten
    <2>. QED BY <2>2, <2>5
  <1>5. file' \in Seq(Words) /\ Len(file') = Len(file) + Len(line)
    BY ONLY <1>2, <1>3, file \in Seq(Words), Appended
  <1>. SUFFICES ASSUME Governed(NumCores)
                PROVE  /\ DeviceCountWritten'
                       /\ DevicesWritten(n + 1)'
                       /\ Scheduled(n + 1) => Len(file') = DeviceEnd(n + 1)
    BY <1>1, <1>4, <1>5, DeviceEndFacts DEF DevicesSaved
  <1>6. DeviceCountWritten /\ DevicesWritten(n) /\ (Scheduled(n) => Len(file) = DeviceEnd(n))
    BY DEF DevicesSaved
  <1>7. DeviceCountWritten'
    <2>1. Numeral(NumDevices) \in Words
      BY MachineFacts, NumeralFacts
    <2>2. <<Numeral(NumDevices)>> \in Seq(Words) /\ DeviceEnd(0) \in Nat \ {0}
      BY <2>1, Tuples, DeviceEndFacts
    <2>3. TokensAt(file', DeviceEnd(0), <<Numeral(NumDevices)>>)
      BY <1>2, <1>3, <1>6, <2>2, TokensStay DEF DeviceCountWritten
    <2>. QED BY <2>3, DeviceEndFacts DEF DeviceCountWritten, Numeral
  <1>8. ASSUME Scheduled(n + 1)
        PROVE  /\ Len(file') = DeviceEnd(n + 1)
               /\ TokensAt(file', DeviceEnd(n + 1) - 1, <<d.name, d.scheduler>>)
               /\ \A k \in DeviceEnd(n + 1)..Len(file') : file'[k] # d.name
    <2>1. Scheduled(n) /\ d.scheduler # Empty
      BY <1>8 DEF Scheduled, d
    <2>2. line = <<d.name, d.scheduler>> /\ Len(file) = DeviceEnd(n)
      BY <1>2, <1>6, <2>1
    <2>3. /\ DeviceEnd(n) = 6 + 5 * NumCores + 2 * n
          /\ DeviceEnd(n + 1) = 6 + 5 * NumCores + 2 * (n + 1)
      BY <1>1, DeviceEndFacts
    <2>4. Len(file) + 1 = DeviceEnd(n + 1) - 1 /\ Len(file) + 2 = DeviceEnd(n + 1)
      BY <1>1, <2>2, <2>3
    <2>5. Len(line) = 2 /\ line[2] = d.scheduler
      BY <2>2
    <2>6. Len(file') = DeviceEnd(n + 1)
      BY <1>5, <2>4, <2>5
    <2>7. TokensAt(file', DeviceEnd(n + 1) - 1, line)
      BY <1>2, <1>3, <2>4, TokensAppended
    <2>8. file'[DeviceEnd(n + 1)] = d.scheduler
      <3>1. (file \o line)[Len(file) + 2] = line[2]
        <4>1. 2 \in 1..Len(line)
          BY <2>5
        <4>. QED BY ONLY <1>2, <4>1, file \in Seq(Words), Appended
      <3>. QED BY <1>3, <2>4, <2>5, <3>1
    <2>9. d.scheduler # d.name
      BY <1>2, <2>1
    <2>10. DeviceEnd(n + 1) \in Nat
      BY <1>1, DeviceEndFacts
    <2>11. TokensAt(file', DeviceEnd(n + 1) - 1, <<d.name, d.scheduler>>)
      BY <2>2, <2>7
    <2>12. ASSUME NEW k \in DeviceEnd(n + 1)..Len(file')
           PROVE  file'[k] # d.name
      <3>1. k = DeviceEnd(n + 1)
        BY ONLY <2>6, <2>10
      <3>. QED BY <2>8, <2>9, <3>1
    <2>. QED BY <2>6, <2>11, <2>12
  <1>9. DevicesWritten(n + 1)'
    <2>. SUFFICES ASSUME NEW i \in 1..(n + 1), Scheduled(i)'
                  PROVE  (/\ TokensAt(file, DeviceEnd(i) - 1,
                                      <<before.devices[i].name, before.devices[i].scheduler>>)
                          /\ \A k \in DeviceEnd(i)..Len(file) : file[k] # before.devices[i].name)'
      BY DEF DevicesWritten
    <2>1. Scheduled(i) /\ DeviceEnd(i)' = DeviceEnd(i)
      BY <1>1, DeviceEndFacts
    <2>2. CASE i = n + 1
      BY <1>8, <2>1, <2>2 DEF d
    <2>3. CASE i \in 1..n
      <3>1. /\ TokensAt(file', DeviceEnd(i) - 1, <<before.devices[i].name, before.devices[i].scheduler>>)
            /\ \A k \in DeviceEnd(i)..Len(file') : file'[k] # before.devices[i].name
        BY <1>6, <2>1, <2>3, DevicesStay
      <3>2. before'.devices[i] = before.devices[i]
        OBVIOUS
      <3>. QED BY ONLY <2>1, <3>1, <3>2
    <2>4. i = n + 1 \/ i \in 1..n
      OBVIOUS
    <2>. QED BY ONLY <2>2, <2>3, <2>4
  <1>. QED BY <1>7, <1>8, <1>9

-----------------------------------------------------------------------------
(* load(): what a line extracts.                                            *)

LEMMA EmptyIsNoToken == Empty # "none" /\ Empty \notin Numbers
  <1>1. Empty # "none"
    BY Zenon DEF Empty
  <1>. QED BY <1>1, TokenAssumption

LEMMA HeadExtracts ==
  ASSUME Machine(before), HeadWritten, file \in Seq(Words), stream = [read |-> 0, ok |-> TRUE]
  PROVE  /\ Value(HeadKinds, 1) = before.sysctl["swappiness"]
         /\ Value(HeadKinds, 2) = before.sysctl["vfs_cache_pressure"]
         /\ Value(HeadKinds, 3) = before.sysctl["dirty_ratio"]
         /\ Value(HeadKinds, 4) = before.sysctl["dirty_background_ratio"]
         /\ Value(HeadKinds, 5) = Numeral(NumCores)
         /\ Extracts(HeadKinds, 5)
  <1>1. /\ before.sysctl["swappiness"] \in Numbers
        /\ before.sysctl["vfs_cache_pressure"] \in Numbers
        /\ before.sysctl["dirty_ratio"] \in Numbers
        /\ before.sysctl["dirty_background_ratio"] \in Numbers
        /\ Numeral(NumCores) \in Numbers
    BY MachineFacts, NumeralFacts DEF Sysctls
  <1>2. /\ Len(file) >= 5
        /\ file[1] = before.sysctl["swappiness"]
        /\ file[2] = before.sysctl["vfs_cache_pressure"]
        /\ file[3] = before.sysctl["dirty_ratio"]
        /\ file[4] = before.sysctl["dirty_background_ratio"]
        /\ file[5] = Numeral(NumCores)
    <2>1. TokensAt(file, 1, <<before.sysctl["swappiness"], before.sysctl["vfs_cache_pressure"],
                              before.sysctl["dirty_ratio"], before.sysctl["dirty_background_ratio"],
                              Numeral(NumCores)>>)
      BY DEF HeadWritten
    <2>2. Len(file) \in Nat
      OBVIOUS
    <2>3. \A a, b, c, d, e : TokensAt(file, 1, <<a, b, c, d, e>>) =>
            /\ Len(file) >= 5
            /\ file[1] = a /\ file[2] = b /\ file[3] = c /\ file[4] = d /\ file[5] = e
      BY <2>2 DEF TokensAt
    <2>. QED BY ONLY <2>1, <2>3
  <1>3. \A k \in 1..5 : file[k] \in Numbers
    BY <1>1, <1>2
  <1>4. stream.read = 0 /\ stream.ok
    OBVIOUS
  <1>5. \A n \in 1..5 : Extracts(HeadKinds, n)
    BY <1>2, <1>3, <1>4 DEF Extracts
  <1>6. \A n \in 1..5 : Value(HeadKinds, n) = file[n]
    BY <1>4, <1>5 DEF Value
  <1>. QED BY <1>2, <1>5, <1>6

\* A core's line is read as it was captured, or load() throws at its EPP.
LEMMA CoreExtracts ==
  ASSUME Machine(before), CoresWritten(NumCores), NEW n \in Nat, n < NumCores, Governed(n),
         stream = [read |-> 5 + 5 * n, ok |-> TRUE]
  PROVE  LET c == before.cores[n + 1] IN
         /\ c.governor = Empty => EppThrows
         /\ c.governor # Empty =>
              /\ ~ EppThrows
              /\ Extracts(CoreKinds, 5)
              /\ [id |-> Value(CoreKinds, 1), governor |-> Value(CoreKinds, 2),
                  min |-> Value(CoreKinds, 3), max |-> Value(CoreKinds, 4),
                  epp |-> EppToken] = Snapshot(n, c)
  <1>. DEFINE c == before.cores[n + 1]
              line == CoreLine(Snapshot(n, c))
              r == 5 + 5 * n
  <1>1. n + 1 \in 1..NumCores /\ (n + 1) - 1 = n /\ 5 * (n + 1) + 1 = r + 1 /\ r \in Nat
    BY MachineFacts
  <1>2. /\ c.governor = Empty => line = <<Numeral(n), c.min, c.max, "none">>
        /\ c.governor # Empty => line = <<Numeral(n), c.governor, c.min, c.max, CurrentEpp(c)>>
    <2>1. LET d == before.cores[n + 1]
              l == CoreLine(Snapshot((n + 1) - 1, d))
          IN  /\ d.governor = Empty => l = <<Numeral((n + 1) - 1), d.min, d.max, "none">>
              /\ d.governor # Empty =>
                   l = <<Numeral((n + 1) - 1), d.governor, d.min, d.max, CurrentEpp(d)>>
      BY <1>1, CoreLineFacts
    <2>. QED BY <1>1, <2>1
  <1>3. /\ Snapshot(n, c) = [id |-> Numeral(n), governor |-> c.governor,
                             min |-> c.min, max |-> c.max, epp |-> CurrentEpp(c)]
        /\ Numeral(n) \in Numbers /\ c.min \in Numbers /\ c.max \in Numbers
        /\ CurrentEpp(c) = "none" \/ CurrentEpp(c) \in Numbers
    <2>1. LET d == before.cores[n + 1]
          IN  /\ Snapshot((n + 1) - 1, d)
                   = [id |-> Numeral((n + 1) - 1), governor |-> d.governor,
                      min |-> d.min, max |-> d.max, epp |-> CurrentEpp(d)]
              /\ Numeral((n + 1) - 1) \in Numbers /\ d.min \in Numbers /\ d.max \in Numbers
              /\ CurrentEpp(d) = "none" \/ CurrentEpp(d) \in Numbers
      BY <1>1, SnapshotFacts
    <2>. QED BY <1>1, <2>1
  <1>4. TokensAt(file, r + 1, line)
    <2>1. Governed((n + 1) - 1) =>
            TokensAt(file, 5 * (n + 1) + 1, CoreLine(Snapshot((n + 1) - 1, before.cores[n + 1])))
      BY <1>1 DEF CoresWritten
    <2>. QED BY <1>1, <2>1
  <1>5. stream.read = r /\ stream.ok
    OBVIOUS
  <1>. HIDE DEF c, line, r
  <1>6. ASSUME c.governor = Empty
        PROVE  EppThrows
    <2>1. file[r + 4] = "none"
      <3>1. TokensAt(file, r + 1, <<Numeral(n), c.min, c.max, "none">>)
        BY <1>2, <1>4, <1>6
      <3>2. r + 1 \in Nat \ {0} /\ (r + 1) + 3 = r + 4
        BY <1>1
      <3>3. \A a, b, d, e : TokensAt(file, r + 1, <<a, b, d, e>>) => file[r + 4] = e
        BY <1>1, <3>2, FourTokens
      <3>. QED BY ONLY <3>1, <3>3
    <2>2. ~ Extracts(CoreKinds, 5)
      BY <1>5, <2>1, TokenAssumption DEF Extracts, CoreKinds
    <2>3. Value(CoreKinds, 5) = Empty
      BY <2>2 DEF Value, CoreKinds
    <2>. QED BY <2>3, EmptyIsNoToken DEF EppThrows, EppToken
  <1>7. ASSUME c.governor # Empty
        PROVE  /\ ~ EppThrows
               /\ Extracts(CoreKinds, 5)
               /\ [id |-> Value(CoreKinds, 1), governor |-> Value(CoreKinds, 2),
                   min |-> Value(CoreKinds, 3), max |-> Value(CoreKinds, 4),
                   epp |-> EppToken] = Snapshot(n, c)
    <2>1. /\ Len(file) >= r + 5
          /\ file[r + 1] = Numeral(n) /\ file[r + 2] = c.governor /\ file[r + 3] = c.min
          /\ file[r + 4] = c.max /\ file[r + 5] = CurrentEpp(c)
      <3>1. TokensAt(file, r + 1, <<Numeral(n), c.governor, c.min, c.max, CurrentEpp(c)>>)
        BY <1>2, <1>4, <1>7
      <3>2. /\ r + 1 \in Nat \ {0}
            /\ (r + 1) + 1 = r + 2 /\ (r + 1) + 2 = r + 3 /\ (r + 1) + 3 = r + 4
            /\ (r + 1) + 4 = r + 5
        BY <1>1
      <3>. QED BY ONLY <3>1, <3>2, FiveTokens
    <2>2. \A m \in 1..5 : r + m <= Len(file)
      BY ONLY <1>1, <2>1
    <2>3. \A k \in 1..5 : CoreKinds[k] = "number" => file[r + k] \in Numbers
      BY <1>3, <2>1 DEF CoreKinds
    <2>4. \A m \in 1..5 : Extracts(CoreKinds, m)
      <3>. TAKE m \in 1..5
      <3>1. \A k \in 1..m : k \in 1..5
        OBVIOUS
      <3>. QED BY <1>5, <2>2, <2>3, <3>1 DEF Extracts
    <2>5. \A m \in 1..5 : Value(CoreKinds, m) = file[r + m]
      BY <1>5, <2>4 DEF Value
    <2>6. EppToken = CurrentEpp(c)
      BY <2>1, <2>5 DEF EppToken
    <2>7. ~ EppThrows
      BY <1>3, <2>6 DEF EppThrows
    <2>. QED BY <1>3, <2>1, <2>4, <2>5, <2>6, <2>7
  <1>. QED BY <1>6, <1>7 DEF c

LEMMA DeviceCountExtracts ==
  ASSUME Machine(before), DeviceCountWritten,
         stream = [read |-> 5 + 5 * NumCores, ok |-> TRUE]
  PROVE  Value(<<"number">>, 1) = Numeral(NumDevices) /\ Extracts(<<"number">>, 1)
  <1>1. /\ Numeral(NumDevices) \in Numbers
        /\ NumCores \in Nat
    BY MachineFacts, NumeralFacts
  <1>2. DeviceEnd(0) = 6 + 5 * NumCores + 2 * 0 /\ DeviceEnd(0) \in Nat \ {0}
    BY DeviceEndFacts
  <1>3. Len(file) >= DeviceEnd(0) /\ file[DeviceEnd(0)] = Numeral(NumDevices)
    BY <1>2, OneToken DEF DeviceCountWritten
  <1>4. stream.read + 1 = DeviceEnd(0) /\ stream.ok
    BY <1>1, <1>2
  <1>5. Extracts(<<"number">>, 1)
    BY <1>1, <1>2, <1>3, <1>4 DEF Extracts
  <1>. QED BY <1>3, <1>4, <1>5 DEF Value

\* The pair of a device in its place is read as it was captured; no pair after
\* it has its name.
LEMMA DeviceExtracts ==
  ASSUME Machine(before), DevicesWritten(NumDevices), file \in Seq(Words),
         NEW n \in Nat, n < NumDevices,
         stream.read = DeviceEnd(n), Scheduled(n) => stream.ok
  PROVE  LET pair == [name |-> Value(DeviceKinds, 1), scheduler |-> Value(DeviceKinds, 2)] IN
         /\ pair.name \in Words /\ pair.scheduler \in Words
         /\ Scheduled(n + 1) => Extracts(DeviceKinds, 2) /\ pair = before.devices[n + 1]
         /\ \A i \in 1..n : Scheduled(i) => pair.name # before.devices[i].name
  <1>. DEFINE d == before.devices[n + 1]
              r == DeviceEnd(n)
  <1>1. /\ n + 1 \in 1..NumDevices /\ r \in Nat
        /\ DeviceEnd(n + 1) = r + 2 /\ r + 1 \in Nat \ {0}
    <2>1. n + 1 \in Nat /\ NumCores \in Nat /\ n + 1 \in 1..NumDevices
      BY MachineFacts
    <2>2. /\ DeviceEnd(n) = 6 + 5 * NumCores + 2 * n
          /\ DeviceEnd(n + 1) = 6 + 5 * NumCores + 2 * (n + 1)
      BY <2>1, DeviceEndFacts
    <2>. QED BY <2>1, <2>2
  <1>2. Len(file) \in Nat /\ \A k \in 1..Len(file) : file[k] \in Words
    OBVIOUS
  <1>. HIDE DEF r
  <1>3. \A m \in 1..2 : \/ Value(DeviceKinds, m) = file[r + m] /\ r + m <= Len(file)
                        \/ Value(DeviceKinds, m) = Empty
    BY DEF Value, DeviceKinds, Extracts, r
  <1>4. \A m \in 1..2 : Value(DeviceKinds, m) \in Words
    <2>. TAKE m \in 1..2
    <2>1. Empty \in Words
      BY DEF Words
    <2>2. r + m <= Len(file) => r + m \in 1..Len(file)
      BY <1>1, <1>2
    <2>. QED BY <1>2, <1>3, <2>1, <2>2
  <1>5. ASSUME Scheduled(n + 1)
        PROVE  /\ Extracts(DeviceKinds, 2)
               /\ [name |-> Value(DeviceKinds, 1), scheduler |-> Value(DeviceKinds, 2)] = d
    <2>1. TokensAt(file, DeviceEnd(n + 1) - 1, <<d.name, d.scheduler>>)
      BY <1>1, <1>5 DEF DevicesWritten
    <2>2. DeviceEnd(n + 1) - 1 = r + 1 /\ (r + 1) + 1 = r + 2
      BY <1>1
    <2>3. Len(file) >= r + 2 /\ file[r + 1] = d.name /\ file[r + 2] = d.scheduler
      <3>1. TokensAt(file, r + 1, <<d.name, d.scheduler>>) /\ r + 1 \in Nat \ {0}
        BY ONLY <1>1, <2>1, <2>2
      <3>2. Len(file) >= (r + 1) + 1 /\ file[r + 1] = d.name /\ file[(r + 1) + 1] = d.scheduler
        BY ONLY <3>1, TwoTokens
      <3>. QED BY ONLY <2>2, <3>2
    <2>4. stream.ok /\ stream.read = r
      BY <1>1, <1>5 DEF Scheduled, r
    <2>5. \A m \in 1..2 : Extracts(DeviceKinds, m)
      BY <1>1, <1>2, <2>3, <2>4 DEF Extracts, DeviceKinds
    <2>6. Value(DeviceKinds, 1) = d.name /\ Value(DeviceKinds, 2) = d.scheduler
      BY <2>3, <2>4, <2>5 DEF Value
    <2>7. d = [name |-> d.name, scheduler |-> d.scheduler]
      BY <1>1, DeviceFacts
    <2>. QED BY <2>5, <2>6, <2>7
  <1>6. ASSUME NEW i \in 1..n, Scheduled(i)
        PROVE  Value(DeviceKinds, 1) # before.devices[i].name
    <2>1. /\ i \in 1..NumDevices /\ i \in Nat /\ NumCores \in Nat
      BY MachineFacts
    <2>2. /\ DeviceEnd(i) = 6 + 5 * NumCores + 2 * i
          /\ DeviceEnd(n) = 6 + 5 * NumCores + 2 * n
      BY <2>1, DeviceEndFacts
    <2>3. DeviceEnd(i) <= r
      BY <2>1, <2>2 DEF r
    <2>4. CASE Value(DeviceKinds, 1) = Empty
      BY <2>1, <2>4, DeviceFacts
    <2>5. CASE Value(DeviceKinds, 1) = file[r + 1] /\ r + 1 <= Len(file)
      <3>1. DeviceEnd(i) \in Nat
        BY <2>1, DeviceEndFacts
      <3>2. r + 1 \in DeviceEnd(i)..Len(file)
        BY <1>1, <1>2, <2>3, <2>5, <3>1
      <3>. QED BY <1>6, <2>1, <2>5, <3>2 DEF DevicesWritten
    <2>. QED BY <1>3, <2>4, <2>5
  <1>. QED BY <1>4, <1>5, <1>6

-----------------------------------------------------------------------------
(* The invariant is inductive: one lemma per action.                       *)

LEMMA FileSame ==
  ASSUME before' = before, file' = file
  PROVE  /\ \A n : CoresSaved(n)' <=> CoresSaved(n)
         /\ \A n : DevicesSaved(n)' <=> DevicesSaved(n)
         /\ NumCores' = NumCores /\ NumDevices' = NumDevices
         /\ FileComplete' <=> FileComplete
  <1>1. HeadWritten' <=> HeadWritten
    BY DEF HeadWritten, NumCores, Numeral
  <1>2. \A n : CoresWritten(n)' <=> CoresWritten(n)
    BY DEF CoresWritten, Governed, CoreLine, Snapshot, Token, Numeral, CurrentEpp
  <1>3. \A n : DevicesWritten(n)' <=> DevicesWritten(n)
    BY DEF DevicesWritten, Scheduled, DeviceEnd, NumCores
  <1>4. DeviceCountWritten' <=> DeviceCountWritten
    BY DEF DeviceCountWritten, DeviceEnd, NumCores, NumDevices, Numeral
  <1>5. /\ \A n : Governed(n)' <=> Governed(n)
        /\ \A n : Scheduled(n)' <=> Scheduled(n)
        /\ \A n : DeviceEnd(n)' = DeviceEnd(n)
        /\ NumCores' = NumCores /\ NumDevices' = NumDevices
    BY DEF Governed, Scheduled, DeviceEnd, NumCores, NumDevices
  <1>6. \A n : CoresSaved(n)' <=> CoresSaved(n)
    BY <1>1, <1>2, <1>5 DEF CoresSaved
  <1>7. CoresWritten(NumCores)' <=> CoresWritten(NumCores)
    BY <1>2, <1>5 DEF CoresWritten
  <1>8. \A n : DevicesSaved(n)' <=> DevicesSaved(n)
    BY <1>1, <1>3, <1>4, <1>5, <1>7 DEF DevicesSaved
  <1>9. FileComplete' <=> FileComplete
    BY <1>5, <1>8 DEF FileComplete, DevicesSaved
  <1>. QED BY <1>5, <1>6, <1>8, <1>9

LEMMA Same ==
  ASSUME before' = before
  PROVE  /\ Machine(before)' <=> Machine(before)
         /\ Captured' = Captured
         /\ kernel' = kernel => (Retuned' <=> Retuned)
         /\ memory' = memory =>
              /\ CoresLoaded' <=> CoresLoaded
              /\ AllCoresLoaded' <=> AllCoresLoaded
              /\ DevicesLoaded' <=> DevicesLoaded
              /\ AllDevicesLoaded' <=> AllDevicesLoaded
  BY DEF Machine, Captured, Snapshot, Numeral, CurrentEpp, Retuned, CoresLoaded, AllCoresLoaded,
         DevicesLoaded, AllDevicesLoaded, NumCores, NumDevices, Governed, Scheduled

\* Nothing is promised of a phase that is not the last.
LEMMA NoEnd ==
  ASSUME phase' \notin {"restored", "aborted"}
  PROVE  AbortsOnlyWithoutGovernor' /\ RestoredButForGaps'
  BY DEF AbortsOnlyWithoutGovernor, RestoredButForGaps

LEMMA InitStep ==
  ASSUME Init
  PROVE  IInv
  <1>1. Machine(before)
    BY MachineAssumption DEF Init
  <1>2. file \in Seq(Words)
    BY DEF Init
  <1>3. Saving /\ Loading
    BY DEF Init, Saving, Loading
  <1>4. AbortsOnlyWithoutGovernor /\ RestoredButForGaps
    BY DEF Init, AbortsOnlyWithoutGovernor, RestoredButForGaps
  <1>. QED BY <1>1, <1>2, <1>3, <1>4 DEF Init, IInv

LEMMA CaptureStep ==
  ASSUME IInv, CaptureCurrentState
  PROVE  IInv'
  <1>. USE DEF CaptureCurrentState
  <1>1. kernel = before /\ stream = [read |-> 0, ok |-> TRUE]
    BY DEF IInv, Saving, Loading
  <1>2. memory' = Captured
    BY <1>1 DEF Captured
  <1>3. Saving'
    BY <1>1, <1>2, Same DEF Saving
  <1>4. Loading'
    BY <1>1 DEF Loading
  <1>. QED BY <1>3, <1>4, Same, NoEnd DEF IInv

LEMMA SaveSysctlsStep ==
  ASSUME IInv, SaveSysctls
  PROVE  IInv'
  <1>. USE DEF SaveSysctls
  <1>1. kernel = before /\ stream = [read |-> 0, ok |-> TRUE] /\ memory = Captured
        /\ Machine(before)
    BY DEF IInv, Saving, Loading
  <1>2. /\ memory.sysctl = before.sysctl /\ memory.cores = Captured.cores
        /\ DOMAIN memory.cores = DOMAIN before.cores
    BY <1>1 DEF Captured
  <1>3. NumCores \in Nat /\ DOMAIN before.cores = 1..NumCores
    BY <1>1, MachineFacts
  <1>4. Len(memory.cores) = NumCores
    BY <1>1, <1>2, <1>3 DEF Captured
  <1>5. file' = <<before.sysctl["swappiness"], before.sysctl["vfs_cache_pressure"],
                  before.sysctl["dirty_ratio"], before.sysctl["dirty_background_ratio"],
                  Numeral(NumCores)>>
    BY <1>2, <1>4
  <1>6. file' \in Seq(Words)
    BY <1>1, <1>5, HeadFacts
  <1>7. CoresSaved(0)'
    <2>1. HeadWritten'
      BY <1>5 DEF HeadWritten, TokensAt, NumCores, Numeral
    <2>2. CoresWritten(0)'
      BY DEF CoresWritten
    <2>3. Len(file') = 5
      BY <1>5
    <2>. QED BY <2>1, <2>2, <2>3 DEF CoresSaved
  <1>8. left' = NumCores /\ NumCores' = NumCores /\ (NumCores - left)' = 0
    BY <1>3, <1>4 DEF NumCores
  <1>9. Saving'
    <2>1. CoresSaved(NumCores - left)'
      BY <1>7, <1>8 DEF CoresSaved, CoresWritten, Governed
    <2>. QED BY <1>1, <1>3, <1>8, <2>1, Same DEF Saving
  <1>10. Loading'
    BY <1>1 DEF Loading
  <1>. QED BY <1>3, <1>6, <1>8, <1>9, <1>10, Same, NoEnd DEF IInv

LEMMA SaveCoreStep ==
  ASSUME IInv, SaveCore
  PROVE  IInv'
  <1>. USE DEF SaveCore
  <1>1. /\ kernel = before /\ stream = [read |-> 0, ok |-> TRUE] /\ memory = Captured
        /\ Machine(before) /\ file \in Seq(Words)
        /\ left \in 0..NumCores /\ CoresSaved(NumCores - left)
    BY DEF IInv, Saving, Loading
  <1>. DEFINE n == NumCores - left
  <1>2. /\ NumCores \in Nat /\ DOMAIN before.cores = 1..NumCores /\ before.cores \in Seq(Cores)
        /\ n \in 0..NumCores /\ n < NumCores /\ n + 1 \in 1..NumCores
    BY <1>1, MachineFacts
  <1>3. memory.cores = [i \in 1..NumCores |-> Snapshot(i - 1, before.cores[i])]
    BY <1>1, <1>2 DEF Captured
  <1>4. Len(memory.cores) = NumCores
    BY <1>2, <1>3
  <1>5. memory.cores[Len(memory.cores) - left + 1] = Snapshot(n, before.cores[n + 1])
    <2>1. memory.cores[n + 1] = Snapshot((n + 1) - 1, before.cores[n + 1])
      BY <1>2, <1>3
    <2>2. (n + 1) - 1 = n
      BY <1>2
    <2>. QED BY <1>4, <2>1, <2>2
  <1>6. file' = file \o CoreLine(Snapshot(n, before.cores[n + 1]))
    BY <1>5
  <1>. HIDE DEF n
  <1>7. PICK m \in 0..NumCores : m = n
    BY <1>2
  <1>8. file' \in Seq(Words) /\ CoresSaved(m + 1)'
    BY <1>1, <1>2, <1>6, <1>7, CoreComes DEF n
  <1>9. NumCores' = NumCores /\ left' \in 0..NumCores /\ (NumCores - left)' = m + 1
    BY <1>1, <1>2, <1>7 DEF NumCores, n
  <1>10. Saving'
    <2>1. CoresSaved(NumCores - left)'
      BY <1>8, <1>9 DEF CoresSaved, CoresWritten, Governed
    <2>. QED BY <1>1, <1>9, <2>1, Same DEF Saving
  <1>11. Loading'
    BY <1>1 DEF Loading
  <1>. QED BY <1>1, <1>2, <1>8, <1>9, <1>10, <1>11, Same, NoEnd DEF IInv

LEMMA SaveDeviceCountStep ==
  ASSUME IInv, SaveDeviceCount
  PROVE  IInv'
  <1>. USE DEF SaveDeviceCount
  <1>1. /\ kernel = before /\ stream = [read |-> 0, ok |-> TRUE] /\ memory = Captured
        /\ Machine(before) /\ file \in Seq(Words)
        /\ CoresSaved(NumCores - left)
    BY DEF IInv, Saving, Loading
  <1>2. /\ NumCores \in Nat /\ NumDevices \in Nat
    BY <1>1, MachineFacts
  <1>3. CoresSaved(NumCores)
    BY <1>1, <1>2
  <1>4. memory.devices = before.devices /\ Len(memory.devices) = NumDevices
    BY <1>1 DEF Captured, NumDevices
  <1>5. file' = Append(file, Numeral(NumDevices))
    BY <1>4
  <1>6. file' \in Seq(Words) /\ DevicesSaved(0)'
    BY <1>1, <1>3, <1>5, DeviceCountComes
  <1>7. left' = NumDevices /\ NumDevices' = NumDevices /\ (NumDevices - left)' = 0
    BY <1>2, <1>4 DEF NumDevices
  <1>8. Saving'
    <2>1. DevicesSaved(NumDevices - left)'
      BY <1>6, <1>7 DEF DevicesSaved, DevicesWritten, Scheduled, DeviceEnd
    <2>. QED BY <1>1, <1>2, <1>7, <2>1, Same DEF Saving
  <1>9. Loading'
    BY <1>1 DEF Loading
  <1>. QED BY <1>1, <1>2, <1>6, <1>7, <1>8, <1>9, Same, NoEnd DEF IInv

LEMMA SaveDeviceStep ==
  ASSUME IInv, SaveDevice
  PROVE  IInv'
  <1>. USE DEF SaveDevice
  <1>1. /\ kernel = before /\ stream = [read |-> 0, ok |-> TRUE] /\ memory = Captured
        /\ Machine(before) /\ file \in Seq(Words)
        /\ left \in 0..NumDevices /\ DevicesSaved(NumDevices - left)
    BY DEF IInv, Saving, Loading
  <1>. DEFINE n == NumDevices - left
  <1>2. NumDevices \in Nat /\ n \in 0..NumDevices /\ n < NumDevices
    BY <1>1, MachineFacts
  <1>3. memory.devices = before.devices /\ Len(memory.devices) = NumDevices
    BY <1>1 DEF Captured, NumDevices
  <1>4. file' = file \o DeviceLine(before.devices[n + 1])
    BY <1>3
  <1>. HIDE DEF n
  <1>5. PICK m \in Nat : m = n /\ m < NumDevices
    BY <1>2
  <1>6. file' \in Seq(Words) /\ DevicesSaved(m + 1)'
    BY <1>1, <1>4, <1>5, DeviceComes DEF n
  <1>7. NumDevices' = NumDevices /\ left' \in 0..NumDevices /\ (NumDevices - left)' = m + 1
    BY <1>1, <1>2, <1>5 DEF NumDevices, n
  <1>8. Saving'
    <2>1. DevicesSaved(NumDevices - left)'
      BY <1>6, <1>7 DEF DevicesSaved, DevicesWritten, Scheduled, DeviceEnd
    <2>. QED BY <1>1, <1>7, <2>1, Same DEF Saving
  <1>9. Loading'
    BY <1>1 DEF Loading
  <1>. QED BY <1>1, <1>2, <1>6, <1>7, <1>8, <1>9, Same, NoEnd DEF IInv

\* A machine has the files it has.
LEMMA Untuned ==
  ASSUME Machine(before), kernel = before
  PROVE  Retuned
  <1>1. /\ before = [sysctl |-> before.sysctl, cores |-> before.cores, devices |-> before.devices]
        /\ DOMAIN before.cores = 1..NumCores
        /\ DOMAIN before.devices = 1..NumDevices
        /\ \A i \in 1..NumCores : before.cores[i] \in Cores
        /\ \A i \in 1..NumDevices : before.devices[i] \in Devices
    BY MachineFacts
  <1>2. \A c \in Cores : DOMAIN c = {"governor", "min", "max", "epp"}
    BY DEF Cores
  <1>3. \A d \in Devices : DOMAIN d = {"name", "scheduler"}
    BY DEF Devices
  <1>4. DOMAIN before = {"sysctl", "cores", "devices"}
    BY <1>1
  <1>. QED BY <1>1, <1>2, <1>3, <1>4 DEF Retuned

LEMMA SavedStep ==
  ASSUME IInv, Saved
  PROVE  IInv'
  <1>. USE DEF Saved
  <1>1. /\ kernel = before /\ stream = [read |-> 0, ok |-> TRUE]
        /\ Machine(before) /\ file \in Seq(Words)
        /\ DevicesSaved(NumDevices - left) /\ NumDevices \in Nat
    BY MachineFacts DEF IInv, Saving, Loading
  <1>2. FileComplete
    BY <1>1 DEF FileComplete
  <1>3. Saving'
    BY <1>2, FileSame DEF Saving
  <1>4. Loading'
    BY <1>1 DEF Loading
  <1>5. Retuned'
    BY <1>1, Untuned, Same
  <1>. QED BY <1>1, <1>3, <1>4, <1>5, Same, NoEnd DEF IInv

LEMMA Literals ==
  /\ "schedutil" # Empty /\ "200" # "absent"
  <1>1. "schedutil" # Empty
    BY Zenon DEF Empty
  <1>2. "200" # "absent"
    OBVIOUS
  <1>. QED BY <1>1, <1>2

\* Tuning creates and removes no file.
LEMMA TunedCoreFacts ==
  ASSUME NEW core, DOMAIN core = {"governor", "min", "max", "epp"}, NEW S
  PROVE  /\ DOMAIN TunedCore(core, S) = {"governor", "min", "max", "epp"}
         /\ core.governor = Empty => TunedCore(core, S) = core
         /\ core.governor # Empty => TunedCore(core, S).governor # Empty
         /\ core.epp = "absent" <=> TunedCore(core, S).epp = "absent"
  <1>1. CASE core.governor = Empty
    BY <1>1 DEF TunedCore
  <1>2. CASE core.governor # Empty
    <2>. DEFINE tuned == [core EXCEPT !.governor = IF "governor" \in S THEN "schedutil" ELSE @,
                            !.max = IF "max" \in S THEN core.min ELSE @,
                            !.epp = IF "epp" \in S /\ @ # "absent" THEN "200" ELSE @]
    <2>1. TunedCore(core, S) = tuned
      BY <1>2 DEF TunedCore
    <2>2. DOMAIN tuned = {"governor", "min", "max", "epp"}
      OBVIOUS
    <2>3. tuned.governor = IF "governor" \in S THEN "schedutil" ELSE core.governor
      OBVIOUS
    <2>4. tuned.epp = IF "epp" \in S /\ core.epp # "absent" THEN "200" ELSE core.epp
      OBVIOUS
    <2>. HIDE DEF tuned
    <2>. QED BY <1>2, <2>1, <2>2, <2>3, <2>4, Literals
  <1>. QED BY <1>1, <1>2

LEMMA TunedDeviceFacts ==
  ASSUME NEW device, DOMAIN device = {"name", "scheduler"}, NEW s \in TunedSchedulers(device)
  PROVE  LET tuned == [device EXCEPT !.scheduler = s]
         IN  /\ DOMAIN tuned = {"name", "scheduler"}
             /\ tuned.name = device.name
             /\ device.scheduler # Empty => tuned.scheduler # Empty
  <1>. DEFINE tuned == [device EXCEPT !.scheduler = s]
  <1>1. /\ DOMAIN tuned = {"name", "scheduler"}
        /\ tuned.name = device.name /\ tuned.scheduler = s
    OBVIOUS
  <1>2. ASSUME device.scheduler # Empty PROVE s # Empty
    <2>1. s = device.scheduler \/ s \in Schedulers
      BY DEF TunedSchedulers
    <2>. QED BY ONLY <1>2, <2>1, TokenAssumption
  <1>. QED BY ONLY <1>1, <1>2

LEMMA TuneStep ==
  ASSUME IInv, Tune
  PROVE  IInv'
  <1>1. /\ stream = [read |-> 0, ok |-> TRUE] /\ before' = before /\ file' = file
        /\ FileComplete /\ Retuned
    BY DEF IInv, Saving, Loading, Tune
  <1>2. PICK S, schedulers :
               /\ \A i \in DOMAIN kernel.devices : schedulers[i] \in TunedSchedulers(kernel.devices[i])
               /\ kernel' = TunedSettings(S, schedulers)
    BY DEF Tune
  <1>3. /\ DOMAIN kernel' = {"sysctl", "cores", "devices"}
        /\ DOMAIN kernel'.cores = DOMAIN before.cores
        /\ \A i \in DOMAIN before.cores : kernel'.cores[i] = TunedCore(kernel.cores[i], S)
        /\ DOMAIN kernel'.devices = DOMAIN before.devices
        /\ \A i \in DOMAIN before.devices :
             /\ schedulers[i] \in TunedSchedulers(kernel.devices[i])
             /\ kernel'.devices[i] = [kernel.devices[i] EXCEPT !.scheduler = schedulers[i]]
    BY <1>1, <1>2 DEF TunedSettings, Retuned
  <1>4. ASSUME NEW i \in DOMAIN before.cores
        PROVE  LET was == before.cores[i]
                   is == kernel'.cores[i]
               IN  /\ DOMAIN is = {"governor", "min", "max", "epp"}
                   /\ was.governor = Empty => is = was
                   /\ was.governor # Empty => is.governor # Empty
                   /\ was.epp = "absent" <=> is.epp = "absent"
    <2>. DEFINE k == kernel.cores[i]
    <2>1. /\ DOMAIN k = {"governor", "min", "max", "epp"}
          /\ before.cores[i].governor = Empty => k = before.cores[i]
          /\ before.cores[i].governor # Empty => k.governor # Empty
          /\ before.cores[i].epp = "absent" <=> k.epp = "absent"
      BY <1>1 DEF Retuned
    <2>2. kernel'.cores[i] = TunedCore(k, S)
      BY <1>3
    <2>. HIDE DEF k
    <2>3. /\ DOMAIN TunedCore(k, S) = {"governor", "min", "max", "epp"}
          /\ k.governor = Empty => TunedCore(k, S) = k
          /\ k.governor # Empty => TunedCore(k, S).governor # Empty
          /\ k.epp = "absent" <=> TunedCore(k, S).epp = "absent"
      BY ONLY <2>1, TunedCoreFacts
    <2>. QED BY ONLY <2>1, <2>2, <2>3
  <1>5. ASSUME NEW i \in DOMAIN before.devices
        PROVE  LET was == before.devices[i]
                   is == kernel'.devices[i]
               IN  /\ DOMAIN is = {"name", "scheduler"}
                   /\ is.name = was.name
                   /\ was.scheduler # Empty => is.scheduler # Empty
    <2>. DEFINE k == kernel.devices[i]
    <2>1. /\ DOMAIN k = {"name", "scheduler"}
          /\ k.name = before.devices[i].name
          /\ before.devices[i].scheduler # Empty => k.scheduler # Empty
      BY <1>1 DEF Retuned
    <2>. DEFINE s == schedulers[i]
    <2>2. s \in TunedSchedulers(k) /\ kernel'.devices[i] = [k EXCEPT !.scheduler = s]
      BY <1>3
    <2>. HIDE DEF k, s
    <2>3. LET tuned == [k EXCEPT !.scheduler = s]
          IN  /\ DOMAIN tuned = {"name", "scheduler"}
              /\ tuned.name = k.name
              /\ k.scheduler # Empty => tuned.scheduler # Empty
      BY ONLY <2>1, <2>2, TunedDeviceFacts
    <2>. QED BY ONLY <2>1, <2>2, <2>3
  <1>6. Retuned'
    BY <1>1, <1>3, <1>4, <1>5 DEF Retuned
  <1>7. Saving'
    BY <1>1, FileSame DEF Saving, Tune
  <1>8. Loading'
    BY <1>1 DEF Loading, Tune
  <1>. QED BY <1>1, <1>6, <1>7, <1>8, Same, NoEnd DEF IInv, Tune

LEMMA LoadSysctlsStep ==
  ASSUME IInv, LoadSysctls
  PROVE  IInv'
  <1>. USE DEF LoadSysctls
  <1>1. /\ Machine(before) /\ file \in Seq(Words) /\ FileComplete /\ Retuned
        /\ stream = [read |-> 0, ok |-> TRUE]
    BY DEF IInv, Saving, Loading
  <1>2. /\ Value(HeadKinds, 1) = before.sysctl["swappiness"]
        /\ Value(HeadKinds, 2) = before.sysctl["vfs_cache_pressure"]
        /\ Value(HeadKinds, 3) = before.sysctl["dirty_ratio"]
        /\ Value(HeadKinds, 4) = before.sysctl["dirty_background_ratio"]
        /\ Value(HeadKinds, 5) = Numeral(NumCores)
        /\ Extracts(HeadKinds, 5)
    BY <1>1, HeadExtracts DEF FileComplete, DevicesSaved
  <1>3. /\ NumCores \in Nat /\ NumCores \in 0..(Len(Numerals) - 1)
        /\ before.sysctl \in [Sysctls -> Numbers]
    BY <1>1, MachineFacts
  <1>4. left' = NumCores /\ NumCores' = NumCores
    BY <1>2, <1>3, NumeralFacts DEF NumCores
  <1>5. stream' = [read |-> 5, ok |-> TRUE]
    <2>1. Len(HeadKinds) = 5
      BY DEF HeadKinds
    <2>2. Extracts(HeadKinds, 5) = TRUE
      BY <1>2 DEF Extracts
    <2>3. stream' = [read |-> stream.read + Len(HeadKinds), ok |-> Extracts(HeadKinds, Len(HeadKinds))]
      BY DEF Read
    <2>4. stream' = [read |-> stream.read + 5, ok |-> TRUE]
      BY ONLY <2>1, <2>2, <2>3
    <2>. QED BY ONLY <1>1, <2>4
  <1>6. memory'.sysctl = before.sysctl
    <2>. DEFINE sysctl == [s \in Sysctls |->
                   Value(HeadKinds, CASE s = "swappiness" -> 1
                                      [] s = "vfs_cache_pressure" -> 2
                                      [] s = "dirty_ratio" -> 3
                                      [] s = "dirty_background_ratio" -> 4)]
    <2>1. memory' = [sysctl |-> sysctl, cores |-> <<>>, devices |-> <<>>]
      OBVIOUS
    <2>2. \A s \in Sysctls : sysctl[s] = before.sysctl[s]
      BY <1>2 DEF Sysctls
    <2>3. sysctl = before.sysctl
      BY <1>3, <2>2
    <2>. HIDE DEF sysctl
    <2>. QED BY ONLY <2>1, <2>3
  <1>7. memory'.cores = <<>> /\ memory'.devices = <<>>
        /\ memory' = [sysctl |-> memory'.sysctl, cores |-> <<>>, devices |-> <<>>]
    <2>1. PICK sysctl : memory' = [sysctl |-> sysctl, cores |-> <<>>, devices |-> <<>>]
      OBVIOUS
    <2>. QED BY ONLY <2>1
  <1>8. CoresLoaded' /\ Len(memory'.cores) = 0
    <2>1. memory'.cores \in Seq(Snapshots) /\ Len(memory'.cores) = 0
      BY ONLY <1>7
    <2>2. Len(memory'.cores) <= NumCores'
      BY <1>3, <1>4, <2>1
    <2>3. Governed(Len(memory.cores))'
      BY <2>1 DEF Governed
    <2>4. (\A i \in 1..Len(memory.cores) : memory.cores[i] = Snapshot(i - 1, before.cores[i]))'
      BY <2>1
    <2>5. memory'.sysctl = before'.sysctl
      BY <1>6
    <2>. QED BY ONLY <2>1, <2>2, <2>3, <2>4, <2>5 DEF CoresLoaded
  <1>9. Loading'
    <2>1. /\ left' = NumCores' - Len(memory'.cores)
          /\ stream' = [read |-> 5 + 5 * Len(memory'.cores), ok |-> TRUE]
      BY <1>3, <1>4, <1>5, <1>8
    <2>2. memory' = [sysctl |-> memory'.sysctl, cores |-> memory'.cores, devices |-> <<>>]
      BY ONLY <1>7
    <2>. QED BY ONLY <1>8, <2>1, <2>2, phase' = "load_cores" DEF Loading
  <1>10. Saving'
    BY <1>1, FileSame DEF Saving
  <1>. QED BY <1>1, <1>3, <1>4, <1>9, <1>10, Same, NoEnd DEF IInv

\* A field that is replaced.
LEMMA Replaced ==
  ASSUME NEW a, NEW b, NEW d, NEW y,
         NEW m, m = [sysctl |-> a, cores |-> b, devices |-> d]
  PROVE  /\ [m EXCEPT !.cores = y] = [sysctl |-> a, cores |-> y, devices |-> d]
         /\ [m EXCEPT !.devices = y] = [sysctl |-> a, cores |-> b, devices |-> y]
  OBVIOUS

LEMMA LoadCoreStep ==
  ASSUME IInv, LoadCore
  PROVE  IInv'
  <1>1. /\ Machine(before) /\ file \in Seq(Words) /\ FileComplete /\ Retuned
        /\ memory = [sysctl |-> memory.sysctl, cores |-> memory.cores, devices |-> <<>>]
        /\ CoresLoaded /\ left = NumCores - Len(memory.cores)
        /\ stream = [read |-> 5 + 5 * Len(memory.cores), ok |-> TRUE]
        /\ left \in Nat /\ left > 0 /\ ~ EppThrows
    BY DEF IInv, Saving, Loading, LoadCore
  <1>2. NumCores \in Nat
    BY <1>1, MachineFacts
  <1>3. PICK n \in Nat : n = Len(memory.cores) /\ n < NumCores
    BY <1>1, <1>2 DEF CoresLoaded
  <1>. DEFINE c == before.cores[n + 1]
              snap == [id |-> Value(CoreKinds, 1), governor |-> Value(CoreKinds, 2),
                       min |-> Value(CoreKinds, 3), max |-> Value(CoreKinds, 4),
                       epp |-> EppToken]
  <1>4. c.governor # Empty /\ Extracts(CoreKinds, 5) /\ snap = Snapshot(n, c)
    <2>1. CoresWritten(NumCores)
      BY <1>1 DEF FileComplete, DevicesSaved
    <2>2. Governed(n) /\ stream = [read |-> 5 + 5 * n, ok |-> TRUE]
      BY <1>1, <1>3 DEF CoresLoaded
    <2>. QED BY <1>1, <1>3, <2>1, <2>2, CoreExtracts
  <1>5. n + 1 \in 1..NumCores /\ (n + 1) - 1 = n
    BY <1>2, <1>3
  <1>6. snap \in Snapshots
    <2>1. LET d == before.cores[n + 1]
          IN  /\ Snapshot((n + 1) - 1, d)
                   = [id |-> Numeral((n + 1) - 1), governor |-> d.governor,
                      min |-> d.min, max |-> d.max, epp |-> CurrentEpp(d)]
              /\ Numeral((n + 1) - 1) \in Words /\ d.governor \in Words
              /\ d.min \in Words /\ d.max \in Words /\ CurrentEpp(d) \in Words
      BY <1>1, <1>5, SnapshotFacts
    <2>2. Snapshot(n, c) \in Snapshots
      BY <1>5, <2>1 DEF Snapshots
    <2>. QED BY <1>4, <2>2
  <1>7. /\ memory' = [memory EXCEPT !.cores = Append(@, snap)]
        /\ left' = left - 1 /\ Read(CoreKinds)
        /\ kernel' = kernel /\ before' = before /\ file' = file /\ phase' = phase
        /\ phase = "load_cores"
    BY DEF LoadCore
  <1>. HIDE DEF snap, c
  <1>8. /\ memory' = [sysctl |-> memory.sysctl, cores |-> Append(memory.cores, snap),
                      devices |-> <<>>]
    <2>1. PICK m, y : m = memory /\ y = Append(memory.cores, snap)
      OBVIOUS
    <2>2. PICK a, b, d : /\ m = [sysctl |-> a, cores |-> b, devices |-> d]
                         /\ a = memory.sysctl /\ d = <<>>
      BY ONLY <1>1, <2>1
    <2>3. [m EXCEPT !.cores = y] = [sysctl |-> a, cores |-> y, devices |-> d]
      BY ONLY <2>2, Replaced
    <2>4. memory' = [m EXCEPT !.cores = y]
      BY ONLY <1>7, <2>1
    <2>. QED BY ONLY <2>1, <2>2, <2>3, <2>4
  <1>9. /\ memory'.cores \in Seq(Snapshots)
        /\ Len(memory'.cores) = n + 1
        /\ \A i \in 1..n : memory'.cores[i] = memory.cores[i]
        /\ memory'.cores[n + 1] = snap
    <2>1. memory.cores \in Seq(Snapshots)
      BY <1>1 DEF CoresLoaded
    <2>. DEFINE more == Append(memory.cores, snap)
    <2>2. /\ more \in Seq(Snapshots)
          /\ Len(more) = Len(memory.cores) + 1
          /\ \A i \in 1..Len(memory.cores) : more[i] = memory.cores[i]
          /\ more[Len(memory.cores) + 1] = snap
      BY ONLY <1>6, <2>1, AppendProperties
    <2>3. memory'.cores = more
      BY ONLY <1>8
    <2>. HIDE DEF more
    <2>. QED BY ONLY <1>3, <2>2, <2>3
  <1>10. CoresLoaded'
    <2>1. memory'.sysctl = before'.sysctl
      BY <1>1, <1>7, <1>8 DEF CoresLoaded
    <2>2. Len(memory'.cores) <= NumCores' /\ NumCores' = NumCores
      BY <1>2, <1>3, <1>7, <1>9 DEF NumCores
    <2>3. ASSUME NEW i \in 1..(n + 1)
          PROVE  /\ before'.cores[i].governor # Empty
                 /\ memory'.cores[i] = Snapshot(i - 1, before'.cores[i])
      <3>1. CASE i = n + 1
        BY <1>4, <1>5, <1>7, <1>9, <3>1 DEF c
      <3>2. CASE i \in 1..n
        <4>1. memory.cores[i] = Snapshot(i - 1, before.cores[i])
              /\ before.cores[i].governor # Empty
          BY <1>1, <1>3, <3>2 DEF CoresLoaded, Governed
        <4>. QED BY ONLY <1>7, <1>9, <3>2, <4>1
      <3>3. i = n + 1 \/ i \in 1..n
        OBVIOUS
      <3>. QED BY ONLY <3>1, <3>2, <3>3
    <2>4. Governed(Len(memory.cores))'
      BY ONLY <1>9, <2>3 DEF Governed
    <2>5. (\A i \in 1..Len(memory.cores) : memory.cores[i] = Snapshot(i - 1, before.cores[i]))'
      BY ONLY <1>9, <2>3
    <2>. QED BY ONLY <1>9, <2>1, <2>2, <2>4, <2>5 DEF CoresLoaded
  <1>11. Loading'
    <2>1. left' = NumCores' - Len(memory'.cores)
      <3>1. left = NumCores - n /\ left' = left - 1 /\ NumCores' = NumCores
        BY ONLY <1>1, <1>3, <1>7 DEF NumCores
      <3>. QED BY ONLY <1>2, <1>3, <1>9, <3>1
    <2>2. stream' = [read |-> 5 + 5 * Len(memory'.cores), ok |-> TRUE]
      <3>1. Len(CoreKinds) = 5
        BY DEF CoreKinds
      <3>2. Extracts(CoreKinds, 5) = TRUE
        BY <1>4 DEF Extracts
      <3>3. stream' = [read |-> stream.read + Len(CoreKinds), ok |-> Extracts(CoreKinds, Len(CoreKinds))]
        BY <1>7 DEF Read
      <3>4. stream' = [read |-> stream.read + 5, ok |-> TRUE]
        BY ONLY <3>1, <3>2, <3>3
      <3>5. stream.read = 5 + 5 * n
        BY ONLY <1>1, <1>3
      <3>6. stream.read + 5 = 5 + 5 * (n + 1)
        BY ONLY <1>3, <3>5
      <3>. QED BY ONLY <1>9, <3>4, <3>6
    <2>3. memory' = [sysctl |-> memory'.sysctl, cores |-> memory'.cores, devices |-> <<>>]
      BY ONLY <1>8
    <2>. QED BY ONLY <1>7, <1>10, <2>1, <2>2, <2>3 DEF Loading
  <1>12. Saving'
    BY <1>1, <1>7, FileSame DEF Saving
  <1>13. left' \in Nat
    BY <1>1, <1>7
  <1>. QED BY <1>1, <1>7, <1>11, <1>12, <1>13, Same, NoEnd DEF IInv

\* A line at which std::stoi throws is that of a core without governor.
LEMMA LoadThrowsStep ==
  ASSUME IInv, LoadThrows
  PROVE  IInv'
  <1>1. /\ Machine(before) /\ file \in Seq(Words) /\ FileComplete
        /\ CoresLoaded /\ left = NumCores - Len(memory.cores)
        /\ stream = [read |-> 5 + 5 * Len(memory.cores), ok |-> TRUE]
        /\ left \in Nat /\ left > 0 /\ EppThrows /\ left' = left
        /\ file' = file /\ before' = before /\ phase' = "aborted"
    BY DEF IInv, Saving, Loading, LoadThrows
  <1>2. NumCores \in Nat /\ DOMAIN before.cores = 1..NumCores
    BY <1>1, MachineFacts
  <1>3. PICK n \in Nat : n = Len(memory.cores) /\ n < NumCores
    BY <1>1, <1>2 DEF CoresLoaded
  <1>4. before.cores[n + 1].governor = Empty
    <2>1. CoresWritten(NumCores)
      BY <1>1 DEF FileComplete, DevicesSaved
    <2>2. Governed(n) /\ stream = [read |-> 5 + 5 * n, ok |-> TRUE]
      BY <1>1, <1>3 DEF CoresLoaded
    <2>. QED BY <1>1, <1>3, <2>1, <2>2, CoreExtracts
  <1>5. n + 1 \in DOMAIN before.cores
    BY <1>2, <1>3
  <1>6. AbortsOnlyWithoutGovernor'
    BY <1>1, <1>4, <1>5 DEF AbortsOnlyWithoutGovernor, HasCpufreq
  <1>7. RestoredButForGaps' /\ Saving' /\ Loading'
    BY <1>1 DEF RestoredButForGaps, Saving, Loading
  <1>. QED BY <1>1, <1>6, <1>7, Same DEF IInv

\* The list of cores is complete, so every core has a governor, and the number
\* of devices is in its place.
LEMMA LoadDeviceCountStep ==
  ASSUME IInv, LoadDeviceCount
  PROVE  IInv'
  <1>1. /\ Machine(before) /\ file \in Seq(Words) /\ FileComplete /\ Retuned
        /\ memory = [sysctl |-> memory.sysctl, cores |-> memory.cores, devices |-> <<>>]
        /\ CoresLoaded /\ left = NumCores - Len(memory.cores) /\ left = 0
        /\ stream = [read |-> 5 + 5 * Len(memory.cores), ok |-> TRUE]
    BY DEF IInv, Saving, Loading, LoadDeviceCount
  <1>2. /\ left' = Count(Value(<<"number">>, 1)) /\ Read(<<"number">>)
        /\ kernel' = kernel /\ before' = before /\ memory' = memory /\ file' = file
        /\ phase' = "load_devices"
    BY DEF LoadDeviceCount
  <1>3. /\ NumCores \in Nat /\ NumDevices \in Nat
        /\ NumDevices \in 0..(Len(Numerals) - 1)
    BY <1>1, MachineFacts
  <1>4. Len(memory.cores) = NumCores
    <2>1. PICK n \in Nat : n = Len(memory.cores)
      BY <1>1 DEF CoresLoaded
    <2>. QED BY ONLY <1>1, <1>3, <2>1
  <1>5. Value(<<"number">>, 1) = Numeral(NumDevices) /\ Extracts(<<"number">>, 1)
    <2>1. Governed(NumCores)
      BY <1>1, <1>4 DEF CoresLoaded
    <2>2. DeviceCountWritten
      BY <1>1, <2>1 DEF FileComplete, DevicesSaved
    <2>3. stream = [read |-> 5 + 5 * NumCores, ok |-> TRUE]
      BY ONLY <1>1, <1>4
    <2>. QED BY <1>1, <2>2, <2>3, DeviceCountExtracts
  <1>6. left' = NumDevices
    BY <1>2, <1>3, <1>5, NumeralFacts
  <1>7. stream'.read = 6 + 5 * NumCores /\ stream'.ok
    <2>1. Len(<<"number">>) = 1
      OBVIOUS
    <2>2. stream' = [read |-> stream.read + Len(<<"number">>),
                     ok   |-> Extracts(<<"number">>, Len(<<"number">>))]
      BY <1>2 DEF Read
    <2>3. stream'.read = stream.read + 1 /\ stream'.ok = Extracts(<<"number">>, 1)
      BY ONLY <2>1, <2>2
    <2>4. stream.read = 5 + 5 * NumCores
      BY ONLY <1>1, <1>4
    <2>5. stream.read + 1 = 6 + 5 * NumCores
      BY ONLY <1>3, <2>4
    <2>. QED BY ONLY <1>5, <2>3, <2>5
  <1>8. memory'.devices = <<>> /\ memory'.cores = memory.cores
    BY ONLY <1>1, <1>2
  <1>9. DevicesLoaded' /\ Len(memory'.devices) = 0
    <2>1. memory'.devices \in Seq(Pairs) /\ Len(memory'.devices) = 0
      BY ONLY <1>8
    <2>2. Len(memory'.devices) <= NumDevices'
      BY <1>2, <1>3, <2>1 DEF NumDevices
    <2>3. \A i \in 1..Len(memory'.devices) : FALSE
      BY ONLY <2>1
    <2>. QED BY ONLY <2>1, <2>2, <2>3 DEF DevicesLoaded
  <1>10. Loading'
    <2>1. AllCoresLoaded'
      BY <1>1, <1>2, <1>4, Same DEF AllCoresLoaded
    <2>2. memory' = [sysctl |-> memory'.sysctl, cores |-> memory'.cores, devices |-> memory'.devices]
      <3>1. PICK a, b, d : memory' = [sysctl |-> a, cores |-> b, devices |-> d]
        BY ONLY <1>1, <1>2
      <3>. QED BY ONLY <3>1
    <2>3. NumDevices' = NumDevices /\ NumCores' = NumCores
      BY <1>2 DEF NumDevices, NumCores
    <2>4. left' = NumDevices' - Len(memory'.devices)
      BY ONLY <1>3, <1>6, <1>9, <2>3
    <2>5. DeviceEnd(Len(memory.devices))' = 6 + 5 * NumCores
      BY ONLY <1>3, <1>9, <2>3 DEF DeviceEnd
    <2>6. stream'.read = DeviceEnd(Len(memory.devices))'
      BY ONLY <1>7, <2>5
    <2>. QED BY ONLY <1>2, <1>7, <1>9, <2>1, <2>2, <2>4, <2>6 DEF Loading
  <1>11. Saving'
    BY <1>1, <1>2, FileSame DEF Saving
  <1>12. left' \in Nat
    BY <1>3, <1>6
  <1>. QED BY <1>1, <1>2, <1>10, <1>11, <1>12, Same, NoEnd DEF IInv

LEMMA LoadDeviceStep ==
  ASSUME IInv, LoadDevice
  PROVE  IInv'
  <1>1. /\ Machine(before) /\ file \in Seq(Words) /\ FileComplete /\ Retuned
        /\ memory = [sysctl |-> memory.sysctl, cores |-> memory.cores, devices |-> memory.devices]
        /\ AllCoresLoaded /\ DevicesLoaded
        /\ left = NumDevices - Len(memory.devices)
        /\ stream.read = DeviceEnd(Len(memory.devices))
        /\ Scheduled(Len(memory.devices)) => stream.ok
        /\ left \in Nat /\ left > 0
    BY DEF IInv, Saving, Loading, LoadDevice
  <1>2. NumDevices \in Nat /\ NumCores \in Nat
    BY <1>1, MachineFacts
  <1>3. PICK n \in Nat : n = Len(memory.devices) /\ n < NumDevices
    <2>1. PICK n \in Nat : n = Len(memory.devices)
      BY <1>1 DEF DevicesLoaded
    <2>. QED BY ONLY <1>1, <1>2, <2>1
  <1>. DEFINE pair == [name |-> Value(DeviceKinds, 1), scheduler |-> Value(DeviceKinds, 2)]
  <1>4. /\ pair.name \in Words /\ pair.scheduler \in Words
        /\ Scheduled(n + 1) => Extracts(DeviceKinds, 2) /\ pair = before.devices[n + 1]
        /\ \A i \in 1..n : Scheduled(i) => pair.name # before.devices[i].name
    <2>1. DevicesWritten(NumDevices)
      <3>1. Governed(NumCores)
        BY <1>1 DEF AllCoresLoaded, CoresLoaded
      <3>. QED BY <1>1, <3>1 DEF FileComplete, DevicesSaved
    <2>2. stream.read = DeviceEnd(n) /\ (Scheduled(n) => stream.ok)
      BY <1>1, <1>3
    <2>. QED BY <1>1, <1>3, <2>1, <2>2, DeviceExtracts
  <1>5. pair \in Pairs
    <2>1. Value(DeviceKinds, 1) \in Words /\ Value(DeviceKinds, 2) \in Words
      BY <1>4
    <2>. QED BY ONLY <2>1 DEF Pairs
  <1>6. /\ memory' = [memory EXCEPT !.devices = Append(@, pair)]
        /\ left' = left - 1 /\ Read(DeviceKinds)
        /\ kernel' = kernel /\ before' = before /\ file' = file /\ phase' = phase
        /\ phase = "load_devices"
    BY DEF LoadDevice
  <1>. HIDE DEF pair
  <1>7. memory' = [sysctl |-> memory.sysctl, cores |-> memory.cores,
                   devices |-> Append(memory.devices, pair)]
    <2>1. PICK m, y : m = memory /\ y = Append(memory.devices, pair)
      OBVIOUS
    <2>2. PICK a, b, d : /\ m = [sysctl |-> a, cores |-> b, devices |-> d]
                         /\ a = memory.sysctl /\ b = memory.cores
      BY ONLY <1>1, <2>1
    <2>3. [m EXCEPT !.devices = y] = [sysctl |-> a, cores |-> b, devices |-> y]
      BY ONLY <2>2, Replaced
    <2>4. memory' = [m EXCEPT !.devices = y]
      BY ONLY <1>6, <2>1
    <2>. QED BY ONLY <2>1, <2>2, <2>3, <2>4
  <1>8. /\ memory'.devices \in Seq(Pairs)
        /\ Len(memory'.devices) = n + 1
        /\ \A i \in 1..n : memory'.devices[i] = memory.devices[i]
        /\ memory'.devices[n + 1] = pair
    <2>1. memory.devices \in Seq(Pairs)
      BY <1>1 DEF DevicesLoaded
    <2>. DEFINE more == Append(memory.devices, pair)
    <2>2. /\ more \in Seq(Pairs)
          /\ Len(more) = Len(memory.devices) + 1
          /\ \A i \in 1..Len(memory.devices) : more[i] = memory.devices[i]
          /\ more[Len(memory.devices) + 1] = pair
      BY ONLY <1>5, <2>1, AppendProperties
    <2>3. memory'.devices = more
      BY ONLY <1>7
    <2>. HIDE DEF more
    <2>. QED BY ONLY <1>3, <2>2, <2>3
  <1>9. /\ NumDevices' = NumDevices /\ NumCores' = NumCores
        /\ \A i : Scheduled(i)' <=> Scheduled(i)
        /\ \A i : DeviceEnd(i)' = DeviceEnd(i)
    BY <1>6 DEF NumDevices, NumCores, Scheduled, DeviceEnd
  <1>10. DevicesLoaded'
    <2>1. Len(memory'.devices) <= NumDevices'
      BY <1>2, <1>3, <1>8, <1>9
    <2>2. ASSUME NEW i \in 1..(n + 1), Scheduled(i)
          PROVE  /\ memory'.devices[i] = before.devices[i]
                 /\ \A j \in (i + 1)..(n + 1) :
                      memory'.devices[j].name # before.devices[i].name
      <3>1. CASE i = n + 1
        <4>1. memory'.devices[i] = before.devices[i]
          BY <1>4, <1>8, <2>2, <3>1
        <4>2. \A j \in (i + 1)..(n + 1) : FALSE
          BY ONLY <1>3, <3>1
        <4>. QED BY ONLY <4>1, <4>2
      <3>2. CASE i \in 1..n
        <4>1. /\ memory.devices[i] = before.devices[i]
              /\ \A j \in (i + 1)..n : memory.devices[j].name # before.devices[i].name
          BY <1>1, <1>3, <2>2, <3>2 DEF DevicesLoaded
        <4>2. pair.name # before.devices[i].name
          BY <1>4, <2>2, <3>2
        <4>3. ASSUME NEW j \in (i + 1)..(n + 1)
              PROVE  memory'.devices[j].name # before.devices[i].name
          <5>1. j = n + 1 \/ (j \in (i + 1)..n /\ j \in 1..n)
            BY ONLY <1>3, <3>2
          <5>. QED BY ONLY <1>8, <4>1, <4>2, <5>1
        <4>. QED BY ONLY <1>8, <3>2, <4>1, <4>3
      <3>3. i = n + 1 \/ i \in 1..n
        OBVIOUS
      <3>. QED BY ONLY <3>1, <3>2, <3>3
    <2>3. \A i \in 1..Len(memory'.devices) : Scheduled(i)' =>
            /\ memory'.devices[i] = before'.devices[i]
            /\ \A j \in (i + 1)..Len(memory'.devices) :
                 memory'.devices[j].name # before'.devices[i].name
      BY ONLY <1>6, <1>8, <1>9, <2>2
    <2>. QED BY ONLY <1>8, <2>1, <2>3 DEF DevicesLoaded
  <1>11. AllCoresLoaded'
    <2>1. memory'.sysctl = memory.sysctl /\ memory'.cores = memory.cores
      BY ONLY <1>7
    <2>. QED BY <1>1, <1>6, <2>1
         DEF AllCoresLoaded, CoresLoaded, NumCores, Governed, Snapshot, Numeral, CurrentEpp
  <1>12. Loading'
    <2>1. left' = NumDevices' - Len(memory'.devices)
      <3>1. left = NumDevices - n /\ left' = left - 1 /\ NumDevices' = NumDevices
        BY ONLY <1>1, <1>3, <1>6, <1>9
      <3>. QED BY ONLY <1>2, <1>3, <1>8, <3>1
    <2>2. stream'.read = stream.read + 2 /\ stream'.ok = Extracts(DeviceKinds, 2)
      <3>1. Len(DeviceKinds) = 2
        BY DEF DeviceKinds
      <3>2. stream' = [read |-> stream.read + Len(DeviceKinds),
                       ok   |-> Extracts(DeviceKinds, Len(DeviceKinds))]
        BY <1>6 DEF Read
      <3>. QED BY ONLY <3>1, <3>2
    <2>3. stream'.read = DeviceEnd(Len(memory.devices))'
      <3>1. DeviceEnd(Len(memory.devices))' = DeviceEnd(n + 1)
        BY <1>8, <1>9 DEF DeviceEnd
      <3>2. stream.read = DeviceEnd(n)
        BY ONLY <1>1, <1>3
      <3>3. DeviceEnd(n + 1) = DeviceEnd(n) + 2
        <4>1. PICK c \in Nat : c = NumCores
          BY <1>2
        <4>2. /\ DeviceEnd(n) = 6 + 5 * c + 2 * n
              /\ DeviceEnd(n + 1) = 6 + 5 * c + 2 * (n + 1)
          BY ONLY <4>1 DEF DeviceEnd
        <4>. QED BY <4>2
      <3>. QED BY ONLY <2>2, <3>1, <3>2, <3>3
    <2>4. Scheduled(Len(memory.devices))' => stream'.ok
      <3>1. Scheduled(Len(memory.devices))' => Scheduled(n + 1)
        BY <1>6, <1>8 DEF Scheduled
      <3>. QED BY <1>4, <2>2, <3>1
    <2>5. memory' = [sysctl |-> memory'.sysctl, cores |-> memory'.cores, devices |-> memory'.devices]
      BY ONLY <1>7
    <2>. QED BY ONLY <1>6, <1>10, <1>11, <2>1, <2>3, <2>4, <2>5 DEF Loading
  <1>13. Saving'
    BY <1>1, <1>6, FileSame DEF Saving
  <1>14. left' \in Nat
    BY <1>1, <1>6
  <1>. QED BY <1>1, <1>6, <1>12, <1>13, <1>14, Same, NoEnd DEF IInv

LEMMA LoadedStep ==
  ASSUME IInv, Loaded
  PROVE  IInv'
  <1>1. /\ Machine(before) /\ file \in Seq(Words) /\ Retuned /\ left \in Nat
        /\ AllCoresLoaded /\ DevicesLoaded
        /\ left = NumDevices - Len(memory.devices) /\ left = 0
        /\ kernel' = kernel /\ before' = before /\ memory' = memory /\ file' = file
        /\ left' = left /\ phase' = "restore"
    BY DEF IInv, Loading, Loaded
  <1>2. AllDevicesLoaded
    <2>1. PICK n \in Nat : n = Len(memory.devices)
      BY <1>1 DEF DevicesLoaded
    <2>2. NumDevices \in Nat
      BY <1>1, MachineFacts
    <2>3. Len(memory.devices) = NumDevices
      BY ONLY <1>1, <2>1, <2>2
    <2>. QED BY <1>1, <2>3 DEF AllDevicesLoaded
  <1>3. Loading' /\ Saving'
    BY <1>1, <1>2, Same DEF Loading, Saving
  <1>. QED BY <1>1, <1>3, Same, NoEnd DEF IInv


LEMMA MaxOfOne == ASSUME NEW i \in Nat PROVE Max({i}) = i
  BY DEF Max

\* What a core's files hold after its line has been written to them.
LEMMA WrittenCore ==
  ASSUME NEW k, DOMAIN k = {"governor", "min", "max", "epp"}, NEW s
  PROVE  LET r == [k EXCEPT !.governor = IF s.governor \in Governors THEN s.governor ELSE @,
                            !.min = s.min,
                            !.max = s.max,
                            !.epp = IF s.epp = "none" \/ @ = "absent" THEN @ ELSE s.epp]
         IN  /\ s.governor \in Governors => r.governor = s.governor
             /\ r.min = s.min /\ r.max = s.max
             /\ r.epp = IF s.epp = "none" \/ k.epp = "absent" THEN k.epp ELSE s.epp
  OBVIOUS

\* The only line of a core is its own.
LEMMA CoreRestored ==
  ASSUME Machine(before), AllCoresLoaded, Retuned, NEW i \in 1..NumCores
  PROVE  LET was == before.cores[i]
             is == RestoredCore(i - 1, kernel.cores[i])
         IN  /\ is.governor = was.governor /\ is.min = was.min /\ is.max = was.max
             /\ NamedEpp(was) \/ is.epp = was.epp
  <1>. DEFINE was == before.cores[i]
              k == kernel.cores[i]
              s == Snapshot(i - 1, was)
              saved == {j \in DOMAIN memory.cores : memory.cores[j].id = Numeral(i - 1)}
  <1>1. /\ NumCores \in Nat /\ DOMAIN before.cores = 1..NumCores
        /\ NumCores \in 0..(Len(Numerals) - 1) /\ i - 1 \in 0..(Len(Numerals) - 1)
    BY MachineFacts
  <1>2. /\ s = [id |-> Numeral(i - 1), governor |-> was.governor,
                min |-> was.min, max |-> was.max, epp |-> CurrentEpp(was)]
        /\ was.governor # Empty => was.governor \in Governors
    BY SnapshotFacts
  <1>3. /\ DOMAIN k = {"governor", "min", "max", "epp"}
        /\ was.governor # Empty => k.governor # Empty
        /\ was.epp = "absent" <=> k.epp = "absent"
    BY <1>1 DEF Retuned
  <1>4. /\ DOMAIN memory.cores = 1..NumCores /\ was.governor # Empty
        /\ \A j \in 1..NumCores : memory.cores[j] = Snapshot(j - 1, before.cores[j])
    BY DEF AllCoresLoaded, CoresLoaded, Governed
  <1>5. saved = {i}
    <2>1. ASSUME NEW j \in 1..NumCores
          PROVE  memory.cores[j].id = Numeral(j - 1) /\ j - 1 \in 0..(Len(Numerals) - 1)
      <3>1. memory.cores[j] = Snapshot(j - 1, before.cores[j])
        BY <1>4
      <3>2. Snapshot(j - 1, before.cores[j]).id = Numeral(j - 1)
        BY ONLY DEF Snapshot
      <3>. QED BY <1>1, <3>1, <3>2
    <2>2. ASSUME NEW j \in 1..NumCores, Numeral(j - 1) = Numeral(i - 1)
          PROVE  j = i
      <3>1. j - 1 = i - 1
        BY <1>1, <2>1, <2>2, NumeralFacts
      <3>. QED BY <1>1, <3>1
    <2>. QED BY <1>4, <2>1, <2>2
  <1>6. memory.cores[Max(saved)] = s
    <2>1. Max(saved) = i
      BY <1>1, <1>5, MaxOfOne
    <2>. QED BY <1>4, <2>1
  <1>7. RestoredCore(i - 1, k)
          = [k EXCEPT !.governor = IF s.governor \in Governors THEN s.governor ELSE @,
                      !.min = s.min,
                      !.max = s.max,
                      !.epp = IF s.epp = "none" \/ @ = "absent" THEN @ ELSE s.epp]
    BY <1>3, <1>4, <1>5, <1>6 DEF RestoredCore
  <1>8. CurrentEpp(was) = IF was.epp \in Numbers THEN was.epp ELSE "none"
    BY DEF CurrentEpp
  <1>. HIDE DEF was, k, s, saved
  <1>. DEFINE r == RestoredCore(i - 1, k)
  <1>9. /\ r.governor = was.governor /\ r.min = was.min /\ r.max = was.max
        /\ r.epp = IF CurrentEpp(was) = "none" \/ k.epp = "absent" THEN k.epp ELSE CurrentEpp(was)
    <2>1. /\ s.governor \in Governors => r.governor = s.governor
          /\ r.min = s.min /\ r.max = s.max
          /\ r.epp = IF s.epp = "none" \/ k.epp = "absent" THEN k.epp ELSE s.epp
      BY ONLY <1>3, <1>7, WrittenCore
    <2>. HIDE DEF r
    <2>. QED BY ONLY <1>2, <1>4, <2>1
  <1>10. NamedEpp(was) \/ r.epp = was.epp
    <2>1. CASE was.epp \in Numbers
      BY <1>3, <1>8, <1>9, <2>1, TokenAssumption
    <2>2. CASE was.epp = "absent"
      BY <1>3, <1>9, <2>2
    <2>. QED BY <2>1, <2>2 DEF NamedEpp
  <1>. QED BY <1>9, <1>10 DEF was, k

\* The only pair with the name of a device in its place is its own.
LEMMA DeviceRestored ==
  ASSUME Machine(before), AllDevicesLoaded, Retuned, NEW i \in 1..NumDevices, Scheduled(i)
  PROVE  RestoredDevice(kernel.devices[i]) = before.devices[i]
  <1>. DEFINE was == before.devices[i]
              k == kernel.devices[i]
              saved == {j \in DOMAIN memory.devices :
                          /\ memory.devices[j].name = k.name
                          /\ memory.devices[j].scheduler \in Schedulers}
  <1>1. /\ NumDevices \in Nat /\ DOMAIN before.devices = 1..NumDevices
    BY MachineFacts
  <1>2. /\ was = [name |-> was.name, scheduler |-> was.scheduler]
        /\ was.scheduler # Empty /\ was.scheduler \in Schedulers
        /\ \A j \in 1..NumDevices : before.devices[j].name = was.name => j = i
    BY DeviceFacts DEF Scheduled
  <1>3. /\ DOMAIN k = {"name", "scheduler"} /\ k.name = was.name
        /\ k.scheduler # Empty
    BY <1>1, <1>2 DEF Retuned
  <1>4. /\ DOMAIN memory.devices = 1..NumDevices
        /\ memory.devices[i] = was
        /\ \A j \in (i + 1)..NumDevices : memory.devices[j].name # was.name
    BY DEF AllDevicesLoaded, DevicesLoaded
  <1>5. ASSUME NEW j \in 1..NumDevices, memory.devices[j].name = was.name
        PROVE  j = i
    <2>1. CASE j \in (i + 1)..NumDevices
      BY <1>4, <1>5, <2>1
    <2>2. CASE j <= i
      <3>1. Scheduled(j)
        BY <1>1, <2>2 DEF Scheduled
      <3>2. memory.devices[j] = before.devices[j]
        BY <3>1 DEF AllDevicesLoaded, DevicesLoaded
      <3>. QED BY <1>2, <1>5, <3>2
    <2>3. j <= i \/ j \in (i + 1)..NumDevices
      BY <1>1
    <2>. QED BY <2>1, <2>2, <2>3
  <1>6. saved = {i}
    BY <1>2, <1>3, <1>4, <1>5
  <1>7. memory.devices[Max(saved)].scheduler = was.scheduler
    <2>1. Max(saved) = i
      BY <1>1, <1>6, MaxOfOne
    <2>. QED BY <1>4, <2>1
  <1>8. RestoredDevice(k) = [k EXCEPT !.scheduler = was.scheduler]
    BY <1>3, <1>6, <1>7 DEF RestoredDevice
  <1>. HIDE DEF was, k, saved
  <1>9. [k EXCEPT !.scheduler = was.scheduler] = [name |-> was.name, scheduler |-> was.scheduler]
    <2>1. ASSUME NEW m, DOMAIN m = {"name", "scheduler"}, NEW y
          PROVE  [m EXCEPT !.scheduler = y] = [name |-> m.name, scheduler |-> y]
      BY ONLY <2>1
    <2>. QED BY ONLY <1>3, <2>1
  <1>. QED BY <1>2, <1>8, <1>9 DEF was, k

LEMMA RestoreStep ==
  ASSUME IInv, Restore
  PROVE  IInv'
  <1>1. /\ Machine(before) /\ file \in Seq(Words) /\ left \in Nat
        /\ Retuned /\ AllCoresLoaded /\ AllDevicesLoaded
    BY DEF IInv, Loading, Restore
  <1>2. /\ kernel' = [sysctl  |-> memory.sysctl,
                      cores   |-> [i \in DOMAIN kernel.cores |-> RestoredCore(i - 1, kernel.cores[i])],
                      devices |-> [i \in DOMAIN kernel.devices |-> RestoredDevice(kernel.devices[i])]]
        /\ before' = before /\ file' = file /\ left' = left /\ phase' = "restored"
    BY DEF Restore
  <1>3. /\ DOMAIN before.cores = 1..NumCores /\ DOMAIN before.devices = 1..NumDevices
        /\ NumDevices \in Nat
    BY <1>1, MachineFacts
  <1>4. DOMAIN kernel.cores = DOMAIN before.cores /\ DOMAIN kernel.devices = DOMAIN before.devices
    BY <1>1 DEF Retuned
  <1>5. kernel'.sysctl = before.sysctl
    BY <1>1, <1>2 DEF AllCoresLoaded, CoresLoaded
  <1>6. ASSUME NEW i \in DOMAIN before.cores
        PROVE  LET was == before.cores[i]
                   is == kernel'.cores[i]
               IN  /\ is.governor = was.governor /\ is.min = was.min /\ is.max = was.max
                   /\ NamedEpp(was) \/ is.epp = was.epp
    <2>1. kernel'.cores[i] = RestoredCore(i - 1, kernel.cores[i])
      BY <1>2, <1>4
    <2>. QED BY <1>1, <1>3, <2>1, CoreRestored
  <1>7. ASSUME NEW i \in DOMAIN before.devices,
               \A j \in 1..i : before.devices[j].scheduler # Empty
        PROVE  kernel'.devices[i] = before.devices[i]
    <2>1. kernel'.devices[i] = RestoredDevice(kernel.devices[i])
      BY <1>2, <1>4
    <2>2. Scheduled(i) /\ i \in 1..NumDevices
      BY <1>3, <1>7 DEF Scheduled
    <2>. QED BY <1>1, <2>1, <2>2, DeviceRestored
  <1>8. RestoredButForGaps'
    BY <1>2, <1>5, <1>6, <1>7 DEF RestoredButForGaps, NamedEpp
  <1>9. AbortsOnlyWithoutGovernor' /\ Saving' /\ Loading'
    BY <1>2 DEF AbortsOnlyWithoutGovernor, Saving, Loading
  <1>. QED BY <1>1, <1>2, <1>8, <1>9, Same DEF IInv

LEMMA StutterStep ==
  ASSUME IInv, UNCHANGED vars
  PROVE  IInv'
  <1>1. /\ kernel' = kernel /\ before' = before /\ memory' = memory /\ file' = file
        /\ stream' = stream /\ left' = left /\ phase' = phase
    BY DEF vars
  <1>2. Saving' <=> Saving
    BY <1>1, FileSame, Same DEF Saving
  <1>3. Loading' <=> Loading
    BY <1>1, FileSame, Same DEF Loading, DeviceEnd, Scheduled
  <1>4. AbortsOnlyWithoutGovernor' /\ RestoredButForGaps'
    BY <1>1 DEF IInv, AbortsOnlyWithoutGovernor, RestoredButForGaps, HasCpufreq, NamedEpp
  <1>. QED BY <1>1, <1>2, <1>3, <1>4, Same DEF IInv

LEMMA Inductive == Spec => []IInv
  <1>1. Init => IInv
    BY InitStep
  <1>2. IInv /\ [Next]_vars => IInv'
    <2>. SUFFICES ASSUME IInv, [Next]_vars
                  PROVE  IInv'
      OBVIOUS
    <2>1. CASE CaptureCurrentState
      BY <2>1, CaptureStep
    <2>2. CASE SaveSysctls
      BY <2>2, SaveSysctlsStep
    <2>3. CASE SaveCore
      BY <2>3, SaveCoreStep
    <2>4. CASE SaveDeviceCount
      BY <2>4, SaveDeviceCountStep
    <2>5. CASE SaveDevice
      BY <2>5, SaveDeviceStep
    <2>6. CASE Saved
      BY <2>6, SavedStep
    <2>7. CASE Tune
      BY <2>7, TuneStep
    <2>8. CASE LoadSysctls
      BY <2>8, LoadSysctlsStep
    <2>9. CASE LoadCore
      BY <2>9, LoadCoreStep
    <2>10. CASE LoadThrows
      BY <2>10, LoadThrowsStep
    <2>11. CASE LoadDeviceCount
      BY <2>11, LoadDeviceCountStep
    <2>12. CASE LoadDevice
      BY <2>12, LoadDeviceStep
    <2>13. CASE Loaded
      BY <2>13, LoadedStep
    <2>14. CASE Restore
      BY <2>14, RestoreStep
    <2>15. CASE UNCHANGED vars
      BY <2>15, StutterStep
    <2>. QED BY <2>1, <2>2, <2>3, <2>4, <2>5, <2>6, <2>7, <2>8, <2>9, <2>10, <2>11,
                <2>12, <2>13, <2>14, <2>15 DEF Next
  <1>. QED BY <1>1, <1>2, PTL DEF Spec

-----------------------------------------------------------------------------
(* The theorems.                                                           *)

\* The exception of std::stoi ends the daemon only on a machine with a core
\* that had no governor to save.
THEOREM AbortIsOfMissingGovernor == Spec => []AbortsOnlyWithoutGovernor
  <1>1. IInv => AbortsOnlyWithoutGovernor
    BY DEF IInv
  <1>. QED BY <1>1, Inductive, PTL

\* After the restore every setting is as it was before `start`, on any machine,
\* but for a named EPP and the devices listed after one without a scheduler.
THEOREM RestoresButForGaps == Spec => []RestoredButForGaps
  <1>1. IInv => RestoredButForGaps
    BY DEF IInv
  <1>. QED BY <1>1, Inductive, PTL

\* Where every core has a governor and every device a scheduler, load() returns
\* what capture_current_state() had saved.
THEOREM LoadReturnsWhatWasSaved == Spec => []RoundTrip
  <1>1. ASSUME IInv, phase = "restore", HasCpufreq(before), HasSchedulers(before)
        PROVE  /\ memory.sysctl = before.sysctl
               /\ memory.cores = [i \in DOMAIN before.cores |-> Snapshot(i - 1, before.cores[i])]
               /\ memory.devices = before.devices
    <2>1. Machine(before) /\ AllCoresLoaded /\ AllDevicesLoaded
      BY <1>1 DEF IInv, Loading
    <2>2. /\ DOMAIN before.cores = 1..NumCores /\ DOMAIN before.devices = 1..NumDevices
          /\ before.devices \in Seq(Devices) /\ NumDevices \in Nat
      BY <2>1, MachineFacts
    <2>3. memory.cores = [i \in DOMAIN before.cores |-> Snapshot(i - 1, before.cores[i])]
      <3>1. /\ memory.cores \in Seq(Snapshots) /\ Len(memory.cores) = NumCores
            /\ \A i \in 1..NumCores : memory.cores[i] = Snapshot(i - 1, before.cores[i])
        BY <2>1 DEF AllCoresLoaded, CoresLoaded
      <3>2. memory.cores = [i \in 1..NumCores |-> memory.cores[i]]
        BY ONLY <3>1
      <3>. QED BY ONLY <2>2, <3>1, <3>2
    <2>4. \A i \in 1..NumDevices : Scheduled(i)
      BY <1>1, <2>2 DEF HasSchedulers, Scheduled
    <2>5. /\ memory.devices \in Seq(Pairs) /\ Len(memory.devices) = NumDevices
          /\ \A i \in 1..NumDevices : memory.devices[i] = before.devices[i]
      BY <2>1, <2>4 DEF AllDevicesLoaded, DevicesLoaded
    <2>6. memory.devices = before.devices
      BY <2>2, <2>5 DEF NumDevices
    <2>. QED BY <2>1, <2>3, <2>6 DEF AllCoresLoaded, CoresLoaded
  <1>2. IInv => RoundTrip
    BY <1>1 DEF RoundTrip
  <1>. QED BY <1>2, Inductive, PTL


=============================================================================
