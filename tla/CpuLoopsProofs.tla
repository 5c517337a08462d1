--------------------------- MODULE CpuLoopsProofs ---------------------------
(***************************************************************************)
(* Theorems about CpuLoops, for every number of CPUs and of sessions.      *)
(***************************************************************************)
EXTENDS CpuLoops, FiniteSetTheorems, TLAPS

USE DEF Cpus, NoFd

----------------------------------------------------------------------------
(* The inductive invariant.                                                *)

(* The types, with num_maps any number: MapsInv bounds it.                 *)
LoopTypes ==
    /\ online \in OnlineSets /\ i \in 0 .. MaxCpu /\ alloc \in 0 .. MaxCpu
    /\ pc \in {"idle", "opening", "enabling", "sampling", "disabling",
               "closing", "unmapping", "out_of_bounds", "exited"}
    /\ fds \in [Cpus -> Cpus \cup {NoFd}]
    /\ open \subseteq Cpus /\ enabled \subseteq Cpus /\ maps \subseteq Cpus
    /\ num_maps \in Nat /\ sessions \in 0 .. MaxSessions
    /\ grew \in BOOLEAN /\ fell \in BOOLEAN

(* The loops of start and stop find the entries they use: unless a CPU has *)
(* come online in the session, there are no more turns than init made      *)
(* entries, and it has filled all of them.                                 *)
EntriesInv ==
    /\ \A k \in Cpus : fds[k] \in {k, NoFd}
    /\ pc = "opening" => \A k \in Cpus : k < i => fds[k] = k
    /\ pc # "idle" /\ ~grew => nprocs <= alloc
    /\ pc \in {"enabling", "sampling", "disabling", "closing"} /\ ~grew =>
           \A k \in Cpus : k < nprocs => fds[k] = k
    /\ WithinArrays

(* The loop of start has enabled the events below its index, and in the    *)
(* end those of all the CPUs it was told of.                               *)
EnabledInv ==
    /\ pc = "enabling" => \A k \in Cpus : k < i => k \in enabled
    /\ pc = "sampling" /\ ~grew => \A k \in Cpus : k < nprocs => k \in enabled

(* While no CPU goes offline in a session, the loops of stop have as many  *)
(* turns as any loop before them had.                                      *)
ReleasedInv ==
    ~fell =>
        /\ pc = "idle" => open = {} /\ enabled = {}
        /\ pc = "opening" => i <= nprocs /\ \A k \in open : k < i
        /\ pc \in {"enabling", "sampling", "disabling"} =>
               \A k \in open : k < nprocs
        /\ pc = "closing" => \A k \in open : i <= k /\ k < nprocs
        /\ pc = "unmapping" => open = {}

(* One entry of mmaps for each CPU in each of n sessions.                  *)
Slots(n) == n * MaxCpu

(* num_maps, which no stop resets, is at least the number of rings that are*)
(* mapped, and at most one for each CPU and session.                       *)
MapsInv ==
    /\ \A k \in maps : k < num_maps
    /\ pc = "idle" => maps = {}
    /\ pc = "opening" =>
           /\ i <= num_maps /\ \A k \in maps : k < i
           /\ num_maps + MaxCpu <= Slots(sessions) + i
    /\ pc # "opening" => num_maps <= Slots(sessions)

CpuLoopsInv == LoopTypes /\ EntriesInv /\ EnabledInv /\ ReleasedInv /\ MapsInv

----------------------------------------------------------------------------
(* The number of CPUs that are online.                                     *)

(* get_nprocs is at least one and at most MaxCpu.                          *)
LEMMA NprocsRange ==
    ASSUME NEW s \in OnlineSets
    PROVE  IsFiniteSet(s) /\ Cardinality(s) \in 1 .. MaxCpu
<1>1. IsFiniteSet(Cpus) /\ Cardinality(Cpus) = MaxCpu
  <2>1. MaxCpu - 1 \in Int /\ 0 \in Int /\ ~(0 > MaxCpu - 1)
    BY CpuAssumption
  <2> QED
    BY <2>1, FS_Interval, CpuAssumption
<1>2. IsFiniteSet(s) /\ Cardinality(s) <= MaxCpu
  BY <1>1, FS_Subset DEF OnlineSets
<1>3. Cardinality(s) \in Nat /\ Cardinality(s) # 0
  BY <1>2, FS_CardinalityType, FS_EmptySet DEF OnlineSets
<1> QED
  BY <1>2, <1>3, CpuAssumption

(* A CPU that comes online adds one, a CPU that goes offline takes one.    *)
LEMMA NprocsChange ==
    ASSUME NEW s \in OnlineSets, NEW c \in Cpus
    PROVE  /\ c \notin s => /\ s \cup {c} \in OnlineSets
                            /\ Cardinality(s \cup {c}) = Cardinality(s) + 1
           /\ c \in s \ {0} => /\ s \ {c} \in OnlineSets
                               /\ Cardinality(s \ {c}) = Cardinality(s) - 1
<1>1. IsFiniteSet(s)
  BY NprocsRange
<1> QED
  BY <1>1, FS_AddElement, FS_RemoveElement DEF OnlineSets

(* An array that init has allocated and not filled is one of entries.      *)
LEMMA NoFdsType == NoFds \in [Cpus -> Cpus \cup {NoFd}]
BY DEF NoFds

(* Slots grow by MaxCpu with each session.                                 *)
LEMMA SlotsFacts ==
    /\ Slots(0) = 0
    /\ \A n \in Nat : Slots(n) \in Nat /\ Slots(n + 1) = Slots(n) + MaxCpu
    /\ \A n \in Nat : n <= MaxSessions => Slots(n) <= MaxSessions * MaxCpu
<1>1. ASSUME NEW n \in Nat
      PROVE  Slots(n) \in Nat /\ Slots(n + 1) = Slots(n) + MaxCpu
  BY CpuAssumption DEF Slots
<1>2. ASSUME NEW n \in Nat, n <= MaxSessions
      PROVE  Slots(n) <= MaxSessions * MaxCpu
  <2>1. (MaxSessions - n) * MaxCpu \in Nat
    BY <1>2, CpuAssumption
  <2>2. (MaxSessions - n) * MaxCpu = MaxSessions * MaxCpu - n * MaxCpu
    BY CpuAssumption
  <2>3. n * MaxCpu \in Nat /\ MaxSessions * MaxCpu \in Nat
    BY CpuAssumption
  <2> QED
    BY <2>1, <2>2, <2>3 DEF Slots
<1> QED
  BY <1>1, <1>2, CpuAssumption DEF Slots

----------------------------------------------------------------------------
(* Every step keeps the invariant.                                         *)

(* The invariant holds at the start.                                       *)
LEMMA LoopsInit == Init => CpuLoopsInv
<1> SUFFICES ASSUME Init PROVE CpuLoopsInv
  OBVIOUS
<1>1. Slots(0) = 0
  BY SlotsFacts
<1>2. LoopTypes
  <2>1. fds \in [Cpus -> Cpus \cup {NoFd}]
    BY NoFdsType DEF Init
  <2>2. grew \in BOOLEAN /\ fell \in BOOLEAN
    BY DEF Init
  <2>3. /\ online \in OnlineSets /\ i \in 0 .. MaxCpu /\ alloc \in 0 .. MaxCpu
        /\ open \subseteq Cpus /\ enabled \subseteq Cpus /\ maps \subseteq Cpus
        /\ num_maps \in Nat /\ sessions \in 0 .. MaxSessions /\ pc = "idle"
    BY CpuAssumption DEF Init
  <2> QED
    BY <2>1, <2>2, <2>3 DEF LoopTypes
<1>3. EntriesInv /\ EnabledInv /\ ReleasedInv
  BY DEF Init, NoFds, EntriesInv, EnabledInv, ReleasedInv, WithinArrays
<1>4. MapsInv
  BY <1>1 DEF Init, MapsInv
<1> QED
  BY <1>2, <1>3, <1>4 DEF CpuLoopsInv

(* CPUs that come and go, between sessions or in one.                      *)
LEMMA HotplugStep ==
    ASSUME CpuLoopsInv, Hotplug
    PROVE  CpuLoopsInv'
<1> USE DEF CpuLoopsInv
<1>0. PICK c \in Cpus :
          \/ /\ c \notin online /\ online' = online \cup {c}
             /\ grew' = (grew \/ pc # "idle") /\ UNCHANGED fell
          \/ /\ c \in online \ {0} /\ online' = online \ {c}
             /\ fell' = (fell \/ pc # "idle") /\ UNCHANGED grew
  BY DEF Hotplug
<1>1. /\ pc \notin {"out_of_bounds", "exited"}
      /\ UNCHANGED <<pc, i, alloc, fds, open, enabled, maps, num_maps, sessions>>
  BY DEF Hotplug, libVars
<1>2. online' \in OnlineSets
  BY <1>0, NprocsChange DEF LoopTypes
<1>3. nprocs \in Int /\ nprocs' \in Int
  BY <1>2, NprocsRange, CpuAssumption DEF LoopTypes, nprocs
<1>4. \/ /\ nprocs' = nprocs + 1 /\ (grew' <=> grew \/ pc # "idle")
         /\ (fell' <=> fell)
      \/ /\ nprocs' = nprocs - 1 /\ (fell' <=> fell \/ pc # "idle")
         /\ (grew' <=> grew)
  BY <1>0, NprocsChange DEF LoopTypes, nprocs
<1>5. LoopTypes'
  <2>1. grew' \in BOOLEAN /\ fell' \in BOOLEAN
    BY <1>0, Zenon DEF LoopTypes
  <2> QED
    BY <1>1, <1>2, <2>1 DEF LoopTypes
<1>6. EntriesInv'
  BY <1>1, <1>3, <1>4, CpuAssumption DEF EntriesInv, WithinArrays, LoopTypes
<1>7. EnabledInv'
  BY <1>1, <1>3, <1>4, CpuAssumption DEF EnabledInv, LoopTypes
<1>8. ReleasedInv'
  BY <1>1, <1>3, <1>4, CpuAssumption DEF ReleasedInv, LoopTypes
<1>9. MapsInv'
  BY <1>1 DEF MapsInv
<1> QED
  BY <1>5, <1>6, <1>7, <1>8, <1>9

(* A turn of the loop of init.                                             *)
LEMMA OpenTurnStep ==
    ASSUME CpuLoopsInv, OpenTurn
    PROVE  CpuLoopsInv'
<1> USE DEF CpuLoopsInv
<1>1. /\ pc = "opening" /\ i < nprocs
      /\ UNCHANGED <<online, alloc, sessions, grew, fell>>
  BY DEF OpenTurn, InLoop, history
<1>2. nprocs' = nprocs /\ nprocs \in 1 .. MaxCpu /\ i \in Cpus
  BY <1>1, NprocsRange, CpuAssumption DEF LoopTypes, nprocs
<1>3. CASE /\ i < alloc
           /\ fds' = [fds EXCEPT ![i] = i]
           /\ open' = open \cup {i} /\ enabled' = enabled \ {i}
           /\ maps' = maps \cup {i} /\ num_maps' = num_maps + 1
           /\ i' = i + 1
           /\ UNCHANGED pc
  <2>1. LoopTypes'
    BY <1>1, <1>2, <1>3, CpuAssumption DEF LoopTypes
  <2>2. EntriesInv'
    BY <1>1, <1>2, <1>3 DEF EntriesInv, WithinArrays, LoopTypes
  <2>3. EnabledInv'
    BY <1>1, <1>3 DEF EnabledInv
  <2>4. ReleasedInv'
    BY <1>1, <1>2, <1>3 DEF ReleasedInv, LoopTypes
  <2>5. MapsInv'
    <3>1. Slots(sessions) \in Nat
      BY SlotsFacts DEF LoopTypes
    <3> QED
      BY <1>1, <1>2, <1>3, <3>1, CpuAssumption DEF MapsInv, LoopTypes
  <2> QED
    BY <2>1, <2>2, <2>3, <2>4, <2>5
<1>4. CASE /\ \/ i >= alloc /\ pc' = "out_of_bounds"
              \/ pc' = "exited"
           /\ UNCHANGED <<i, fds, open, enabled, maps, num_maps>>
  <2>1. LoopTypes'
    BY <1>1, <1>4 DEF LoopTypes
  <2>2. EntriesInv'
    <3>1. pc' = "out_of_bounds" => grew
      BY <1>1, <1>2, <1>4 DEF EntriesInv, LoopTypes
    <3> QED
      BY <1>1, <1>2, <1>4, <3>1 DEF EntriesInv, WithinArrays
  <2>3. EnabledInv' /\ ReleasedInv'
    BY <1>1, <1>4 DEF EnabledInv, ReleasedInv
  <2>4. MapsInv'
    <3>1. Slots(sessions) \in Nat
      BY SlotsFacts DEF LoopTypes
    <3> QED
      BY <1>1, <1>2, <1>4, <3>1, CpuAssumption DEF MapsInv, LoopTypes
  <2> QED
    BY <2>1, <2>2, <2>3, <2>4
<1> QED
  BY <1>3, <1>4 DEF OpenTurn

(* A turn of a loop of start or stop: its entry is there, unless a CPU has *)
(* come online in the session, and then holds the event of CPU i.          *)
LEMMA TurnStep ==
    ASSUME CpuLoopsInv, EnableTurn \/ DisableTurn \/ CloseTurn
    PROVE  CpuLoopsInv'
<1> USE DEF CpuLoopsInv
<1>1. /\ pc \in {"enabling", "disabling", "closing"} /\ i < nprocs
      /\ UNCHANGED <<online, alloc, fds, maps, num_maps, sessions, grew, fell>>
  BY DEF EnableTurn, DisableTurn, CloseTurn, Turn, InLoop, history
<1>2. nprocs' = nprocs /\ nprocs \in 1 .. MaxCpu /\ i \in Cpus
  BY <1>1, NprocsRange, CpuAssumption DEF LoopTypes, nprocs
<1>3. MapsInv'
  BY <1>1 DEF EnableTurn, DisableTurn, CloseTurn, Turn, MapsInv
<1>4. CASE Stray
  <2>1. pc' = "out_of_bounds" /\ UNCHANGED <<i, open, enabled>>
    BY <1>4 DEF EnableTurn, DisableTurn, CloseTurn, Turn
  <2>2. grew
    BY <1>1, <1>2, <1>4 DEF Stray, EntriesInv, LoopTypes
  <2>3. LoopTypes'
    BY <1>1, <2>1 DEF LoopTypes
  <2>4. EntriesInv' /\ EnabledInv' /\ ReleasedInv'
    BY <1>1, <2>1, <2>2
    DEF EntriesInv, WithinArrays, EnabledInv, ReleasedInv
  <2> QED
    BY <1>3, <2>3, <2>4
<1>5. CASE ~Stray
  <2>1. fds[i] = i
    BY <1>2, <1>5 DEF Stray, EntriesInv
  <2>2. /\ i' = i + 1 /\ pc' = pc
        /\ \/ /\ pc = "enabling" /\ enabled' = enabled \cup {i}
              /\ open' = open
           \/ /\ pc = "disabling" /\ enabled' = enabled \ {i} /\ open' = open
           \/ pc = "closing" /\ open' = open \ {i} /\ enabled' = enabled
    BY <1>5, <2>1 DEF EnableTurn, DisableTurn, CloseTurn, Turn
  <2>3. LoopTypes'
    <3>1. i' \in 0 .. MaxCpu
      BY <1>2, <2>2, CpuAssumption
    <3>2. open' \subseteq Cpus /\ enabled' \subseteq Cpus
      BY <1>2, <2>2 DEF LoopTypes
    <3> QED
      BY <1>1, <2>2, <3>1, <3>2 DEF LoopTypes
  <2>4. EntriesInv'
    BY <1>1, <1>2, <2>2 DEF EntriesInv, WithinArrays
  <2>5. EnabledInv'
    BY <1>1, <1>2, <2>2 DEF EnabledInv, LoopTypes
  <2>6. ReleasedInv'
    <3> SUFFICES ASSUME ~fell PROVE ReleasedInv'
      BY <1>1 DEF ReleasedInv
    <3>1. CASE pc = "enabling" \/ pc = "disabling"
      BY <1>1, <1>2, <2>2, <3>1 DEF ReleasedInv
    <3>2. CASE pc = "closing"
      <4>1. open' = open \ {i}
        BY <2>2, <3>2
      <4>2. \A k \in open : i <= k /\ k < nprocs
        BY <3>2 DEF ReleasedInv
      <4>3. \A k \in open : k \in Cpus
        BY DEF LoopTypes
      <4>4. \A k \in open' : i + 1 <= k /\ k < nprocs
        BY <1>2, <4>1, <4>2, <4>3, CpuAssumption
      <4> QED
        BY <1>1, <1>2, <2>2, <3>2, <4>4 DEF ReleasedInv
    <3> QED
      BY <1>1, <3>1, <3>2
  <2> QED
    BY <1>3, <2>3, <2>4, <2>5, <2>6
<1> QED
  BY <1>4, <1>5

(* A loop is left when its index has come up to the number of CPUs.        *)
LEMMA LeaveStep ==
    ASSUME CpuLoopsInv, NEW loop, NEW next, Leave(loop, next),
           \/ loop = "opening" /\ next = "enabling"
           \/ loop = "enabling" /\ next = "sampling"
           \/ loop = "disabling" /\ next = "closing"
           \/ loop = "closing" /\ next = "unmapping"
    PROVE  CpuLoopsInv'
<1> USE DEF CpuLoopsInv
<1>1. /\ pc = loop /\ ~(i < nprocs) /\ pc' = next /\ i' = 0
      /\ UNCHANGED <<online, alloc, fds, open, enabled, maps, num_maps,
                     sessions, grew, fell>>
  BY DEF Leave, InLoop, history
<1>2. nprocs' = nprocs /\ nprocs \in 1 .. MaxCpu /\ i >= nprocs
  BY <1>1, NprocsRange DEF LoopTypes, nprocs
<1>3. LoopTypes'
  BY <1>1, CpuAssumption DEF LoopTypes
<1>4. EntriesInv'
  BY <1>1, <1>2 DEF EntriesInv, WithinArrays, LoopTypes
<1>5. EnabledInv'
  BY <1>1, <1>2 DEF EnabledInv, LoopTypes
<1>6. ReleasedInv'
  BY <1>1, <1>2 DEF ReleasedInv, LoopTypes
<1>7. MapsInv'
  <2>1. Slots(sessions) \in Nat
    BY SlotsFacts DEF LoopTypes
  <2> QED
    BY <1>1, <2>1, CpuAssumption DEF MapsInv, LoopTypes
<1> QED
  BY <1>3, <1>4, <1>5, <1>6, <1>7

(* The calls of init and stop, and the end of stop.                        *)
LEMMA CallStep ==
    ASSUME CpuLoopsInv, SampleInit \/ CallStop \/ Unmap
    PROVE  CpuLoopsInv'
<1> USE DEF CpuLoopsInv
<1>1. nprocs' = nprocs /\ nprocs \in 1 .. MaxCpu
  BY NprocsRange DEF LoopTypes, nprocs, SampleInit, CallStop, Unmap
<1>2. CASE SampleInit
  <2>1. LoopTypes'
    <3>1. fds' \in [Cpus -> Cpus \cup {NoFd}]
      BY <1>2, NoFdsType DEF SampleInit
    <3>2. /\ online' = online /\ fell' = fell /\ pc' = "opening" /\ i' = 0
          /\ alloc' = nprocs /\ sessions' = sessions + 1 /\ grew' = FALSE
          /\ sessions < MaxSessions
          /\ UNCHANGED <<open, enabled, maps, num_maps>>
      BY <1>2 DEF SampleInit, Entries
    <3>3. i' \in 0 .. MaxCpu /\ alloc' \in 0 .. MaxCpu
      BY <1>1, <3>2, CpuAssumption
    <3>4. sessions' \in 0 .. MaxSessions
      BY <3>2, CpuAssumption DEF LoopTypes
    <3>5. grew' \in BOOLEAN
      BY <3>2, Zenon
    <3> QED
      BY <3>1, <3>2, <3>3, <3>4, <3>5 DEF LoopTypes
  <2>2. EntriesInv' /\ EnabledInv' /\ ReleasedInv'
    BY <1>1, <1>2, CpuAssumption
    DEF SampleInit, Entries, NoFds, EntriesInv, WithinArrays, EnabledInv,
        ReleasedInv, LoopTypes
  <2>3. MapsInv'
    <3>1. Slots(sessions + 1) = Slots(sessions) + MaxCpu /\ Slots(sessions) \in Nat
      BY SlotsFacts DEF LoopTypes
    <3> QED
      BY <1>2, <3>1, CpuAssumption DEF SampleInit, MapsInv, LoopTypes
  <2> QED
    BY <2>1, <2>2, <2>3
<1>3. CASE CallStop
  <2>1. LoopTypes'
    BY <1>3 DEF CallStop, history, LoopTypes
  <2>2. EntriesInv' /\ EnabledInv' /\ ReleasedInv' /\ MapsInv'
    BY <1>1, <1>3
    DEF CallStop, history, EntriesInv, WithinArrays, EnabledInv, ReleasedInv,
        MapsInv
  <2> QED
    BY <2>1, <2>2
<1>4. CASE Unmap
  <2>1. LoopTypes'
    <3>1. fds' \in [Cpus -> Cpus \cup {NoFd}]
      BY <1>4, NoFdsType DEF Unmap
    <3>2. /\ maps' \subseteq maps /\ enabled' \subseteq enabled
          /\ alloc' = 0 /\ pc' = "idle"
          /\ UNCHANGED <<online, i, open, num_maps, sessions, grew, fell>>
      BY <1>4 DEF Unmap, history
    <3> QED
      BY <3>1, <3>2, CpuAssumption DEF LoopTypes
  <2>2. EntriesInv' /\ EnabledInv' /\ ReleasedInv'
    BY <1>4
    DEF Unmap, NoFds, history, EntriesInv, WithinArrays, EnabledInv, ReleasedInv
  <2>3. MapsInv'
    <3>1. maps' = {}
      <4>1. ASSUME NEW k \in maps PROVE k \in 0 .. num_maps - 1
        BY DEF MapsInv, LoopTypes
      <4> QED
        BY <1>4, <4>1 DEF Unmap, UnmapTo
    <3> QED
      BY <1>4, <3>1 DEF Unmap, MapsInv
  <2> QED
    BY <2>1, <2>2, <2>3
<1> QED
  BY <1>2, <1>3, <1>4

(* Every step keeps the invariant.                                         *)
LEMMA LoopsStep == CpuLoopsInv /\ [Next]_vars => CpuLoopsInv'
<1> SUFFICES ASSUME CpuLoopsInv, [Next]_vars PROVE CpuLoopsInv'
  OBVIOUS
<1>1. CASE UNCHANGED vars
  BY <1>1
  DEF vars, libVars, history, CpuLoopsInv, LoopTypes, EntriesInv, WithinArrays,
      EnabledInv, ReleasedInv, MapsInv, nprocs
<1>2. CASE OpenEnds \/ EnableEnds \/ DisableEnds \/ CloseEnds
  BY <1>2, LeaveStep DEF OpenEnds, EnableEnds, DisableEnds, CloseEnds
<1> QED
  BY <1>1, <1>2, HotplugStep, OpenTurnStep, TurnStep, CallStep DEF Next, Library

(* The invariant holds however CPUs come and go.                           *)
THEOREM LoopsInvariant == Spec => []CpuLoopsInv
<1> QED
  BY LoopsInit, LoopsStep, PTL DEF Spec

----------------------------------------------------------------------------
(* The properties.                                                         *)

(* Loop index, arrays and num_maps stay within the numbers of CPUs and     *)
(* sessions.                                                               *)
THEOREM LoopsTypeCorrect == Spec => []TypeOK
<1>1. CpuLoopsInv => TypeOK
  <2> SUFFICES ASSUME CpuLoopsInv PROVE TypeOK
    OBVIOUS
  <2>1. num_maps <= Slots(sessions)
    <3>1. Slots(sessions) \in Nat
      BY SlotsFacts DEF CpuLoopsInv, LoopTypes
    <3> QED
      BY <3>1, CpuAssumption DEF CpuLoopsInv, MapsInv, LoopTypes
  <2>2. Slots(sessions) <= MaxSessions * MaxCpu /\ Slots(sessions) \in Nat
    <3>1. sessions \in Nat /\ sessions <= MaxSessions
      BY CpuAssumption DEF CpuLoopsInv, LoopTypes
    <3> QED
      BY <3>1, SlotsFacts
  <2>3. MaxSessions * MaxCpu \in Nat
    BY CpuAssumption
  <2>4. num_maps \in 0 .. MaxSessions * MaxCpu
    BY <2>1, <2>2, <2>3 DEF CpuLoopsInv, LoopTypes
  <2> QED
    BY <2>4 DEF CpuLoopsInv, LoopTypes, TypeOK
<1> QED
  BY <1>1, LoopsInvariant, PTL

(* No loop runs beyond the arrays of init, or uses an entry that init has  *)
(* not filled, in a session in which no CPU comes online.                  *)
THEOREM LoopsWithinArrays == Spec => []WithinArrays
<1>1. CpuLoopsInv => WithinArrays
  BY DEF CpuLoopsInv, EntriesInv
<1> QED
  BY <1>1, LoopsInvariant, PTL

(* Every CPU that is online is monitored while the program is sampled, as  *)
(* long as none has come online and the online ones are numbered from 0.   *)
THEOREM LoopsMonitorEveryCpu == Spec => []EveryCpuMonitored
<1>1. CpuLoopsInv => EveryCpuMonitored
  <2> SUFFICES ASSUME CpuLoopsInv, pc = "sampling", ~grew,
                      online = 0 .. nprocs - 1, NEW c \in online
               PROVE  fds[c] = c /\ c \in enabled
    BY DEF EveryCpuMonitored
  <2>1. nprocs \in 1 .. MaxCpu
    BY NprocsRange DEF CpuLoopsInv, LoopTypes, nprocs
  <2>2. c \in Cpus /\ c < nprocs
    BY <2>1, CpuAssumption
  <2> QED
    BY <2>2 DEF CpuLoopsInv, EntriesInv, EnabledInv
<1> QED
  BY <1>1, LoopsInvariant, PTL

(* Stop closes every descriptor and leaves no event enabled, unless a CPU  *)
(* has gone offline in a session.                                          *)
THEOREM LoopsReleaseAll == Spec => []AllReleased
<1>1. CpuLoopsInv => AllReleased
  BY DEF CpuLoopsInv, ReleasedInv, AllReleased
<1> QED
  BY <1>1, LoopsInvariant, PTL

(* Stop unmaps every ring, whatever CPUs have come and gone.               *)
THEOREM LoopsReleaseMappings == Spec => []MappingsReleased
<1>1. CpuLoopsInv => MappingsReleased
  BY DEF CpuLoopsInv, MapsInv, MappingsReleased
<1> QED
  BY <1>1, LoopsInvariant, PTL
=============================================================================
