------------------------- MODULE SampleSessionProofs -------------------------
(***************************************************************************)
(* Theorems about SampleSession, for every number of CPUs, ring size,      *)
(* record sizes and bounds.                                                *)
(***************************************************************************)
EXTENDS SampleSession, RingPositions, SequenceTheorems, TLAPS

USE DEF Cpu, Blank

----------------------------------------------------------------------------
(* Type correctness.                                                       *)

(* A zeroed data area is one.                                              *)
LEMMA BlankAreaType == BlankArea \in Area
BY ConstantsAssumption DEF BlankArea, Area

(* What the kernel leaves in a ring after a write is a data area.          *)
LEMMA WrittenType ==
    ASSUME NEW r \in Area, NEW h \in Nat, NEW n \in Nat
    PROVE  Written(r, h, n) \in Area
<1>1. ASSUME NEW k \in 0 .. DataSize - 1,
             \E p \in h .. h + n - 1 : p % DataSize = k
      PROVE  (CHOOSE p \in h .. h + n - 1 : p % DataSize = k) \in Int
  BY <1>1
<1> QED
  BY <1>1, ConstantsAssumption DEF Written, Area

(* The two memcpys fill the buffer with words of the ring.                 *)
LEMMA CopiedType ==
    ASSUME NEW r \in Area, NEW prev \in Nat
    PROVE  Copied(r, prev) \in Area
<1> DEFINE wrap == prev % DataSize
<1>1. wrap \in 0 .. DataSize - 1
  BY ConstantsAssumption
<1> HIDE DEF wrap
<1>2. ASSUME NEW k \in 0 .. DataSize - 1
      PROVE  (IF k < DataSize - wrap THEN r[wrap + k]
                                     ELSE r[k - (DataSize - wrap)]) \in Int
  <2>1. CASE k < DataSize - wrap
    <3>1. wrap + k \in 0 .. DataSize - 1
      BY <1>1, <2>1, ConstantsAssumption
    <3> QED
      BY <2>1, <3>1 DEF Area
  <2>2. CASE ~(k < DataSize - wrap)
    <3>1. k - (DataSize - wrap) \in 0 .. DataSize - 1
      BY <1>1, <2>2, ConstantsAssumption
    <3> QED
      BY <2>2, <3>1 DEF Area
  <2> QED
    BY <2>1, <2>2
<1> QED
  BY <1>2 DEF Copied, Area, wrap

(* What the loop prints is a sequence of words, of length size when size   *)
(* is not negative.                                                        *)
LEMMA PrintedType ==
    ASSUME NEW d \in Area, NEW size \in Int, size <= DataSize
    PROVE  /\ Printed(d, size) \in Seq(Int)
           /\ size >= 0 => Len(Printed(d, size)) = size
<1>1. \A k \in 1 .. size : d[k - 1] \in Int
  BY ConstantsAssumption DEF Area
<1>2. CASE size >= 0
  BY <1>1, <1>2 DEF Printed
<1>3. CASE size < 0
  <2>1. 1 .. size = 1 .. 0
    BY <1>3
  <2>2. Printed(d, size) \in [1 .. 0 -> Int]
    BY <1>1, <2>1 DEF Printed
  <2> QED
    BY <1>3, <2>2
<1> QED
  BY <1>2, <1>3

(* Each part of the type invariant depends on its own variables only.      *)
LEMMA UnchangedTypes ==
    /\ MainTypeOK /\ UNCHANGED mainVars => MainTypeOK'
    /\ LibTypeOK /\ UNCHANGED libVars => LibTypeOK'
    /\ EventTypeOK /\ UNCHANGED <<eventVars, pending, late>> => EventTypeOK'
    /\ RingTypeOK /\ UNCHANGED ringVars => RingTypeOK'
    /\ FrameTypeOK /\ UNCHANGED frameVars => FrameTypeOK'
<1>1. MainTypeOK /\ UNCHANGED mainVars => MainTypeOK'
  BY DEF MainTypeOK, mainVars
<1>2. LibTypeOK /\ UNCHANGED libVars => LibTypeOK'
  BY DEF LibTypeOK, libVars
<1>3. EventTypeOK /\ UNCHANGED <<eventVars, pending, late>> => EventTypeOK'
  BY DEF EventTypeOK, eventVars
<1>4. RingTypeOK /\ UNCHANGED ringVars => RingTypeOK'
  BY DEF RingTypeOK, ringVars
<1>5. FrameTypeOK /\ UNCHANGED frameVars => FrameTypeOK'
  BY DEF FrameTypeOK, frameVars
<1> QED
  BY <1>1, <1>2, <1>3, <1>4, <1>5

(* Every variable keeps its type: no index, descriptor or length that a    *)
(* thread holds leaves its range, with any number of threads.              *)
THEOREM TypeCorrect == Spec => []TypeOK
<1>1. Init => TypeOK
  <2> SUFFICES ASSUME Init PROVE TypeOK
    OBVIOUS
  <2>1. status \in Statuses /\ pc \in MainAt
    BY DEF Init, Statuses, MainAt
  <2>2. inkernel \in BOOLEAN /\ arena \in BOOLEAN
    BY Zenon DEF Init
  <2>3. i \in Nat /\ session \in Nat
    BY DEF Init
  <2>4. LibTypeOK
    BY BlankAreaType, ConstantsAssumption DEF Init, LibTypeOK
  <2>5. EventTypeOK
    BY DEF Init, EventTypeOK
  <2>6. RingTypeOK
    BY BlankAreaType DEF Init, RingTypeOK
  <2>7. FrameTypeOK
    BY ConstantsAssumption DEF Init, FrameTypeOK, HandlerAt
  <2> QED
    BY <2>1, <2>2, <2>3, <2>4, <2>5, <2>6, <2>7 DEF TypeOK, MainTypeOK
<1>2. TypeOK /\ [Next]_vars => TypeOK'
  <2> SUFFICES ASSUME TypeOK, [Next]_vars
               PROVE  TypeOK'
    OBVIOUS
  <2> USE DEF TypeOK
  <2>1. CASE SampleInit
    <3>1. EventTypeOK' /\ RingTypeOK' /\ FrameTypeOK'
      BY <2>1, UnchangedTypes DEF SampleInit
    <3>2. MainTypeOK'
      BY <2>1
      DEF SampleInit, MainRuns, MainAt, SyscallAt, Statuses, MainTypeOK
    <3>3. LibTypeOK'
      BY <2>1, BlankAreaType
      DEF SampleInit, StreamAfterWarmUp, LibTypeOK
    <3> QED
      BY <3>1, <3>2, <3>3
  <2>2. CASE SampleInitReturnsError
    <3>1. LibTypeOK' /\ EventTypeOK' /\ RingTypeOK' /\ FrameTypeOK'
      BY <2>2, UnchangedTypes DEF SampleInitReturnsError
    <3>2. MainTypeOK'
      BY <2>2
      DEF SampleInitReturnsError, MainRuns, MainAt, SyscallAt, Statuses,
          MainTypeOK
    <3> QED
      BY <3>1, <3>2
  <2>3. CASE StartOnError
    <3>1. LibTypeOK' /\ EventTypeOK' /\ RingTypeOK' /\ FrameTypeOK'
      BY <2>3, UnchangedTypes DEF StartOnError
    <3>2. MainTypeOK'
      BY <2>3
      DEF StartOnError, MainRuns, MainAt, SyscallAt, Statuses, MainTypeOK
    <3> QED
      BY <3>1, <3>2
  <2>4. CASE SampleInitExits
    <3>1. LibTypeOK' /\ EventTypeOK' /\ RingTypeOK' /\ FrameTypeOK'
      BY <2>4, UnchangedTypes DEF SampleInitExits
    <3>2. MainTypeOK'
      BY <2>4
      DEF SampleInitExits, MainRuns, MainAt, SyscallAt, Statuses, MainTypeOK
    <3> QED
      BY <3>1, <3>2
  <2>5. ASSUME NEW f \in Fd, SampleInitOpen(f) PROVE TypeOK'
    <3>1. FrameTypeOK'
      BY <2>5, UnchangedTypes DEF SampleInitOpen
    <3>2. MainTypeOK'
      BY <2>5
      DEF SampleInitOpen, Advance, MainAt, SyscallAt, Statuses, MainTypeOK
    <3>3. LibTypeOK'
      <4>1. fds' \in [Cpu -> Fd \cup {NoFd}]
        BY <2>5 DEF SampleInitOpen, LibTypeOK
      <4>2. num_maps' \in Nat
        BY <2>5 DEF SampleInitOpen, CountMap, LibTypeOK
      <4> QED
        BY <2>5, <4>1, <4>2 DEF SampleInitOpen, LibTypeOK
    <3>4. EventTypeOK'
      BY <2>5
      DEF SampleInitOpen, eventVars, EventTypeOK
    <3>5. RingTypeOK'
      BY <2>5, BlankAreaType
      DEF SampleInitOpen, ringVars, RingTypeOK
    <3> QED
      BY <3>1, <3>2, <3>3, <3>4, <3>5
  <2>6. CASE EnterKernel
    <3>1. LibTypeOK' /\ EventTypeOK' /\ RingTypeOK' /\ FrameTypeOK'
      BY <2>6, UnchangedTypes DEF EnterKernel
    <3>2. MainTypeOK'
      BY <2>6
      DEF EnterKernel, MainRuns, MainAt, SyscallAt, Statuses, MainTypeOK
    <3> QED
      BY <3>1, <3>2
  <2>7. CASE SampleStart
    <3>1. LibTypeOK' /\ RingTypeOK' /\ FrameTypeOK'
      BY <2>7, UnchangedTypes DEF SampleStart
    <3>2. MainTypeOK'
      <4>1. inkernel' \in BOOLEAN
        BY <2>7, Zenon DEF SampleStart
      <4>2. pc' \in MainAt /\ i' \in Nat
        BY <2>7 DEF SampleStart, Advance, MainAt, SyscallAt, MainTypeOK
      <4>3. status' \in Statuses /\ session' \in Nat /\ arena' \in BOOLEAN
        BY <2>7 DEF SampleStart, Statuses, MainTypeOK
      <4> QED
        BY <4>1, <4>2, <4>3 DEF MainTypeOK
    <3>3. EventTypeOK'
      BY <2>7
      DEF SampleStart, IocEnable, IsEvent, EventTypeOK
    <3> QED
      BY <3>1, <3>2, <3>3
  <2>8. CASE EnterMalloc
    <3>1. LibTypeOK' /\ EventTypeOK' /\ RingTypeOK' /\ FrameTypeOK'
      BY <2>8, UnchangedTypes DEF EnterMalloc
    <3>2. MainTypeOK'
      BY <2>8
      DEF EnterMalloc, MainRuns, MainAt, SyscallAt, Statuses, MainTypeOK
    <3> QED
      BY <3>1, <3>2
  <2>9. CASE LeaveMalloc
    <3>1. LibTypeOK' /\ EventTypeOK' /\ RingTypeOK' /\ FrameTypeOK'
      BY <2>9, UnchangedTypes DEF LeaveMalloc
    <3>2. MainTypeOK'
      BY <2>9
      DEF LeaveMalloc, MainRuns, MainAt, SyscallAt, Statuses, MainTypeOK
    <3> QED
      BY <3>1, <3>2
  <2>10. CASE CallStop
    <3>1. LibTypeOK' /\ RingTypeOK' /\ FrameTypeOK'
      BY <2>10, UnchangedTypes DEF CallStop
    <3>2. MainTypeOK'
      BY <2>10
      DEF CallStop, MainRuns, MainAt, SyscallAt, Statuses, MainTypeOK
    <3>3. EventTypeOK'
      BY <2>10 DEF CallStop, eventVars, EventTypeOK
    <3> QED
      BY <3>1, <3>2, <3>3
  <2>11. CASE StopRefresh
    <3>1. LibTypeOK' /\ RingTypeOK' /\ FrameTypeOK'
      BY <2>11, UnchangedTypes DEF StopRefresh
    <3>2. MainTypeOK'
      <4>1. inkernel' \in BOOLEAN
        BY <2>11, Zenon DEF StopRefresh
      <4>2. pc' \in MainAt /\ i' \in Nat
        BY <2>11 DEF StopRefresh, Advance, MainAt, SyscallAt, MainTypeOK
      <4>3. status' \in Statuses /\ session' \in Nat /\ arena' \in BOOLEAN
        BY <2>11 DEF StopRefresh, Statuses, MainTypeOK
      <4> QED
        BY <4>1, <4>2, <4>3 DEF MainTypeOK
    <3>3. EventTypeOK'
      BY <2>11
      DEF StopRefresh, IocRefresh, IsEvent, EventTypeOK
    <3> QED
      BY <3>1, <3>2, <3>3
  <2>12. CASE StopDisable
    <3>1. LibTypeOK' /\ RingTypeOK' /\ FrameTypeOK'
      BY <2>12, UnchangedTypes DEF StopDisable
    <3>2. MainTypeOK'
      <4>1. inkernel' \in BOOLEAN
        BY <2>12, Zenon DEF StopDisable
      <4>2. pc' \in MainAt /\ i' \in Nat
        BY <2>12 DEF StopDisable, Advance, MainAt, SyscallAt, MainTypeOK
      <4>3. status' \in Statuses /\ session' \in Nat /\ arena' \in BOOLEAN
        BY <2>12 DEF StopDisable, Statuses, MainTypeOK
      <4> QED
        BY <4>1, <4>2, <4>3 DEF MainTypeOK
    <3>3. EventTypeOK'
      BY <2>12
      DEF StopDisable, IocDisable, IsEvent, EventTypeOK
    <3> QED
      BY <3>1, <3>2, <3>3
  <2>13. CASE StopClose
    <3>1. LibTypeOK' /\ RingTypeOK' /\ FrameTypeOK'
      BY <2>13, UnchangedTypes DEF StopClose
    <3>2. MainTypeOK'
      <4>1. inkernel' \in BOOLEAN
        BY <2>13, Zenon DEF StopClose
      <4>2. pc' \in MainAt /\ i' \in Nat
        BY <2>13 DEF StopClose, Advance, MainAt, SyscallAt, MainTypeOK
      <4>3. status' \in Statuses /\ session' \in Nat /\ arena' \in BOOLEAN
        BY <2>13 DEF StopClose, Statuses, MainTypeOK
      <4> QED
        BY <4>1, <4>2, <4>3 DEF MainTypeOK
    <3>3. EventTypeOK'
      BY <2>13
      DEF StopClose, eventVars, EventTypeOK
    <3> QED
      BY <3>1, <3>2, <3>3
  <2>14. CASE StopMunmap
    <3>1. LibTypeOK' /\ RingTypeOK' /\ FrameTypeOK'
      BY <2>14, UnchangedTypes DEF StopMunmap
    <3>2. MainTypeOK'
      <4>1. inkernel' \in BOOLEAN
        BY <2>14, Zenon DEF StopMunmap
      <4>2. pc' \in MainAt /\ i' \in Nat
        BY <2>14 DEF StopMunmap, Advance, MainAt, SyscallAt, MainTypeOK
      <4>3. status' \in Statuses /\ session' \in Nat /\ arena' \in BOOLEAN
        BY <2>14 DEF StopMunmap, Statuses, MainTypeOK
      <4> QED
        BY <4>1, <4>2, <4>3 DEF MainTypeOK
    <3>3. EventTypeOK'
      BY <2>14
      DEF StopMunmap, eventVars, EventTypeOK
    <3> QED
      BY <3>1, <3>2, <3>3
  <2>15. CASE StopCleanup
    <3>1. EventTypeOK' /\ RingTypeOK' /\ FrameTypeOK'
      BY <2>15, UnchangedTypes DEF StopCleanup
    <3>2. MainTypeOK'
      BY <2>15
      DEF StopCleanup, MainRuns, MainAt, SyscallAt, Statuses, MainTypeOK
    <3>3. LibTypeOK'
      BY <2>15
      DEF StopCleanup, LibTypeOK
    <3> QED
      BY <3>1, <3>2, <3>3
  <2>16. ASSUME NEW t \in Threads, Deliver(t) PROVE TypeOK'
    <3>1. MainTypeOK' /\ LibTypeOK' /\ RingTypeOK'
      BY <2>16, UnchangedTypes DEF Deliver
    <3>2. EventTypeOK'
      BY <2>16
      DEF Deliver, eventVars, EventTypeOK
    <3>3. FrameTypeOK'
      BY <2>16, EventTypeOK
      DEF Deliver, Goto, HandlerAt, EventTypeOK, FrameTypeOK
    <3> QED
      BY <3>1, <3>2, <3>3
  <2>17. ASSUME NEW t \in Threads, HandlerDisable(t) PROVE TypeOK'
    <3>1. MainTypeOK' /\ LibTypeOK' /\ RingTypeOK'
      BY <2>17, UnchangedTypes DEF HandlerDisable
    <3>2. EventTypeOK'
      BY <2>17
      DEF HandlerDisable, IocDisable, IsEvent, EventTypeOK
    <3>3. FrameTypeOK'
      BY <2>17
      DEF HandlerDisable, Goto, HandlerAt, FrameTypeOK
    <3> QED
      BY <3>1, <3>2, <3>3
  <2>18. ASSUME NEW t \in Threads, HandlerLookup(t) PROVE TypeOK'
    <3>1. EventTypeOK' /\ RingTypeOK'
      BY <2>18, UnchangedTypes DEF HandlerLookup
    <3>2. MainTypeOK'
      BY <2>18
      DEF HandlerLookup, Statuses, MainTypeOK
    <3>3. LibTypeOK'
      BY <2>18
      DEF HandlerLookup, Matches, MapOf, LibTypeOK
    <3>4. FrameTypeOK'
      BY <2>18, LibTypeOK
      DEF HandlerLookup, Matches, LibTypeOK, Goto, HandlerAt, FrameTypeOK
    <3> QED
      BY <3>1, <3>2, <3>3, <3>4
  <2>19. ASSUME NEW t \in Threads, HandlerReadHead(t) PROVE TypeOK'
    <3>1. LibTypeOK' /\ EventTypeOK' /\ RingTypeOK'
      BY <2>19, UnchangedTypes DEF HandlerReadHead
    <3>2. MainTypeOK'
      BY <2>19
      DEF HandlerReadHead, Statuses, MainTypeOK
    <3>3. FrameTypeOK'
      BY <2>19, LibTypeOK, RingTypeOK
      DEF HandlerReadHead, LibTypeOK, RingTypeOK, Goto, HandlerAt, FrameTypeOK
    <3> QED
      BY <3>1, <3>2, <3>3
  <2>20. ASSUME NEW t \in Threads, HandlerCopy(t) PROVE TypeOK'
    <3>1. EventTypeOK' /\ RingTypeOK'
      BY <2>20, UnchangedTypes DEF HandlerCopy
    <3>2. MainTypeOK'
      BY <2>20
      DEF HandlerCopy, Statuses, MainTypeOK
    <3>3. LibTypeOK'
      <4>1. Copied(ring[hmap[t]], hprev[t]) \in Area
        BY CopiedType DEF RingTypeOK, FrameTypeOK
      <4> QED
        BY <2>20, <4>1 DEF HandlerCopy, LibTypeOK
    <3>4. FrameTypeOK'
      BY <2>20
      DEF HandlerCopy, Goto, HandlerAt, FrameTypeOK
    <3> QED
      BY <3>1, <3>2, <3>3, <3>4
  <2>21. ASSUME NEW t \in Threads, HandlerParse(t) PROVE TypeOK'
    <3>1. EventTypeOK'
      BY <2>21, UnchangedTypes DEF HandlerParse
    <3>2. MainTypeOK'
      BY <2>21
      DEF HandlerParse, ParseStatus, Statuses, MainTypeOK
    <3>3. LibTypeOK'
      <4> DEFINE size == hhead[t] - hprev[t]
      <4>1. CASE ParseStatus(t) # "running"
        BY <2>21, <4>1 DEF HandlerParse, LibTypeOK
      <4>2. CASE ParseStatus(t) = "running"
        <5>1. size \in Int /\ size <= DataSize
          BY <4>2, ConstantsAssumption DEF ParseStatus, FrameTypeOK
        <5>2. Printed(data, size) \in Seq(Int)
          BY <5>1, PrintedType DEF LibTypeOK
        <5>3. hslot[t] \in Cpu /\ log[hslot[t]] \o Printed(data, size) \in Seq(Int)
          BY <5>2 DEF LibTypeOK, FrameTypeOK
        <5> HIDE DEF size
        <5>4. log' = [log EXCEPT ![hslot[t]] =
                        log[hslot[t]] \o Printed(data, size)]
          BY <2>21, <4>2, <5>3 DEF HandlerParse, LibTypeOK, size
        <5> QED
          BY <2>21, <4>2, <5>3, <5>4, BlankAreaType DEF HandlerParse, LibTypeOK
      <4> QED
        BY <4>1, <4>2
    <3>4. RingTypeOK'
      BY <2>21
      DEF HandlerParse, TailToStore, FrameTypeOK, RingTypeOK
    <3>5. FrameTypeOK'
      BY <2>21
      DEF HandlerParse, Goto, HandlerAt, FrameTypeOK
    <3> QED
      BY <3>1, <3>2, <3>3, <3>4, <3>5
  <2>22. ASSUME NEW t \in Threads, HandlerStore(t) PROVE TypeOK'
    <3>1. EventTypeOK' /\ RingTypeOK'
      BY <2>22, UnchangedTypes DEF HandlerStore
    <3>2. MainTypeOK'
      BY <2>22
      DEF HandlerStore, Statuses, MainTypeOK
    <3>3. LibTypeOK'
      BY <2>22
      DEF HandlerStore, HeadToStore, FrameTypeOK, LibTypeOK
    <3>4. FrameTypeOK'
      BY <2>22
      DEF HandlerStore, Goto, HandlerAt, FrameTypeOK
    <3> QED
      BY <3>1, <3>2, <3>3, <3>4
  <2>23. ASSUME NEW t \in Threads, HandlerRefresh(t) PROVE TypeOK'
    <3>1. MainTypeOK' /\ LibTypeOK' /\ RingTypeOK'
      BY <2>23, UnchangedTypes DEF HandlerRefresh
    <3>2. EventTypeOK'
      BY <2>23
      DEF HandlerRefresh, IocRefresh, RefreshBy, IsEvent, EventTypeOK
    <3>3. FrameTypeOK'
      BY <2>23
      DEF HandlerRefresh, Goto, HandlerAt, FrameTypeOK
    <3> QED
      BY <3>1, <3>2, <3>3
  <2>24. ASSUME NEW t \in Threads, HandlerReturn(t) PROVE TypeOK'
    <3>1. MainTypeOK' /\ LibTypeOK' /\ EventTypeOK' /\ RingTypeOK'
      BY <2>24, UnchangedTypes DEF HandlerReturn
    <3>2. FrameTypeOK'
      BY <2>24, ConstantsAssumption
      DEF HandlerReturn, Goto, HandlerAt, FrameTypeOK
    <3> QED
      BY <3>1, <3>2
  <2>25. ASSUME NEW c \in Cpu, NEW m \in RecSizes, Overflow(c, m)
       PROVE  TypeOK'
    <3>1. MainTypeOK' /\ LibTypeOK' /\ FrameTypeOK'
      BY <2>25, UnchangedTypes DEF Overflow
    <3>2. EventTypeOK'
      <4>1. limit' \in [Cpu -> Nat]
        BY <2>25 DEF Overflow, EventTypeOK
      <4>2. enabled' \in [Cpu -> BOOLEAN]
        BY <2>25 DEF Overflow, EventTypeOK
      <4>3. pending' \in Fd \cup {NoFd}
        BY <2>25 DEF Overflow, Raise, EventTypeOK, LibTypeOK
      <4>4. late' \subseteq Cpu
        BY <2>25 DEF Overflow, LateAfterOverflow, EventTypeOK
      <4> QED
        BY <2>25, <4>1, <4>2, <4>3, <4>4 DEF Overflow, EventTypeOK
    <3>3. RingTypeOK'
      <4>1. m \in Nat /\ Written(ring[c], head[c], m) \in Area
        BY WrittenType, ConstantsAssumption DEF RingTypeOK
      <4> QED
        BY <2>25, <4>1 DEF Overflow, RingTypeOK
    <3> QED
      BY <3>1, <3>2, <3>3
  <2>26. CASE Finished
    BY <2>26, UnchangedTypes DEF Finished, vars
  <2>27. CASE UNCHANGED vars
    BY <2>27, UnchangedTypes DEF vars
  <2> QED
    BY <2>1, <2>2, <2>3, <2>4, <2>5, <2>6, <2>7, <2>8, <2>9, <2>10, <2>11,
       <2>12, <2>13, <2>14, <2>15, <2>16, <2>17, <2>18, <2>19, <2>20, <2>21,
       <2>22, <2>23, <2>24, <2>25, <2>26, <2>27
    DEF Next, InitCall, StartAndStop, Program, Handler
<1> QED
  BY <1>1, <1>2, PTL DEF Spec

----------------------------------------------------------------------------
(* Positions in a ring.                                                    *)

(* A record written within a ring's free space is found at its positions.  *)
LEMMA WrittenNew ==
    ASSUME NEW r \in Area, NEW h \in Nat, NEW n \in Nat, n <= DataSize,
           NEW p \in h .. h + n - 1
    PROVE  Written(r, h, n)[p % DataSize] = p
<1> DEFINE k == p % DataSize
           q == CHOOSE q \in h .. h + n - 1 : q % DataSize = k
<1>1. k \in 0 .. DataSize - 1
  BY ConstantsAssumption, DivMod
<1>2. q \in h .. h + n - 1 /\ q % DataSize = k
  OBVIOUS
<1>3. Written(r, h, n)[k] = q
  BY <1>1, <1>2 DEF Written
<1>4. q = p
  <2>1. q \in Int /\ p \in Int /\ q - p < DataSize /\ p - q < DataSize
    BY <1>2, ConstantsAssumption
  <2> HIDE DEF q
  <2> QED
    BY <1>2, <2>1, CellInjective, ConstantsAssumption
<1> QED
  BY <1>3, <1>4

(* ... and leaves every other word of the last DataSize positions alone.   *)
LEMMA WrittenOld ==
    ASSUME NEW r \in Area, NEW h \in Nat, NEW n \in Nat, NEW p \in Nat,
           p < h, h + n - p <= DataSize
    PROVE  Written(r, h, n)[p % DataSize] = r[p % DataSize]
<1> DEFINE k == p % DataSize
<1>1. k \in 0 .. DataSize - 1
  BY ConstantsAssumption, DivMod
<1>2. ASSUME NEW q \in h .. h + n - 1, q % DataSize = k
      PROVE  FALSE
  <2>1. q \in Int /\ p \in Int /\ q - p < DataSize /\ p - q < DataSize
    BY ConstantsAssumption
  <2>2. q = p
    BY <1>2, <2>1, CellInjective, ConstantsAssumption
  <2> QED
    BY <2>2
<1> QED
  BY <1>1, <1>2 DEF Written

(* The two memcpys put the word of position prev + k at place k of data.   *)
LEMMA CopiedInOrder ==
    ASSUME NEW r \in Area, NEW prev \in Nat, NEW k \in 0 .. DataSize - 1
    PROVE  Copied(r, prev)[k] = r[(prev + k) % DataSize]
<1> DEFINE D == DataSize
           w == prev % D
           a == prev \div D
           u == (prev + k) % D
           b == (prev + k) \div D
<1>1. D \in Nat \ {0}
  BY ConstantsAssumption
<1>2. prev = D * a + w /\ w \in 0 .. D - 1 /\ a \in Int
  BY <1>1, DivMod
<1>3. prev + k = D * b + u /\ u \in 0 .. D - 1 /\ b \in Int
  BY <1>1, DivMod, prev + k \in Int
<1>4. Copied(r, prev)[k] = IF k < D - w THEN r[w + k] ELSE r[k - (D - w)]
  BY DEF Copied
<1> HIDE DEF D, w, a, u, b
<1>5. CASE k < D - w
  <2>1. w + k \in 0 .. D - 1
    BY <1>1, <1>2, <1>5 DEF D
  <2>2. D * a + (w + k) = D * b + u
    <3>1. D * a \in Int /\ D * b \in Int
      BY <1>1, <1>2, <1>3
    <3> QED
      BY <1>1, <1>2, <1>3, <3>1
  <2>3. w + k = u
    BY <1>1, <1>2, <1>3, <2>1, <2>2, RemainderUnique
  <2> QED
    BY <1>4, <1>5, <2>3 DEF u, D
<1>6. CASE ~(k < D - w)
  <2>1. k - (D - w) \in 0 .. D - 1
    BY <1>1, <1>2, <1>6 DEF D
  <2>2. D * (a + 1) + (k - (D - w)) = D * b + u
    <3>1. D * a \in Int /\ D * b \in Int /\ D * (a + 1) = D * a + D
      BY <1>1, <1>2, <1>3
    <3> QED
      BY <1>1, <1>2, <1>3, <3>1
  <2>3. k - (D - w) = u
    BY <1>1, <1>2, <1>3, <2>1, <2>2, RemainderUnique, a + 1 \in Int
  <2> QED
    BY <1>4, <1>6, <2>3 DEF u, D
<1> QED
  BY <1>5, <1>6

----------------------------------------------------------------------------
(* Serial programs: the inductive invariant, one part at a time.           *)

(* The only thread is the main one.                                        *)
LEMMA SerialThread == ASSUME Workers = {} PROVE Threads = {Main}
BY DEF Threads

(* Every step keeps PhaseInv.                                              *)
LEMMA PhaseStep ==
    ASSUME Workers = {}, TypeOK, PhaseInv, [Next]_vars
    PROVE  PhaseInv'
<1>1. CASE SampleInit
  BY <1>1, ConstantsAssumption DEF SampleInit, MainRuns, PhaseInv, BeforeStart,
    TypeOK, MainTypeOK, LibTypeOK, EventTypeOK, FrameTypeOK, mainVars,
    libVars, eventVars, ringVars, frameVars
<1>2. CASE SampleInitReturnsError
  BY <1>2, ConstantsAssumption DEF SampleInitReturnsError, MainRuns, PhaseInv,
    BeforeStart, TypeOK, MainTypeOK, LibTypeOK, EventTypeOK, FrameTypeOK,
    mainVars, libVars, eventVars, ringVars, frameVars
<1>3. CASE StartOnError
  BY <1>3, ConstantsAssumption
  DEF StartOnError, MainRuns, PhaseInv, BeforeStart, TypeOK, MainTypeOK,
      LibTypeOK, EventTypeOK, FrameTypeOK, mainVars, libVars, eventVars,
      ringVars, frameVars
<1>4. CASE SampleInitExits
  BY <1>4, ConstantsAssumption DEF SampleInitExits, MainRuns, PhaseInv,
    BeforeStart, TypeOK, MainTypeOK, LibTypeOK, EventTypeOK, FrameTypeOK,
    mainVars, libVars, eventVars, ringVars, frameVars
<1>5. ASSUME NEW f \in Fd, SampleInitOpen(f) PROVE PhaseInv'
  <2>1. /\ pc = "open" /\ i \in Cpu /\ num_maps >= i /\ num_maps \in Nat
        /\ i' = (IF i + 1 < NUM_PROCS THEN i + 1 ELSE 0)
        /\ pc' = (IF i + 1 < NUM_PROCS THEN "open" ELSE "enable")
        /\ num_maps' = num_maps + 1
        /\ UNCHANGED <<pending, hpc, enabled, heads, log>>
    BY <1>5 DEF SampleInitOpen, Advance, CountMap, PhaseInv, frameVars, TypeOK,
       LibTypeOK
  <2>2. /\ pending = NoFd /\ hpc[Main] = "none" /\ \A c \in Cpu : ~enabled[c]
        /\ \A c \in Cpu : c >= i => heads[c] = 0 /\ log[c] = <<>>
    BY <2>1 DEF PhaseInv, BeforeStart
  <2>3. /\ \A c \in Cpu : c > i => ~mapped'[c]
        /\ \A c \in Cpu : open'[c] => mapped'[c]
    BY <1>5, <2>1 DEF SampleInitOpen, PhaseInv, TypeOK, EventTypeOK
  <2>4. CASE i + 1 < NUM_PROCS
    BY <2>1, <2>2, <2>3, <2>4, ConstantsAssumption DEF PhaseInv, BeforeStart
  <2>5. CASE ~(i + 1 < NUM_PROCS)
    BY <2>1, <2>2, <2>3, <2>5, ConstantsAssumption DEF PhaseInv, BeforeStart
  <2> QED
    BY <2>4, <2>5
<1>6. CASE EnterKernel
  BY <1>6, ConstantsAssumption
  DEF EnterKernel, MainRuns, PhaseInv, BeforeStart, TypeOK, MainTypeOK,
      LibTypeOK, EventTypeOK, FrameTypeOK, mainVars, libVars, eventVars,
      ringVars, frameVars
<1>7. CASE SampleStart
  BY <1>7, ConstantsAssumption DEF SampleStart, InKernelAt, IocEnable, IsEvent,
    Advance, PhaseInv, BeforeStart, TypeOK, MainTypeOK, LibTypeOK,
    EventTypeOK, FrameTypeOK, mainVars, libVars, eventVars, ringVars,
    frameVars
<1>8. CASE EnterMalloc
  BY <1>8, ConstantsAssumption
  DEF EnterMalloc, MainRuns, PhaseInv, BeforeStart, TypeOK, MainTypeOK,
      LibTypeOK, EventTypeOK, FrameTypeOK, mainVars, libVars, eventVars,
      ringVars, frameVars
<1>9. CASE LeaveMalloc
  BY <1>9, ConstantsAssumption
  DEF LeaveMalloc, MainRuns, PhaseInv, BeforeStart, TypeOK, MainTypeOK,
      LibTypeOK, EventTypeOK, FrameTypeOK, mainVars, libVars, eventVars,
      ringVars, frameVars
<1>10. CASE CallStop
  BY <1>10, ConstantsAssumption DEF CallStop, MainRuns, PhaseInv, BeforeStart,
    TypeOK, MainTypeOK, LibTypeOK, EventTypeOK, FrameTypeOK, mainVars,
    libVars, eventVars, ringVars, frameVars
<1>11. CASE StopRefresh
  BY <1>11, ConstantsAssumption
  DEF StopRefresh, InKernelAt, IocRefresh, IsEvent, PhaseInv, BeforeStart,
      TypeOK, MainTypeOK, LibTypeOK, EventTypeOK, FrameTypeOK, mainVars,
      libVars, eventVars, ringVars, frameVars
<1>12. CASE StopDisable
  BY <1>12, ConstantsAssumption
  DEF StopDisable, InKernelAt, IocDisable, IsEvent, Advance, PhaseInv,
      BeforeStart, TypeOK, MainTypeOK, LibTypeOK, EventTypeOK, FrameTypeOK,
      mainVars, libVars, eventVars, ringVars, frameVars
<1>13. CASE StopClose
  <2>1. /\ pc = "close" /\ i \in Cpu
        /\ i' = (IF i + 1 < NUM_PROCS THEN i + 1 ELSE 0)
        /\ pc' = (IF i + 1 < NUM_PROCS THEN "close" ELSE "munmap")
        /\ UNCHANGED <<pending, hpc, enabled, mapped, num_maps>>
    BY <1>13 DEF StopClose, InKernelAt, Advance, PhaseInv, libVars, frameVars
  <2>2. /\ \A c \in Cpu : c <= i => ~open'[c]
        /\ \A c \in Cpu : open'[c] => open[c]
    <3>1. \A c \in Cpu : open'[c] = (open[c] /\ fds[c] # fds[i])
      BY <1>13 DEF StopClose
    <3>2. \A c \in Cpu : c < i => ~open[c]
      BY <2>1 DEF PhaseInv
    <3>3. \A c \in Cpu : c <= i => c < i \/ c = i
      BY <2>1, ConstantsAssumption
    <3> QED
      BY <3>1, <3>2, <3>3, Zenon
  <2>3. num_maps >= NUM_PROCS /\ \A c \in Cpu : open[c] \/ enabled[c] => mapped[c]
    BY <2>1 DEF PhaseInv, BeforeStart
  <2>4. CASE i + 1 < NUM_PROCS
    BY <2>1, <2>2, <2>3, <2>4, ConstantsAssumption DEF PhaseInv, BeforeStart
  <2>5. CASE ~(i + 1 < NUM_PROCS)
    BY <2>1, <2>2, <2>3, <2>5, ConstantsAssumption DEF PhaseInv, BeforeStart
  <2> QED
    BY <2>4, <2>5
<1>14. CASE StopMunmap
  <2>1. /\ pc = "munmap" /\ pc' = "munmap" /\ i' = i + 1
        /\ mapped' = [c \in Cpu |-> mapped[c] /\ c # i]
        /\ enabled' = [c \in Cpu |-> enabled[c] /\ (c # i \/ open[c])]
        /\ UNCHANGED <<open, num_maps>>
    BY <1>14 DEF StopMunmap, InKernelAt, libVars
  <2>2. i \in Nat
    BY DEF TypeOK, MainTypeOK
  <2>3. /\ num_maps >= NUM_PROCS
        /\ \A c \in Cpu : ~open[c]
        /\ \A c \in Cpu : c < i => ~mapped[c]
        /\ \A c \in Cpu : enabled[c] => mapped[c]
    BY <2>1 DEF PhaseInv, BeforeStart
  <2>4. \A c \in Cpu : c < i + 1 => ~mapped'[c]
    <3>1. \A c \in Cpu : c < i + 1 => c < i \/ c = i
      BY <2>2, ConstantsAssumption
    <3>2. \A c \in Cpu : mapped'[c] => mapped[c] /\ c # i
      BY <2>1, Zenon
    <3> QED
      BY <2>3, <3>1, <3>2, Zenon
  <2>5. \A c \in Cpu : enabled'[c] => mapped'[c]
    BY <2>1, <2>3, Zenon
  <2> QED
    BY <2>1, <2>3, <2>4, <2>5 DEF PhaseInv, BeforeStart
<1>15. CASE StopCleanup
  <2>1. /\ pc = "munmap" /\ i >= num_maps /\ pc' = "idle"
        /\ pending = NoFd /\ hpc[Main] = "none"
        /\ UNCHANGED <<pending, hpc, open, mapped, enabled>>
    BY <1>15 DEF StopCleanup, MainRuns, eventVars, frameVars
  <2>2. \A c \in Cpu : c < i
    BY <2>1, ConstantsAssumption DEF PhaseInv, BeforeStart, TypeOK, MainTypeOK,
       LibTypeOK
  <2>3. \A c \in Cpu : ~mapped[c] /\ ~open[c] /\ ~enabled[c]
    BY <2>1, <2>2 DEF PhaseInv
  <2> QED
    BY <2>1, <2>3 DEF PhaseInv, BeforeStart
<1>16. CASE Deliver(Main)
  BY <1>16, ConstantsAssumption, SerialThread DEF Deliver, At, Goto, PhaseInv,
    BeforeStart, TypeOK, MainTypeOK, LibTypeOK, EventTypeOK, FrameTypeOK,
    mainVars, libVars, eventVars, ringVars, frameVars
<1>17. CASE HandlerDisable(Main)
  BY <1>17, ConstantsAssumption, SerialThread DEF HandlerDisable, IocDisable,
    IsEvent, At, Goto, PhaseInv, BeforeStart, TypeOK, MainTypeOK, LibTypeOK,
    EventTypeOK, FrameTypeOK, mainVars, libVars, eventVars, ringVars,
    frameVars
<1>18. CASE HandlerLookup(Main)
  BY <1>18, ConstantsAssumption, SerialThread DEF HandlerLookup, At, Goto,
    PhaseInv, BeforeStart, TypeOK, MainTypeOK, LibTypeOK, EventTypeOK,
    FrameTypeOK, mainVars, libVars, eventVars, ringVars, frameVars
<1>19. CASE HandlerReadHead(Main)
  BY <1>19, ConstantsAssumption, SerialThread DEF HandlerReadHead, At, Goto,
    PhaseInv, BeforeStart, TypeOK, MainTypeOK, LibTypeOK, EventTypeOK,
    FrameTypeOK, mainVars, libVars, eventVars, ringVars, frameVars
<1>20. CASE HandlerCopy(Main)
  BY <1>20, ConstantsAssumption, SerialThread
  DEF HandlerCopy, At, Goto, PhaseInv, BeforeStart, TypeOK, MainTypeOK,
      LibTypeOK, EventTypeOK, FrameTypeOK, mainVars, libVars, eventVars,
      ringVars, frameVars
<1>21. CASE HandlerParse(Main)
  BY <1>21, ConstantsAssumption, SerialThread DEF HandlerParse, At, Goto,
    PhaseInv, BeforeStart, TypeOK, MainTypeOK, LibTypeOK, EventTypeOK,
    FrameTypeOK, mainVars, libVars, eventVars, ringVars, frameVars
<1>22. CASE HandlerStore(Main)
  BY <1>22, ConstantsAssumption, SerialThread DEF HandlerStore, At, Goto,
    PhaseInv, BeforeStart, TypeOK, MainTypeOK, LibTypeOK, EventTypeOK,
    FrameTypeOK, mainVars, libVars, eventVars, ringVars, frameVars
<1>23. CASE HandlerRefresh(Main)
  BY <1>23, ConstantsAssumption, SerialThread DEF HandlerRefresh, IocRefresh,
    IsEvent, At, Goto, PhaseInv, BeforeStart, TypeOK, MainTypeOK, LibTypeOK,
    EventTypeOK, FrameTypeOK, mainVars, libVars, eventVars, ringVars,
    frameVars
<1>24. CASE HandlerReturn(Main)
  BY <1>24, ConstantsAssumption, SerialThread DEF HandlerReturn, At, Goto,
    PhaseInv, BeforeStart, TypeOK, MainTypeOK, LibTypeOK, EventTypeOK,
    FrameTypeOK, mainVars, libVars, eventVars, ringVars, frameVars
<1>25. ASSUME NEW c \in Cpu, NEW m \in RecSizes, Overflow(c, m)
     PROVE  PhaseInv'
  BY <1>25, ConstantsAssumption DEF Overflow, Raise, PhaseInv, BeforeStart,
    TypeOK, MainTypeOK, LibTypeOK, EventTypeOK, FrameTypeOK, mainVars,
    libVars, eventVars, ringVars, frameVars
<1>26. CASE Finished
  BY <1>26
  DEF Finished, vars, PhaseInv, BeforeStart, mainVars, libVars, eventVars,
      ringVars, frameVars
<1>27. CASE UNCHANGED vars
  BY <1>27
  DEF vars, PhaseInv, BeforeStart, mainVars, libVars, eventVars, ringVars,
      frameVars
<1> QED
  BY <1>1, <1>2, <1>3, <1>4, <1>5, <1>6, <1>7, <1>8, <1>9, <1>10, <1>11,
     <1>12, <1>13, <1>14, <1>15, <1>16, <1>17, <1>18, <1>19, <1>20, <1>21,
     <1>22, <1>23, <1>24, <1>25, <1>26, <1>27, SerialThread
  DEF Next, InitCall, StartAndStop, Program, Handler

(* Only three actions touch a ring.                                        *)
LEMMA RingSteps ==
    ASSUME Workers = {}, [Next]_vars
    PROVE  \/ UNCHANGED ringVars
           \/ \E f \in Fd : SampleInitOpen(f)
           \/ HandlerParse(Main)
           \/ \E c \in Cpu, m \in RecSizes : Overflow(c, m)
<1> USE DEF ringVars
<1>1. InitCall => UNCHANGED ringVars \/ \E f \in Fd : SampleInitOpen(f)
  BY DEF InitCall, SampleInit, SampleInitReturnsError, SampleInitExits
<1>2. StartAndStop => UNCHANGED ringVars
  BY DEF StartAndStop, StartOnError, EnterKernel, SampleStart, StopRefresh,
     StopDisable, StopClose, StopMunmap, StopCleanup
<1>3. Program \/ Finished \/ UNCHANGED vars => UNCHANGED ringVars
  BY DEF Program, EnterMalloc, LeaveMalloc, CallStop, Finished, vars
<1>4. Handler(Main) => UNCHANGED ringVars \/ HandlerParse(Main)
  BY DEF Handler, Deliver, HandlerDisable, HandlerLookup, HandlerReadHead,
     HandlerCopy, HandlerStore, HandlerRefresh, HandlerReturn
<1> QED
  BY <1>1, <1>2, <1>3, <1>4, SerialThread DEF Next

(* Every step keeps RingInv: the kernel writes only into free space, and   *)
(* the handler frees only what it has copied.                              *)
LEMMA RingStep ==
    ASSUME Workers = {}, TypeOK, RingInv, FrameInv, [Next]_vars
    PROVE  RingInv'
<1>1. CASE UNCHANGED ringVars
  BY <1>1 DEF RingInv, ringVars
<1>2. ASSUME NEW f \in Fd, SampleInitOpen(f) PROVE RingInv'
  <2> SUFFICES ASSUME NEW d \in Cpu
               PROVE  /\ tail'[d] <= head'[d] /\ head'[d] <= tail'[d] + DataSize
                      /\ head'[d] <= MaxHead
                      /\ \A p \in tail'[d] .. head'[d] - 1 :
                             ring'[d][p % DataSize] = p
    BY DEF RingInv
  <2>1. CASE d = i
    <3>1. tail'[d] = 0 /\ head'[d] = 0
      BY <1>2, <2>1 DEF SampleInitOpen, TypeOK, RingTypeOK
    <3> QED
      BY <3>1, ConstantsAssumption
  <2>2. CASE d # i
    <3>1. tail'[d] = tail[d] /\ head'[d] = head[d] /\ ring'[d] = ring[d]
      BY <1>2, <2>2 DEF SampleInitOpen, TypeOK, RingTypeOK
    <3> QED
      BY <3>1 DEF RingInv
  <2> QED
    BY <2>1, <2>2
<1>3. CASE HandlerParse(Main)
  <2>1. CASE ParseStatus(Main) # "running"
    BY <1>1, <1>3, <2>1 DEF HandlerParse, ringVars
  <2>2. CASE ParseStatus(Main) = "running"
    <3> DEFINE c == hslot[Main]
    <3>1. /\ c \in Cpu /\ hmap[Main] = c /\ hhead[Main] \in Nat
          /\ tail[c] <= hhead[Main] /\ hhead[Main] <= head[c]
      BY <1>3, ConstantsAssumption
      DEF HandlerParse, At, FrameInv, TypeOK, FrameTypeOK, Threads, RingTypeOK
    <3>2. /\ UNCHANGED <<head, ring>>
          /\ tail' = [tail EXCEPT ![c] = hhead[Main]]
      BY <1>3, <2>2, <3>1 DEF HandlerParse, TailToStore
    <3> HIDE DEF c
    <3>3. \A d \in Cpu : /\ tail[d] <= tail'[d] /\ tail'[d] <= head[d]
                         /\ tail'[d] \in Nat
      BY <3>1, <3>2 DEF RingInv, TypeOK, RingTypeOK
    <3>4. \A d \in Cpu : tail[d] \in Nat /\ head[d] \in Nat
      BY DEF TypeOK, RingTypeOK
    <3> QED
      BY <3>2, <3>3, <3>4, ConstantsAssumption DEF RingInv
  <2> QED
    BY <2>1, <2>2
<1>4. ASSUME NEW c \in Cpu, NEW m \in RecSizes, Overflow(c, m) PROVE RingInv'
  <2>1. m \in Nat /\ head[c] \in Nat /\ tail[c] \in Nat /\ ring[c] \in Area
    BY ConstantsAssumption DEF TypeOK, RingTypeOK
  <2>2. CASE ~(head[c] + m - tail[c] <= DataSize)
    BY <1>1, <1>4, <2>2 DEF Overflow, ringVars
  <2>3. CASE head[c] + m - tail[c] <= DataSize
    <3>1. /\ head[c] + m <= MaxHead /\ tail' = tail
          /\ head' = [head EXCEPT ![c] = head[c] + m]
          /\ ring' = [ring EXCEPT ![c] = Written(ring[c], head[c], m)]
      BY <1>4, <2>3 DEF Overflow
    <3> SUFFICES ASSUME NEW d \in Cpu
                 PROVE  /\ tail'[d] <= head'[d]
                        /\ head'[d] <= tail'[d] + DataSize
                        /\ head'[d] <= MaxHead
                        /\ \A p \in tail'[d] .. head'[d] - 1 :
                               ring'[d][p % DataSize] = p
      BY DEF RingInv
    <3>2. CASE d # c
      <4>1. tail'[d] = tail[d] /\ head'[d] = head[d] /\ ring'[d] = ring[d]
        BY <3>1, <3>2 DEF TypeOK, RingTypeOK
      <4> QED
        BY <4>1 DEF RingInv
    <3>3. CASE d = c
      <4>1. /\ tail'[d] = tail[c] /\ head'[d] = head[c] + m
            /\ ring'[d] = Written(ring[c], head[c], m)
        BY <3>1, <3>3 DEF TypeOK, RingTypeOK
      <4>2. tail[c] <= head[c] /\ head[c] <= tail[c] + DataSize
        BY DEF RingInv
      <4>3. ASSUME NEW p \in tail[c] .. head[c] + m - 1
            PROVE  Written(ring[c], head[c], m)[p % DataSize] = p
        <5>1. CASE p < head[c]
          <6>1. ring[c][p % DataSize] = p
            BY <2>1, <5>1 DEF RingInv
          <6>2. p \in Nat /\ head[c] + m - p <= DataSize
            BY <2>1, <2>3, <5>1, ConstantsAssumption
          <6> QED
            BY <2>1, <5>1, <6>1, <6>2, WrittenOld
        <5>2. CASE ~(p < head[c])
          <6>1. p \in head[c] .. head[c] + m - 1 /\ m <= DataSize
            BY <2>1, <2>3, <4>2, <5>2, ConstantsAssumption
          <6> QED
            BY <2>1, <6>1, WrittenNew
        <5> QED
          BY <5>1, <5>2
      <4> QED
        BY <2>1, <2>3, <3>1, <4>1, <4>2, <4>3, ConstantsAssumption
    <3> QED
      BY <3>2, <3>3
  <2> QED
    BY <2>2, <2>3
<1> QED
  BY <1>1, <1>2, <1>3, <1>4, RingSteps

(* The main thread moves only when no handler is on top of it.             *)
LEMMA MainSteps ==
    ASSUME InitCall \/ StartAndStop \/ Program
    PROVE  hpc[Main] = "none" /\ UNCHANGED frameVars
<1>1. CASE InitCall
  BY <1>1 DEF InitCall, SampleInit, SampleInitReturnsError, SampleInitExits,
     SampleInitOpen, MainRuns
<1>2. CASE StartAndStop
  BY <1>2
  DEF StartAndStop, StartOnError, EnterKernel, SampleStart, StopRefresh,
      StopDisable, StopClose, StopMunmap, StopCleanup, MainRuns, InKernelAt
<1>3. CASE Program
  BY <1>3 DEF Program, EnterMalloc, LeaveMalloc, CallStop, MainRuns
<1> QED
  BY <1>1, <1>2, <1>3

(* Every step keeps FrameInv: what the handler has read stays true until   *)
(* it has used it, overflows between its steps included.                   *)
LEMMA FrameStep ==
    ASSUME Workers = {}, TypeOK, RingInv, LogInv, FrameInv, [Next]_vars
    PROVE  FrameInv'
<1> DEFINE c == hslot[Main]
<1>0. /\ Main \in Threads /\ c \in Cpu /\ hpc \in [Threads -> HandlerAt]
      /\ hprev[Main] \in Nat /\ hhead[Main] \in Nat
  BY DEF Threads, TypeOK, FrameTypeOK
<1>1. ASSUME hpc'[Main] \in {"none", "disable", "lookup", "refresh", "return"}
      PROVE  FrameInv'
  BY <1>1 DEF FrameInv
<1>2. CASE InitCall \/ StartAndStop \/ Program
  BY <1>1, <1>2, MainSteps DEF frameVars
<1>3. CASE Deliver(Main)
  BY <1>0, <1>1, <1>3 DEF Deliver, Goto
<1>4. CASE HandlerDisable(Main)
  BY <1>0, <1>1, <1>4 DEF HandlerDisable, Goto
<1>5. CASE HandlerLookup(Main)
  <2>1. CASE fp # "closed" /\ Matches(hfd[Main]) # {}
    <3>1. PICK d \in Matches(hfd[Main]) :
             /\ hslot' = [hslot EXCEPT ![Main] = d]
             /\ hprev' = [hprev EXCEPT ![Main] = heads[d]]
             /\ our_mmap' = d
             /\ hpc' = [hpc EXCEPT ![Main] = "read_head"]
      BY <1>5, <2>1 DEF HandlerLookup, Goto, MapOf
    <3>2. /\ hpc'[Main] = "read_head" /\ hslot'[Main] = d
          /\ hprev'[Main] = heads[d] /\ heads' = heads
      BY <1>0, <1>5, <3>1 DEF HandlerLookup, TypeOK, FrameTypeOK
    <3> QED
      BY <3>1, <3>2 DEF FrameInv
  <2>2. CASE ~(fp # "closed" /\ Matches(hfd[Main]) # {})
    BY <1>1, <1>5, <2>2 DEF HandlerLookup, At
  <2> QED
    BY <2>1, <2>2
<1>6. CASE HandlerReadHead(Main)
  <2>1. hpc[Main] = "read_head" /\ our_mmap = c /\ hprev[Main] = heads[c]
    BY <1>6 DEF HandlerReadHead, At, FrameInv
  <2>2. CASE mapped[our_mmap] /\ fp # "closed"
    <3>1. /\ hpc'[Main] = "copy" /\ hmap'[Main] = c /\ hhead'[Main] = head[c]
          /\ hslot'[Main] = c /\ hprev'[Main] = heads[c]
          /\ mapped'[c] /\ head'[c] = head[c] /\ tail'[c] = tail[c]
      BY <1>0, <1>6, <2>1, <2>2
      DEF HandlerReadHead, Goto, TypeOK, FrameTypeOK, eventVars, ringVars
    <3>2. heads[c] = tail[c]
      BY <1>0, <2>1, <2>2 DEF LogInv
    <3>3. /\ tail[c] <= head[c] /\ head[c] <= tail[c] + DataSize
          /\ tail[c] \in Nat /\ head[c] \in Nat
      BY <1>0 DEF RingInv, TypeOK, RingTypeOK
    <3> HIDE DEF c
    <3> QED
      BY <3>1, <3>2, <3>3, ConstantsAssumption DEF FrameInv
  <2>3. CASE ~(mapped[our_mmap] /\ fp # "closed")
    BY <1>6, <2>3 DEF HandlerReadHead, FrameInv, libVars, eventVars, ringVars
  <2> QED
    BY <2>2, <2>3
<1>7. CASE HandlerCopy(Main)
  <2>1. /\ hpc[Main] = "copy" /\ hmap[Main] = c /\ mapped[c]
        /\ hhead[Main] <= head[c] /\ hprev[Main] = tail[c]
        /\ 0 <= hhead[Main] - hprev[Main]
        /\ hhead[Main] - hprev[Main] <= DataSize
    BY <1>7 DEF HandlerCopy, At, FrameInv
  <2>2. CASE fp # "closed"
    <3>1. /\ hpc'[Main] = "parse" /\ data' = Copied(ring[c], hprev[Main])
          /\ UNCHANGED <<hmap, hslot, hhead, hprev, mapped, head, tail>>
      BY <1>0, <1>7, <2>1, <2>2 DEF HandlerCopy, Goto, eventVars, ringVars
    <3>2. ASSUME NEW k \in 0 .. hhead[Main] - hprev[Main] - 1
          PROVE  Copied(ring[c], hprev[Main])[k] = hprev[Main] + k
      <4>1. /\ k \in 0 .. DataSize - 1 /\ ring[c] \in Area
            /\ tail[c] \in Nat /\ head[c] \in Nat
        BY <1>0, <2>1, ConstantsAssumption DEF TypeOK, RingTypeOK
      <4>2. hprev[Main] + k \in tail[c] .. head[c] - 1
        BY <1>0, <2>1, <4>1
      <4>3. ring[c][(hprev[Main] + k) % DataSize] = hprev[Main] + k
        BY <1>0, <4>2 DEF RingInv
      <4> QED
        BY <1>0, <4>1, <4>3, CopiedInOrder
    <3> HIDE DEF c
    <3> QED
      BY <2>1, <3>1, <3>2 DEF FrameInv, c
  <2>3. CASE fp = "closed"
    BY <1>7, <2>3 DEF HandlerCopy, FrameInv, eventVars, ringVars
  <2> QED
    BY <2>2, <2>3
<1>8. CASE HandlerParse(Main)
  <2>1. /\ hpc[Main] = "parse" /\ hmap[Main] = c /\ mapped[c]
        /\ hhead[Main] <= head[c]
    BY <1>8 DEF HandlerParse, At, FrameInv
  <2>2. CASE ParseStatus(Main) = "running"
    <3>1. /\ hpc'[Main] = "store" /\ tail' = [tail EXCEPT ![c] = hhead[Main]]
          /\ UNCHANGED <<hmap, hslot, hhead, hprev, mapped, head>>
      BY <1>0, <1>8, <2>1, <2>2 DEF HandlerParse, TailToStore, Goto, eventVars
    <3>2. tail'[c] = hhead[Main]
      BY <1>0, <3>1 DEF TypeOK, RingTypeOK
    <3> HIDE DEF c
    <3> QED
      BY <2>1, <3>1, <3>2 DEF FrameInv, c
  <2>3. CASE ParseStatus(Main) # "running"
    BY <1>8, <2>3 DEF HandlerParse, FrameInv, eventVars, ringVars
  <2> QED
    BY <2>2, <2>3
<1>9. CASE HandlerStore(Main)
  <2>1. CASE fp # "closed"
    BY <1>0, <1>1, <1>9, <2>1 DEF HandlerStore, Goto
  <2>2. CASE fp = "closed"
    BY <1>9, <2>2 DEF HandlerStore, FrameInv, eventVars, ringVars
  <2> QED
    BY <2>1, <2>2
<1>10. CASE HandlerRefresh(Main)
  BY <1>0, <1>1, <1>10 DEF HandlerRefresh, Goto
<1>11. CASE HandlerReturn(Main)
  BY <1>0, <1>1, <1>11 DEF HandlerReturn, Goto
<1>12. ASSUME NEW d \in Cpu, NEW m \in RecSizes, Overflow(d, m)
       PROVE  FrameInv'
  <2>1. UNCHANGED <<hpc, hslot, hprev, hmap, hhead, our_mmap, heads, mapped,
                    tail, data>>
    BY <1>12 DEF Overflow, libVars, frameVars
  <2>2. head[c] <= head'[c] /\ head[c] \in Nat /\ head'[c] \in Nat
    <3>1. m \in Nat /\ head \in [Cpu -> Nat]
      BY ConstantsAssumption DEF TypeOK, RingTypeOK
    <3>2. head' = head \/ head' = [head EXCEPT ![d] = head[d] + m]
      BY <1>12 DEF Overflow
    <3> HIDE DEF c
    <3>3. CASE head' = [head EXCEPT ![d] = head[d] + m]
      <4>1. head[d] + m \in Nat /\ head[d] <= head[d] + m
        BY <3>1
      <4> QED
        BY <1>0, <3>1, <3>3, <4>1
    <3>4. CASE head' = head
      BY <1>0, <3>1, <3>4
    <3> QED
      BY <3>2, <3>3, <3>4
  <2>3. hhead[Main] <= head[c] => hhead[Main] <= head'[c]
    BY <1>0, <2>2
  <2> QED
    BY <2>1, <2>3 DEF FrameInv
<1>13. CASE Finished \/ UNCHANGED vars
  BY <1>13
  DEF Finished, FrameInv, vars, libVars, eventVars, ringVars, frameVars
<1> QED
  BY <1>2, <1>3, <1>4, <1>5, <1>6, <1>7, <1>8, <1>9, <1>10, <1>11, <1>12,
     <1>13, SerialThread
  DEF Next, Handler

(* Every step keeps LogInv: only HandlerParse appends to a log, exactly    *)
(* the words it frees, and only HandlerStore moves heads.                  *)
LEMMA LogStep ==
    ASSUME Workers = {}, TypeOK, PhaseInv, LogInv, FrameInv, [Next]_vars
    PROVE  LogInv'
<1> DEFINE c == hslot[Main]
<1>0. /\ Main \in Threads /\ c \in Cpu /\ hpc \in [Threads -> HandlerAt]
      /\ hprev[Main] \in Nat /\ hhead[Main] \in Nat
  BY DEF Threads, TypeOK, FrameTypeOK
<1>1. ASSUME UNCHANGED <<log, tail, heads>>, hpc[Main] # "store",
             \A d \in Cpu : mapped'[d] => mapped[d]
      PROVE  LogInv'
  BY <1>1 DEF LogInv
<1>2. CASE SampleInit
  BY <1>2 DEF SampleInit, PhaseInv, LogInv, eventVars
<1>3. ASSUME NEW f \in Fd, SampleInitOpen(f) PROVE LogInv'
  <2>1. /\ i \in Cpu /\ heads[i] = 0 /\ log[i] = <<>>
        /\ UNCHANGED <<log, heads, hpc, hslot>>
        /\ tail' = [tail EXCEPT ![i] = 0] /\ mapped' = [mapped EXCEPT ![i] = TRUE]
    BY <1>3, ConstantsAssumption DEF SampleInitOpen, PhaseInv, frameVars
  <2>2. tail'[i] = 0 /\ log'[i] = [k \in 1 .. 0 |-> k - 1] /\ heads'[i] = 0
    BY <2>1 DEF TypeOK, RingTypeOK
  <2>3. ASSUME NEW d \in Cpu, d # i
        PROVE  tail'[d] = tail[d] /\ mapped'[d] = mapped[d]
    BY <2>1, <2>3 DEF TypeOK, RingTypeOK, EventTypeOK
  <2> QED
    BY <2>1, <2>2, <2>3 DEF LogInv
<1>4. CASE SampleInitReturnsError \/ SampleInitExits \/ Program
  BY <1>1, <1>4, MainSteps
  DEF InitCall, SampleInitReturnsError, SampleInitExits, Program, EnterMalloc,
      LeaveMalloc, CallStop, libVars, eventVars, ringVars
<1>5. CASE StartAndStop
  <2>1. UNCHANGED <<log, tail, heads>> /\ hpc[Main] = "none"
    BY <1>5, MainSteps
    DEF StartAndStop, StartOnError, EnterKernel, SampleStart, StopRefresh,
        StopDisable, StopClose, StopMunmap, StopCleanup, libVars, ringVars
  <2>2. ASSUME NEW d \in Cpu PROVE mapped'[d] => mapped[d]
    BY <1>5
    DEF StartAndStop, StartOnError, EnterKernel, SampleStart, StopRefresh,
        StopDisable, StopClose, StopMunmap, StopCleanup, eventVars, IocEnable,
        IocRefresh, IocDisable
  <2> QED
    BY <1>1, <2>1, <2>2
<1>6. CASE \/ Deliver(Main) \/ HandlerDisable(Main) \/ HandlerLookup(Main)
           \/ HandlerReadHead(Main) \/ HandlerCopy(Main)
           \/ HandlerRefresh(Main) \/ HandlerReturn(Main)
  <2>1. hpc[Main] # "store"
    BY <1>6 DEF Deliver, HandlerDisable, HandlerLookup, HandlerReadHead,
       HandlerCopy, HandlerRefresh, HandlerReturn, At
  <2>2. UNCHANGED <<log, tail, heads, mapped>>
    BY <1>6 DEF Deliver, HandlerDisable, HandlerLookup, HandlerReadHead,
       HandlerCopy, HandlerRefresh, HandlerReturn, IocDisable, IocRefresh,
       libVars, eventVars, ringVars
  <2> QED
    BY <1>1, <2>1, <2>2
<1>7. CASE HandlerParse(Main)
  <2> DEFINE size == hhead[Main] - hprev[Main]
             words == [k \in 1 .. size |-> hprev[Main] + k - 1]
  <2>1. /\ hpc[Main] = "parse" /\ hmap[Main] = c /\ mapped[c]
        /\ hprev[Main] = tail[c] /\ size \in Nat
        /\ \A k \in 0 .. size - 1 : data[k] = hprev[Main] + k
    BY <1>0, <1>7 DEF HandlerParse, At, FrameInv
  <2>2. CASE ParseStatus(Main) = "running"
    <3>1. /\ hpc' = [hpc EXCEPT ![Main] = "store"]
          /\ tail' = [tail EXCEPT ![c] = hhead[Main]]
          /\ log' = [log EXCEPT ![c] = log[c] \o Printed(data, size)]
          /\ UNCHANGED <<hslot, heads, mapped>>
      BY <1>0, <1>7, <2>1, <2>2
      DEF HandlerParse, TailToStore, Goto, eventVars, TypeOK, LibTypeOK
    <3>2. Printed(data, size) = words
      BY <1>0, <2>1 DEF Printed
    <3>3. tail[c] + size = hhead[Main] /\ tail[c] \in Nat
      BY <1>0, <2>1 DEF TypeOK, RingTypeOK
    <3>4. log[c] = [k \in 1 .. tail[c] |-> k - 1]
      BY <1>0, <2>1 DEF LogInv
    <3>5. words = [k \in 1 .. size |-> tail[c] + k - 1]
      BY <2>1
    <3> HIDE DEF size, words, c
    <3>6. log[c] \o words = [k \in 1 .. tail[c] + size |-> k - 1]
      <4>1. size \in Nat /\ tail[c] \in Nat
        BY <2>1, <3>3
      <4>2. [k \in 1 .. tail[c] |-> k - 1]
              \o [k \in 1 .. size |-> tail[c] + k - 1]
            = [k \in 1 .. tail[c] + size |-> k - 1]
        BY <4>1, FirstWordsConcat, Zenon
      <4> QED
        BY <3>4, <3>5, <4>2, Zenon
    <3>7. /\ tail'[c] = hhead[Main] /\ hpc'[Main] = "store"
          /\ log'[c] = [k \in 1 .. hhead[Main] |-> k - 1]
      BY <1>0, <3>1, <3>2, <3>3, <3>6
      DEF TypeOK, LibTypeOK, RingTypeOK
    <3>8. ASSUME NEW d \in Cpu, d # c
          PROVE  tail'[d] = tail[d] /\ log'[d] = log[d]
      BY <3>1, <3>8 DEF TypeOK, LibTypeOK, RingTypeOK
    <3>9. ASSUME NEW d \in Cpu, mapped'[d]
          PROVE  /\ log'[d] = [k \in 1 .. tail'[d] |-> k - 1]
                 /\ (hpc'[Main] = "store" /\ hslot'[Main] = d) \/ heads'[d] = tail'[d]
      <4>1. CASE d = c
        BY <3>1, <3>7, <4>1 DEF c
      <4>2. CASE d # c
        BY <2>1, <3>1, <3>8, <3>9, <4>2 DEF LogInv
      <4> QED
        BY <4>1, <4>2
    <3> QED
      BY <3>9 DEF LogInv
  <2>3. CASE ParseStatus(Main) # "running"
    BY <1>1, <1>7, <2>1, <2>3 DEF HandlerParse, eventVars
  <2> QED
    BY <2>2, <2>3
<1>8. CASE HandlerStore(Main)
  <2>1. hpc[Main] = "store" /\ mapped[c] /\ tail[c] = hhead[Main]
    BY <1>8 DEF HandlerStore, At, FrameInv
  <2>2. CASE fp # "closed"
    <3>1. /\ heads' = [heads EXCEPT ![c] = hhead[Main]]
          /\ UNCHANGED <<log, tail, mapped>>
      BY <1>8, <2>2 DEF HandlerStore, HeadToStore, eventVars, ringVars
    <3>2. heads'[c] = tail'[c]
      BY <1>0, <2>1, <3>1 DEF TypeOK, LibTypeOK
    <3>3. ASSUME NEW d \in Cpu, d # c PROVE heads'[d] = heads[d]
      BY <3>1, <3>3 DEF TypeOK, LibTypeOK
    <3> QED
      BY <3>1, <3>2, <3>3 DEF LogInv
  <2>3. CASE fp = "closed"
    BY <1>8, <2>3 DEF HandlerStore, LogInv, eventVars, ringVars
  <2> QED
    BY <2>2, <2>3
<1>9. ASSUME NEW d \in Cpu, NEW m \in RecSizes, Overflow(d, m) PROVE LogInv'
  BY <1>9 DEF Overflow, LogInv, libVars, frameVars
<1>10. CASE Finished \/ UNCHANGED vars
  BY <1>10 DEF Finished, LogInv, vars, libVars, eventVars, ringVars, frameVars
<1> QED
  BY <1>2, <1>3, <1>4, <1>5, <1>6, <1>7, <1>8, <1>9, <1>10, SerialThread
  DEF Next, InitCall, Handler


----------------------------------------------------------------------------
(* The theorems about serial programs.                                     *)

(* At the start nothing is mapped, logged or handled.                      *)
LEMMA SerialInit ==
    ASSUME Workers = {}, Init
    PROVE  SerialInv
<1>1. hpc[Main] = "none" /\ pc = "idle" /\ pending = NoFd
  BY DEF Init, Threads
<1>2. ASSUME NEW d \in Cpu
      PROVE  /\ mapped[d] = FALSE /\ open[d] = FALSE /\ enabled[d] = FALSE
  BY DEF Init
<1>3. PhaseInv
  BY <1>1, <1>2 DEF PhaseInv, BeforeStart
<1>4. RingInv
  <2>1. ASSUME NEW d \in Cpu PROVE head[d] = 0 /\ tail[d] = 0
    BY DEF Init
  <2>2. ASSUME NEW d \in Cpu, NEW p \in tail[d] .. head[d] - 1
        PROVE  ring[d][p % DataSize] = p
    BY <2>1, <2>2
  <2>3. ASSUME NEW d \in Cpu
        PROVE  /\ tail[d] <= head[d] /\ head[d] <= tail[d] + DataSize
               /\ head[d] <= MaxHead
    BY <2>1, ConstantsAssumption
  <2> QED
    BY <2>2, <2>3 DEF RingInv
<1>5. LogInv
  BY <1>2 DEF LogInv
<1>6. FrameInv
  BY <1>1 DEF FrameInv
<1> QED
  BY <1>3, <1>4, <1>5, <1>6 DEF SerialInv

(* In a program with one thread the library's copy of every ring, the      *)
(* heads it keeps and the locals of the handler stay consistent with the   *)
(* kernel's ring at every step of PAPI_sample_handler and perf_mmap_read,  *)
(* for every number of CPUs, ring size and mix of record sizes.            *)
THEOREM SerialInvariant ==
    ASSUME Workers = {}
    PROVE  Spec => []SerialInv
<1>1. Init => SerialInv
  BY SerialInit
<1>2. TypeOK /\ TypeOK' /\ SerialInv /\ [Next]_vars => SerialInv'
  BY PhaseStep, RingStep, FrameStep, LogStep DEF SerialInv
<1> QED
  BY <1>1, <1>2, TypeCorrect, PTL DEF Spec

(* What is logged of a ring is every word up to data_tail, once each and   *)
(* in order: no wrap-around or interrupt makes perf_mmap_read print a word *)
(* twice, skip one, or print one from the wrong place.                     *)
THEOREM SerialLogExact ==
    ASSUME Workers = {}
    PROVE  Spec => []LogExact
<1>1. SerialInv => LogExact
  BY DEF SerialInv, LogInv, LogExact
<1> QED
  BY <1>1, SerialInvariant, PTL

----------------------------------------------------------------------------
(* The session implements SampleLog.                                       *)

(* A parse reports to the file the words up to the head it has read.       *)
LEMMA ParseReports ==
    ASSUME Workers = {}, TypeOK, TypeOK', SerialInv, SerialInv',
           HandlerParse(Main)
    PROVE  [Abstract!LogNext]_(Abstract!logVars)
<1> DEFINE c == hslot[Main]
<1>0. c \in Cpu /\ Main \in Threads /\ hhead[Main] \in Nat
  BY DEF TypeOK, FrameTypeOK, Threads
<1>1. /\ hpc[Main] = "parse" /\ hmap[Main] = c /\ mapped[c]
      /\ UNCHANGED <<head, hhead, mapped, hslot>>
  BY DEF HandlerParse, At, SerialInv, FrameInv, eventVars
<1>2. CASE ParseStatus(Main) = "running"
  <2>1. /\ tail' = [tail EXCEPT ![c] = hhead[Main]]
        /\ log' = [log EXCEPT ![c] =
                      log[c] \o Printed(data, hhead[Main] - hprev[Main])]
    BY <1>1, <1>2 DEF HandlerParse, TailToStore
  <2>2. tail'[c] = hhead[Main]
    BY <1>0, <2>1 DEF TypeOK, RingTypeOK
  <2>3. log[c] = [k \in 1 .. tail[c] |-> k - 1]
    BY <1>0, <1>1 DEF SerialInv, LogInv
  <2>4. log'[c] = [k \in 1 .. hhead[Main] |-> k - 1]
    BY <1>0, <1>1, <2>2 DEF SerialInv, LogInv
  <2>5. log' = [log EXCEPT ![c] = log'[c]]
    BY <1>0, <2>1 DEF TypeOK, LibTypeOK
  <2>6. hhead[Main] \in Len(log[c]) .. head[c]
    <3>1. tail[c] \in Nat /\ head[c] \in Nat
      BY <1>0 DEF TypeOK, RingTypeOK
    <3>2. Len(log[c]) = tail[c]
      BY <2>3, <3>1
    <3>3. tail[c] <= hhead[Main] /\ hhead[Main] <= head[c]
      BY <1>0, <1>1, <3>1 DEF SerialInv, FrameInv, TypeOK, FrameTypeOK
    <3> QED
      BY <1>0, <3>1, <3>2, <3>3
  <2>7. log' = [log EXCEPT ![c] = Abstract!FirstWords(hhead[Main])]
    BY <2>4, <2>5 DEF Abstract!FirstWords
  <2>8. Abstract!Report(c)
    BY <1>1, <2>6, <2>7 DEF Abstract!Report
  <2> QED
    BY <1>0, <2>8 DEF Abstract!LogNext
<1>3. CASE ParseStatus(Main) # "running"
  BY <1>1, <1>3 DEF HandlerParse, Abstract!logVars
<1> QED
  BY <1>2, <1>3

(* Every step of the library, the handler and the kernel is a step of the  *)
(* abstract log, or leaves it alone.                                       *)
LEMMA StepsImplementLog ==
    ASSUME Workers = {}, TypeOK, TypeOK', SerialInv, SerialInv', [Next]_vars
    PROVE  [Abstract!LogNext]_(Abstract!logVars)
<1>1. ASSUME UNCHANGED <<head, log>>
      PROVE  [Abstract!LogNext]_(Abstract!logVars)
  BY <1>1 DEF Abstract!logVars
<1>2. CASE SampleInit
  BY <1>2 DEF SampleInit, ringVars, Abstract!LogNext, Abstract!Truncate
<1>3. ASSUME NEW f \in Fd, SampleInitOpen(f)
      PROVE  [Abstract!LogNext]_(Abstract!logVars)
  <2>1. i \in Cpu /\ log[i] = <<>>
    BY <1>3, ConstantsAssumption DEF SampleInitOpen, SerialInv, PhaseInv
  <2>2. Abstract!Attach(i)
    BY <1>3, <2>1 DEF SampleInitOpen, Abstract!Attach
  <2> QED
    BY <2>1, <2>2 DEF Abstract!LogNext
<1>4. CASE SampleInitReturnsError \/ SampleInitExits \/ Program \/ StartAndStop
  BY <1>1, <1>4
  DEF SampleInitReturnsError, SampleInitExits, Program, EnterMalloc,
      LeaveMalloc, CallStop, StartAndStop, StartOnError, EnterKernel,
      SampleStart, StopRefresh, StopDisable, StopClose, StopMunmap,
      StopCleanup, libVars, ringVars
<1>5. CASE \/ Deliver(Main) \/ HandlerDisable(Main) \/ HandlerLookup(Main)
           \/ HandlerReadHead(Main) \/ HandlerCopy(Main) \/ HandlerStore(Main)
           \/ HandlerRefresh(Main) \/ HandlerReturn(Main)
  BY <1>1, <1>5
  DEF Deliver, HandlerDisable, HandlerLookup, HandlerReadHead, HandlerCopy,
      HandlerStore, HandlerRefresh, HandlerReturn, libVars, ringVars
<1>6. CASE HandlerParse(Main)
  BY <1>6, ParseReports
<1>7. ASSUME NEW d \in Cpu, NEW m \in RecSizes, Overflow(d, m)
      PROVE  [Abstract!LogNext]_(Abstract!logVars)
  <2>1. CASE head[d] + m - tail[d] <= DataSize
    <3>1. /\ head' = [head EXCEPT ![d] = head[d] + m]
          /\ head[d] + m <= MaxHead /\ UNCHANGED log
      BY <1>7, <2>1 DEF Overflow, libVars
    <3>2. head[d] + m \in head[d] + 1 .. MaxHead
      BY <3>1, ConstantsAssumption DEF TypeOK, RingTypeOK
    <3>3. Abstract!Accept(d)
      BY <3>1, <3>2 DEF Abstract!Accept
    <3> QED
      BY <3>3 DEF Abstract!LogNext
  <2>2. CASE ~(head[d] + m - tail[d] <= DataSize)
    BY <1>1, <1>7, <2>2 DEF Overflow, libVars
  <2> QED
    BY <2>1, <2>2
<1>8. CASE Finished \/ UNCHANGED vars
  BY <1>1, <1>8 DEF Finished, vars, libVars, ringVars
<1> QED
  BY <1>2, <1>3, <1>4, <1>5, <1>6, <1>7, <1>8, SerialThread
  DEF Next, InitCall, Handler

(* A serial program's session implements the abstract log: the file only   *)
(* ever grows by words the kernel accepted, in order and without gaps, and *)
(* is emptied only by PAPI_sample_init.                                    *)
THEOREM SerialImplementsSampleLog ==
    ASSUME Workers = {}
    PROVE  Spec => ImplementsSampleLog
<1>1. Init => Abstract!LogInit
  BY DEF Init, Abstract!LogInit
<1>2. TypeOK /\ TypeOK' /\ SerialInv /\ SerialInv' /\ [Next]_vars
          => [Abstract!LogNext]_(Abstract!logVars)
  BY StepsImplementLog
<1> QED
  BY <1>1, <1>2, TypeCorrect, SerialInvariant, PTL
  DEF Spec, ImplementsSampleLog, Abstract!LogSpec
=============================================================================
