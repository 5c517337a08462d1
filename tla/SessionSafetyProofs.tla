------------------------- MODULE SessionSafetyProofs -------------------------
(***************************************************************************)
(* More theorems about SampleSession: what bounds the refreshes, what stop *)
(* has stopped, which memory the library touches, what a single CPU's      *)
(* event cannot lose and what a handler may wait for. All but the last are *)
(* about serial programs (Workers = {}); each names the other constants it *)
(* depends on.                                                             *)
(***************************************************************************)
EXTENDS SampleSessionProofs

USE DEF Cpu

----------------------------------------------------------------------------
(* The inductive invariants.                                               *)

(* Descriptors are unique, those of the CPUs that a loop of init has dealt *)
(* with are open until stop closes them, and a signal that is pending or   *)
(* handled is that of one of them.                                         *)
DescriptorInv ==
    /\ \A c, d \in Cpu : fds[c] = fds[d] /\ fds[c] # NoFd => c = d
    /\ pc = "open" =>
           \A c \in Cpu : IF c < i THEN open[c] /\ fds[c] # NoFd
                                   ELSE fds[c] = NoFd
    /\ ~BeforeStart => \A c \in Cpu : fds[c] # NoFd
    /\ pc \in {"enable", "work", "refresh", "disable"} =>
           \A c \in Cpu : open[c]
    /\ pending # NoFd => \E c \in Cpu : fds[c] = pending
    /\ hpc[Main] # "none" =>
           hfd[Main] # NoFd /\ \E c \in Cpu : fds[c] = hfd[Main]

(* The refreshes of event c to come: one for a signal that is pending, one *)
(* for a handler that has not refreshed yet.                               *)
SignalPending(c) == IF pending # NoFd /\ pending = fds[c] THEN 1 ELSE 0
RefreshAhead(c) ==
    IF hpc[Main] \notin {"none", "return"} /\ hfd[Main] = fds[c] THEN 1 ELSE 0

(* The limit and the refreshes to come are never more than two together:   *)
(* an overflow that adds a signal takes one from the limit, unless there   *)
(* was none.                                                               *)
LimitInv ==
    \A c \in Cpu : limit[c] + SignalPending(c) + RefreshAhead(c) <= 2

(* Event c is not enabled and no signal or handler will enable it again.   *)
Settled(c) ==
    ~enabled[c] /\ pending # fds[c] /\ (hpc[Main] # "none" => hfd[Main] # fds[c])

(* The first loop of stop leaves settled every event it has dealt with, if *)
(* no overflow of it landed in its DISABLE: then its signal was not        *)
(* pending there, and one that came before had been handled by then.       *)
StopInv ==
    /\ inkernel => hpc[Main] = "none"
    /\ inkernel /\ pc = "disable" /\ i \notin late => pending # fds[i]
    /\ pc \in {"refresh", "disable"} =>
           \A c \in Cpu \ late : c < i => Settled(c)
    /\ pc \in {"close", "munmap"} => \A c \in Cpu \ late : Settled(c)

(* num_maps counts the CPUs of every session, and so do the loops over it. *)
Opened(n) == n * NUM_PROCS

MemoryInv ==
    /\ MemorySafeUnlessLate
    /\ hpc[Main] = "read_head" => fds[our_mmap] = hfd[Main]
    /\ pc \in {"idle", "start_on_error"} => num_maps = Opened(session)
    /\ pc = "open" => num_maps = Opened(session) + i
    /\ ~BeforeStart => num_maps = Opened(session + 1)
    /\ pc # "idle" => session < MaxSessions
    /\ session <= MaxSessions
    /\ pc \notin {"idle", "start_on_error"} => fp # "closed"
    /\ inkernel /\ pc = "munmap" => i < num_maps

(* With one CPU an event that is not enabled is about to be refreshed.     *)
MonitoredInv ==
    status = "running" /\ pc = "work" =>
        \A c \in Cpu : \/ enabled[c] \/ pending = fds[c]
                       \/ hpc[Main] \notin {"none", "return"}

(* With one CPU every unread word is one that a signal announces, or that  *)
(* the handler will read, or has read and will give back.                  *)
UnreadInv ==
    status = "running" =>
        \A c \in Cpu :
            mapped[c] /\ tail[c] < head[c] =>
                \/ pending = fds[c]
                \/ hpc[Main] \in {"disable", "lookup", "read_head"}
                \/ hpc[Main] \in {"copy", "parse"} /\ hhead[Main] = head[c]

----------------------------------------------------------------------------
(* Descriptors.                                                            *)

(* Every step keeps DescriptorInv.                                         *)
LEMMA DescriptorStep ==
    ASSUME Workers = {}, TypeOK, PhaseInv, DescriptorInv, [Next]_vars
    PROVE  DescriptorInv'
<1>1. CASE SampleInit
  BY <1>1, ConstantsAssumption
  DEF SampleInit, MainRuns, DescriptorInv, PhaseInv, BeforeStart, TypeOK,
     MainTypeOK, LibTypeOK, EventTypeOK, FrameTypeOK, eventVars, ringVars,
     frameVars
<1>2. CASE SampleInitReturnsError
  BY <1>2, ConstantsAssumption
  DEF SampleInitReturnsError, MainRuns, DescriptorInv, PhaseInv,
     BeforeStart, TypeOK, MainTypeOK, LibTypeOK, EventTypeOK, FrameTypeOK,
     libVars, eventVars, ringVars, frameVars
<1>3. CASE StartOnError
  BY <1>3, ConstantsAssumption
  DEF StartOnError, MainRuns, DescriptorInv, PhaseInv, BeforeStart, TypeOK,
     MainTypeOK, LibTypeOK, EventTypeOK, FrameTypeOK, libVars, eventVars,
     ringVars, frameVars
<1>4. CASE SampleInitExits
  BY <1>4, ConstantsAssumption
  DEF SampleInitExits, MainRuns, DescriptorInv, PhaseInv, BeforeStart,
     TypeOK, MainTypeOK, LibTypeOK, EventTypeOK, FrameTypeOK, libVars,
     eventVars, ringVars, frameVars
<1>5. ASSUME NEW f \in Fd, SampleInitOpen(f) PROVE DescriptorInv'
  <2>1. /\ pc = "open" /\ i \in Cpu /\ pending = NoFd /\ hpc[Main] = "none"
        /\ i' = (IF i + 1 < NUM_PROCS THEN i + 1 ELSE 0)
        /\ pc' = (IF i + 1 < NUM_PROCS THEN "open" ELSE "enable")
        /\ UNCHANGED <<pending, hpc>>
    BY <1>5 DEF SampleInitOpen, Advance, PhaseInv, BeforeStart, frameVars
  <2>2. ASSUME NEW c \in Cpu PROVE fds[c] # f
    <3>1. c < i \/ ~(c < i)
      OBVIOUS
    <3>2. IF c < i THEN open[c] /\ fds[c] # NoFd ELSE fds[c] = NoFd
      BY <2>1 DEF DescriptorInv
    <3>3. ~(open[c] /\ fds[c] = f)
      BY <1>5 DEF SampleInitOpen, IsEvent
    <3> QED
      BY <3>1, <3>2, <3>3, ConstantsAssumption
  <2>3. f # NoFd /\ \A c \in Cpu : fds[c] # f
    BY <2>2, ConstantsAssumption
  <2>4. /\ fds' = [fds EXCEPT ![i] = f]
        /\ open' = [open EXCEPT ![i] = TRUE]
    BY <1>5 DEF SampleInitOpen
  <2>5. DOMAIN fds = Cpu /\ DOMAIN open = Cpu
    BY DEF TypeOK, LibTypeOK, EventTypeOK
  <2>6. \A c \in Cpu : open'[c] = IF c = i THEN TRUE ELSE open[c]
    BY <2>4, <2>5, Zenon
  <2>7. \A c \in Cpu : fds'[c] = IF c = i THEN f ELSE fds[c]
    BY <2>4, <2>5, Zenon
  <2>8. \A c \in Cpu : /\ fds'[c] = IF c = i THEN f ELSE fds[c]
                       /\ c = i => open'[c]
                       /\ c # i => (open'[c] <=> open[c])
    BY <2>6, <2>7
  <2>9. \A c, d \in Cpu : fds'[c] = fds'[d] /\ fds'[c] # NoFd => c = d
    BY <2>3, <2>8 DEF DescriptorInv
  <2>10. \A c \in Cpu : c <= i => open'[c] /\ fds'[c] # NoFd
    BY <2>1, <2>3, <2>8, ConstantsAssumption DEF DescriptorInv
  <2>11. \A c \in Cpu : c > i => fds'[c] = NoFd
    BY <2>1, <2>8, ConstantsAssumption DEF DescriptorInv
  <2> QED
    BY <2>1, <2>9, <2>10, <2>11, ConstantsAssumption
    DEF DescriptorInv, BeforeStart
<1>6. CASE EnterKernel
  BY <1>6, ConstantsAssumption
  DEF EnterKernel, MainRuns, SyscallAt, DescriptorInv, PhaseInv,
     BeforeStart, TypeOK, MainTypeOK, LibTypeOK, EventTypeOK, FrameTypeOK,
     libVars, eventVars, ringVars, frameVars
<1>7. CASE SampleStart
  BY <1>7, ConstantsAssumption
  DEF SampleStart, InKernelAt, IocEnable, IsEvent, Advance, DescriptorInv,
     PhaseInv, BeforeStart, TypeOK, MainTypeOK, LibTypeOK, EventTypeOK,
     FrameTypeOK, libVars, ringVars, frameVars
<1>8. CASE EnterMalloc
  BY <1>8, ConstantsAssumption
  DEF EnterMalloc, MainRuns, DescriptorInv, PhaseInv, BeforeStart, TypeOK,
     MainTypeOK, LibTypeOK, EventTypeOK, FrameTypeOK, libVars, eventVars,
     ringVars, frameVars
<1>9. CASE LeaveMalloc
  BY <1>9, ConstantsAssumption
  DEF LeaveMalloc, MainRuns, DescriptorInv, PhaseInv, BeforeStart, TypeOK,
     MainTypeOK, LibTypeOK, EventTypeOK, FrameTypeOK, libVars, eventVars,
     ringVars, frameVars
<1>10. CASE CallStop
  BY <1>10, ConstantsAssumption
  DEF CallStop, MainRuns, DescriptorInv, PhaseInv, BeforeStart, TypeOK,
     MainTypeOK, LibTypeOK, EventTypeOK, FrameTypeOK, libVars, eventVars,
     ringVars, frameVars
<1>11. CASE StopRefresh
  BY <1>11, ConstantsAssumption
  DEF StopRefresh, InKernelAt, IocRefresh, IsEvent, DescriptorInv, PhaseInv,
     BeforeStart, TypeOK, MainTypeOK, LibTypeOK, EventTypeOK, FrameTypeOK,
     libVars, ringVars, frameVars
<1>12. CASE StopDisable
  BY <1>12, ConstantsAssumption
  DEF StopDisable, InKernelAt, IocDisable, IsEvent, Advance, DescriptorInv,
     PhaseInv, BeforeStart, TypeOK, MainTypeOK, LibTypeOK, EventTypeOK,
     FrameTypeOK, libVars, ringVars, frameVars
<1>13. CASE StopClose
  BY <1>13, ConstantsAssumption
  DEF StopClose, InKernelAt, Advance, DescriptorInv, PhaseInv, BeforeStart,
     TypeOK, MainTypeOK, LibTypeOK, EventTypeOK, FrameTypeOK, libVars,
     ringVars, frameVars
<1>14. CASE StopMunmap
  BY <1>14, ConstantsAssumption
  DEF StopMunmap, InKernelAt, DescriptorInv, PhaseInv, BeforeStart, TypeOK,
     MainTypeOK, LibTypeOK, EventTypeOK, FrameTypeOK, libVars, ringVars,
     frameVars
<1>15. CASE StopCleanup
  BY <1>15, ConstantsAssumption
  DEF StopCleanup, MainRuns, DescriptorInv, PhaseInv, BeforeStart, TypeOK,
     MainTypeOK, LibTypeOK, EventTypeOK, FrameTypeOK, eventVars, ringVars,
     frameVars
<1>16. CASE Deliver(Main)
  BY <1>16, ConstantsAssumption
  DEF Deliver, At, Goto, DescriptorInv, PhaseInv, BeforeStart, TypeOK,
     MainTypeOK, LibTypeOK, EventTypeOK, FrameTypeOK, mainVars, libVars,
     eventVars, ringVars
<1>17. CASE HandlerDisable(Main)
  BY <1>17, ConstantsAssumption
  DEF HandlerDisable, At, Goto, IocDisable, IsEvent, DescriptorInv,
     PhaseInv, BeforeStart, TypeOK, MainTypeOK, LibTypeOK, EventTypeOK,
     FrameTypeOK, mainVars, libVars, ringVars
<1>18. CASE HandlerLookup(Main)
  BY <1>18, ConstantsAssumption
  DEF HandlerLookup, At, Goto, DescriptorInv, PhaseInv, BeforeStart, TypeOK,
     MainTypeOK, LibTypeOK, EventTypeOK, FrameTypeOK, eventVars, ringVars
<1>19. CASE HandlerReadHead(Main)
  BY <1>19, ConstantsAssumption
  DEF HandlerReadHead, At, Goto, DescriptorInv, PhaseInv, BeforeStart,
     TypeOK, MainTypeOK, LibTypeOK, EventTypeOK, FrameTypeOK, libVars,
     eventVars, ringVars
<1>20. CASE HandlerCopy(Main)
  BY <1>20, ConstantsAssumption
  DEF HandlerCopy, At, Goto, DescriptorInv, PhaseInv, BeforeStart, TypeOK,
     MainTypeOK, LibTypeOK, EventTypeOK, FrameTypeOK, eventVars, ringVars
<1>21. CASE HandlerParse(Main)
  BY <1>21, ConstantsAssumption
  DEF HandlerParse, At, Goto, DescriptorInv, PhaseInv, BeforeStart, TypeOK,
     MainTypeOK, LibTypeOK, EventTypeOK, FrameTypeOK, eventVars
<1>22. CASE HandlerStore(Main)
  BY <1>22, ConstantsAssumption
  DEF HandlerStore, At, Goto, DescriptorInv, PhaseInv, BeforeStart, TypeOK,
     MainTypeOK, LibTypeOK, EventTypeOK, FrameTypeOK, eventVars, ringVars
<1>23. CASE HandlerRefresh(Main)
  BY <1>23, ConstantsAssumption
  DEF HandlerRefresh, At, Goto, IocRefresh, IsEvent, RefreshBy,
     DescriptorInv, PhaseInv, BeforeStart, TypeOK, MainTypeOK, LibTypeOK,
     EventTypeOK, FrameTypeOK, mainVars, libVars, ringVars
<1>24. CASE HandlerReturn(Main)
  BY <1>24, ConstantsAssumption
  DEF HandlerReturn, At, Goto, DescriptorInv, PhaseInv, BeforeStart, TypeOK,
     MainTypeOK, LibTypeOK, EventTypeOK, FrameTypeOK, mainVars, libVars,
     eventVars, ringVars
<1>25. ASSUME NEW c \in Cpu, NEW m \in RecSizes, Overflow(c, m)
      PROVE  DescriptorInv'
  BY <1>25, ConstantsAssumption
  DEF Overflow, Raise, Counting, DescriptorInv, PhaseInv, BeforeStart,
     TypeOK, MainTypeOK, LibTypeOK, EventTypeOK, FrameTypeOK, mainVars,
     libVars, frameVars
<1>26. CASE Finished
  BY <1>26, ConstantsAssumption
  DEF Finished, vars, DescriptorInv, PhaseInv, BeforeStart, TypeOK,
     MainTypeOK, LibTypeOK, EventTypeOK, FrameTypeOK, mainVars, libVars,
     eventVars, ringVars, frameVars
<1>27. CASE UNCHANGED vars
  BY <1>27, ConstantsAssumption
  DEF vars, DescriptorInv, PhaseInv, BeforeStart, TypeOK, MainTypeOK,
     LibTypeOK, EventTypeOK, FrameTypeOK, mainVars, libVars, eventVars,
     ringVars, frameVars
<1> QED
  BY <1>1, <1>2, <1>3, <1>4, <1>5, <1>6, <1>7, <1>8, <1>9, <1>10, <1>11,
     <1>12, <1>13, <1>14, <1>15, <1>16, <1>17, <1>18, <1>19, <1>20, <1>21,
     <1>22, <1>23, <1>24, <1>25, <1>26, <1>27, SerialThread
  DEF Next, InitCall, StartAndStop, Program, Handler

(* A theorem of its own, for the invariants below rest on it.              *)
THEOREM SerialDescriptors ==
    ASSUME Workers = {}
    PROVE  Spec => []DescriptorInv
<1>1. Init => DescriptorInv
  BY SerialThread DEF Init, DescriptorInv, BeforeStart
<1>2. TypeOK /\ SerialInv /\ DescriptorInv /\ [Next]_vars => DescriptorInv'
  BY DescriptorStep DEF SerialInv
<1> QED
  BY <1>1, <1>2, TypeCorrect, SerialInvariant, PTL DEF Spec

----------------------------------------------------------------------------
(* What bounds the refreshes.                                              *)

(* A step that does not touch limits or signals and neither begins nor     *)
(* ends the part of the handler that is ahead of its refresh.              *)
LEMMA LimitKept ==
    ASSUME LimitInv, UNCHANGED <<limit, pending, fds>>,
           hpc[Main] \in {"none", "return"} <=> hpc'[Main] \in {"none", "return"},
           hpc[Main] \in {"none", "return"} \/ hfd'[Main] = hfd[Main]
    PROVE  LimitInv'
BY DEF LimitInv, SignalPending, RefreshAhead

(* Every step keeps LimitInv.                                              *)
LEMMA LimitStep ==
    ASSUME Workers = {}, TypeOK, PhaseInv, DescriptorInv, LimitInv,
           [Next]_vars
    PROVE  LimitInv'
<1>0. DOMAIN hpc = Threads /\ Main \in Threads
  BY DEF TypeOK, FrameTypeOK, Threads
<1>1. CASE SampleInit
  BY <1>1, ConstantsAssumption
  DEF SampleInit, MainRuns, LimitInv, SignalPending, RefreshAhead, PhaseInv,
     BeforeStart, DescriptorInv, TypeOK, MainTypeOK, LibTypeOK, EventTypeOK,
     FrameTypeOK, eventVars, ringVars, frameVars
<1>2. CASE SampleInitReturnsError
  BY <1>2, ConstantsAssumption
  DEF SampleInitReturnsError, MainRuns, LimitInv, SignalPending,
     RefreshAhead, PhaseInv, BeforeStart, DescriptorInv, TypeOK, MainTypeOK,
     LibTypeOK, EventTypeOK, FrameTypeOK, libVars, eventVars, ringVars,
     frameVars
<1>3. CASE StartOnError
  BY <1>3, ConstantsAssumption
  DEF StartOnError, MainRuns, LimitInv, SignalPending, RefreshAhead,
     PhaseInv, BeforeStart, DescriptorInv, TypeOK, MainTypeOK, LibTypeOK,
     EventTypeOK, FrameTypeOK, libVars, eventVars, ringVars, frameVars
<1>4. CASE SampleInitExits
  BY <1>4, ConstantsAssumption
  DEF SampleInitExits, MainRuns, LimitInv, SignalPending, RefreshAhead,
     PhaseInv, BeforeStart, DescriptorInv, TypeOK, MainTypeOK, LibTypeOK,
     EventTypeOK, FrameTypeOK, libVars, eventVars, ringVars, frameVars
<1>5. ASSUME NEW f \in Fd, SampleInitOpen(f) PROVE LimitInv'
  <2>1. /\ i \in Cpu /\ limit' = [limit EXCEPT ![i] = 0]
        /\ fds' = [fds EXCEPT ![i] = f]
        /\ UNCHANGED <<pending, hpc, hfd>>
        /\ hpc[Main] = "none" /\ pending = NoFd
    BY <1>5 DEF SampleInitOpen, MainRuns, PhaseInv, frameVars
  <2> SUFFICES ASSUME NEW d \in Cpu
               PROVE  limit'[d] + SignalPending(d)' + RefreshAhead(d)' <= 2
    BY DEF LimitInv
  <2>2. SignalPending(d)' = 0 /\ RefreshAhead(d)' = 0
    BY <2>1 DEF SignalPending, RefreshAhead
  <2>3. limit[d] \in Nat /\ limit[d] <= 2 /\ limit'[d] \in {0, limit[d]}
    BY <2>1 DEF LimitInv, SignalPending, RefreshAhead, TypeOK, EventTypeOK
  <2> QED
    BY <2>2, <2>3
<1>6. CASE EnterKernel
  BY <1>6, ConstantsAssumption
  DEF EnterKernel, MainRuns, SyscallAt, LimitInv, SignalPending,
     RefreshAhead, PhaseInv, BeforeStart, DescriptorInv, TypeOK, MainTypeOK,
     LibTypeOK, EventTypeOK, FrameTypeOK, libVars, eventVars, ringVars,
     frameVars
<1>7. CASE SampleStart
  BY <1>7, ConstantsAssumption
  DEF SampleStart, InKernelAt, IocEnable, IsEvent, Advance, LimitInv,
     SignalPending, RefreshAhead, PhaseInv, BeforeStart, DescriptorInv,
     TypeOK, MainTypeOK, LibTypeOK, EventTypeOK, FrameTypeOK, libVars,
     ringVars, frameVars
<1>8. CASE EnterMalloc
  BY <1>8, ConstantsAssumption
  DEF EnterMalloc, MainRuns, LimitInv, SignalPending, RefreshAhead,
     PhaseInv, BeforeStart, DescriptorInv, TypeOK, MainTypeOK, LibTypeOK,
     EventTypeOK, FrameTypeOK, libVars, eventVars, ringVars, frameVars
<1>9. CASE LeaveMalloc
  BY <1>9, ConstantsAssumption
  DEF LeaveMalloc, MainRuns, LimitInv, SignalPending, RefreshAhead,
     PhaseInv, BeforeStart, DescriptorInv, TypeOK, MainTypeOK, LibTypeOK,
     EventTypeOK, FrameTypeOK, libVars, eventVars, ringVars, frameVars
<1>10. CASE CallStop
  BY <1>10, ConstantsAssumption
  DEF CallStop, MainRuns, LimitInv, SignalPending, RefreshAhead, PhaseInv,
     BeforeStart, DescriptorInv, TypeOK, MainTypeOK, LibTypeOK, EventTypeOK,
     FrameTypeOK, libVars, eventVars, ringVars, frameVars
<1>11. CASE StopRefresh
  BY <1>11, ConstantsAssumption
  DEF StopRefresh, InKernelAt, IocRefresh, IsEvent, LimitInv, SignalPending,
     RefreshAhead, PhaseInv, BeforeStart, DescriptorInv, TypeOK, MainTypeOK,
     LibTypeOK, EventTypeOK, FrameTypeOK, libVars, ringVars, frameVars
<1>12. CASE StopDisable
  BY <1>12, ConstantsAssumption
  DEF StopDisable, InKernelAt, IocDisable, IsEvent, Advance, LimitInv,
     SignalPending, RefreshAhead, PhaseInv, BeforeStart, DescriptorInv,
     TypeOK, MainTypeOK, LibTypeOK, EventTypeOK, FrameTypeOK, libVars,
     ringVars, frameVars
<1>13. CASE StopClose
  BY <1>13, ConstantsAssumption
  DEF StopClose, InKernelAt, Advance, LimitInv, SignalPending, RefreshAhead,
     PhaseInv, BeforeStart, DescriptorInv, TypeOK, MainTypeOK, LibTypeOK,
     EventTypeOK, FrameTypeOK, libVars, ringVars, frameVars
<1>14. CASE StopMunmap
  BY <1>14, ConstantsAssumption
  DEF StopMunmap, InKernelAt, LimitInv, SignalPending, RefreshAhead,
     PhaseInv, BeforeStart, DescriptorInv, TypeOK, MainTypeOK, LibTypeOK,
     EventTypeOK, FrameTypeOK, libVars, ringVars, frameVars
<1>15. CASE StopCleanup
  BY <1>15, ConstantsAssumption
  DEF StopCleanup, MainRuns, LimitInv, SignalPending, RefreshAhead,
     PhaseInv, BeforeStart, DescriptorInv, TypeOK, MainTypeOK, LibTypeOK,
     EventTypeOK, FrameTypeOK, eventVars, ringVars, frameVars
<1>16. CASE Deliver(Main)
  <2>1. /\ UNCHANGED <<limit, fds>> /\ pending # NoFd /\ pending' = NoFd
        /\ hpc[Main] = "none" /\ hpc'[Main] = "disable" /\ hfd'[Main] = pending
    BY <1>16, <1>0
    DEF Deliver, At, Goto, libVars, eventVars, TypeOK, FrameTypeOK
  <2> SUFFICES ASSUME NEW d \in Cpu
               PROVE  limit'[d] + SignalPending(d)' + RefreshAhead(d)' <= 2
    BY DEF LimitInv
  <2>2. limit[d] \in Nat /\ limit[d] + SignalPending(d) + RefreshAhead(d) <= 2
    BY DEF LimitInv, TypeOK, EventTypeOK
  <2>3. SignalPending(d)' = 0 /\ RefreshAhead(d) = 0
    BY <2>1 DEF SignalPending, RefreshAhead
  <2>4. RefreshAhead(d)' = SignalPending(d) /\ SignalPending(d) \in {0, 1}
    BY <2>1 DEF SignalPending, RefreshAhead
  <2> QED
    BY <2>1, <2>2, <2>3, <2>4
<1>17. CASE HandlerDisable(Main)
  <2>1. /\ UNCHANGED <<limit, pending, fds, hfd>>
        /\ hpc[Main] = "disable"
        /\ hpc' = hpc \/ hpc' = [hpc EXCEPT ![Main] = "lookup"]
    BY <1>17 DEF HandlerDisable, At, Goto, IocDisable, libVars
  <2> QED
    BY <2>1, <1>0, LimitKept
<1>18. CASE HandlerLookup(Main)
  <2>1. /\ UNCHANGED <<limit, pending, fds, hfd>>
        /\ hpc[Main] = "lookup"
        /\ hpc' = hpc \/ hpc' = [hpc EXCEPT ![Main] = "read_head"]
    BY <1>18 DEF HandlerLookup, At, Goto, eventVars
  <2> QED
    BY <2>1, <1>0, LimitKept
<1>19. CASE HandlerReadHead(Main)
  <2>1. /\ UNCHANGED <<limit, pending, fds, hfd>>
        /\ hpc[Main] = "read_head"
        /\ hpc' = hpc \/ hpc' = [hpc EXCEPT ![Main] = "copy"]
    BY <1>19 DEF HandlerReadHead, At, Goto, libVars, eventVars
  <2> QED
    BY <2>1, <1>0, LimitKept
<1>20. CASE HandlerCopy(Main)
  <2>1. /\ UNCHANGED <<limit, pending, fds, hfd>>
        /\ hpc[Main] = "copy"
        /\ hpc' = hpc \/ hpc' = [hpc EXCEPT ![Main] = "parse"]
    BY <1>20 DEF HandlerCopy, At, Goto, eventVars
  <2> QED
    BY <2>1, <1>0, LimitKept
<1>21. CASE HandlerParse(Main)
  <2>1. /\ UNCHANGED <<limit, pending, fds, hfd>>
        /\ hpc[Main] = "parse"
        /\ hpc' = hpc \/ hpc' = [hpc EXCEPT ![Main] = "store"]
    BY <1>21 DEF HandlerParse, At, Goto, eventVars
  <2> QED
    BY <2>1, <1>0, LimitKept
<1>22. CASE HandlerStore(Main)
  <2>1. /\ UNCHANGED <<limit, pending, fds, hfd>>
        /\ hpc[Main] = "store"
        /\ hpc' = hpc \/ hpc' = [hpc EXCEPT ![Main] = "refresh"]
    BY <1>22 DEF HandlerStore, At, Goto, eventVars
  <2> QED
    BY <2>1, <1>0, LimitKept
<1>23. CASE HandlerRefresh(Main)
  <2>1. /\ limit' = [c \in Cpu |-> IF IsEvent(hfd[Main], c) THEN limit[c] + 1
                                                            ELSE limit[c]]
        /\ UNCHANGED <<pending, fds, hfd>>
        /\ hpc[Main] = "refresh" /\ hpc'[Main] = "return"
    BY <1>23, <1>0
    DEF HandlerRefresh, At, Goto, IocRefresh, RefreshBy, libVars
  <2> SUFFICES ASSUME NEW d \in Cpu
               PROVE  limit'[d] + SignalPending(d)' + RefreshAhead(d)' <= 2
    BY DEF LimitInv
  <2>2. limit[d] \in Nat /\ limit[d] + SignalPending(d) + RefreshAhead(d) <= 2
    BY DEF LimitInv, TypeOK, EventTypeOK
  <2>3. SignalPending(d)' = SignalPending(d) /\ SignalPending(d) \in {0, 1}
    BY <2>1 DEF SignalPending
  <2>4. RefreshAhead(d)' = 0
    BY <2>1 DEF RefreshAhead
  <2>5. RefreshAhead(d) = IF hfd[Main] = fds[d] THEN 1 ELSE 0
    BY <2>1 DEF RefreshAhead
  <2>6. \/ limit'[d] = limit[d]
        \/ limit'[d] = limit[d] + 1 /\ hfd[Main] = fds[d]
    <3>1. limit'[d] = IF IsEvent(hfd[Main], d) THEN limit[d] + 1 ELSE limit[d]
      BY <2>1
    <3>2. IsEvent(hfd[Main], d) => hfd[Main] = fds[d]
      BY DEF IsEvent
    <3>3. CASE IsEvent(hfd[Main], d)
      BY <3>1, <3>2, <3>3, Zenon
    <3>4. CASE ~IsEvent(hfd[Main], d)
      BY <3>1, <3>4, SMT
    <3> QED
      BY <3>3, <3>4
  <2>7. limit'[d] + RefreshAhead(d)' <= limit[d] + RefreshAhead(d)
    BY <2>2, <2>4, <2>5, <2>6
  <2>8. RefreshAhead(d) \in Int /\ RefreshAhead(d)' \in Int /\ limit'[d] \in Int
    BY <2>2, <2>4, <2>5, <2>6
  <2> QED
    BY <2>2, <2>3, <2>7, <2>8
<1>24. CASE HandlerReturn(Main)
  <2>1. /\ UNCHANGED <<limit, pending, fds>>
        /\ hpc[Main] = "return"
        /\ hpc' = [hpc EXCEPT ![Main] = "none"]
    BY <1>24 DEF HandlerReturn, At, Goto, libVars, eventVars
  <2> QED
    BY <2>1, <1>0, LimitKept
<1>25. ASSUME NEW c \in Cpu, NEW m \in RecSizes, Overflow(c, m)
      PROVE  LimitInv'
  <2>1. /\ limit' = [limit EXCEPT ![c] = IF @ > 0 THEN @ - 1 ELSE 0]
        /\ pending' = (IF pending = NoFd THEN fds[c] ELSE pending)
        /\ UNCHANGED <<fds, hpc, hfd>>
        /\ hpc[Main] # "none" \/ pending = NoFd
        /\ fds[c] # NoFd
    BY <1>25
    DEF Overflow, Raise, Counting, libVars, frameVars, DescriptorInv, PhaseInv
  <2> SUFFICES ASSUME NEW d \in Cpu
               PROVE  limit'[d] + SignalPending(d)' + RefreshAhead(d)' <= 2
    BY DEF LimitInv
  <2>2. limit[d] \in Nat /\ limit[d] + SignalPending(d) + RefreshAhead(d) <= 2
    BY DEF LimitInv, TypeOK, EventTypeOK
  <2>3. RefreshAhead(d)' = RefreshAhead(d)
    BY <2>1 DEF RefreshAhead
  <2>4. CASE d # c
    BY <2>1, <2>2, <2>3, <2>4
    DEF SignalPending, RefreshAhead, TypeOK, EventTypeOK, DescriptorInv
  <2>5. CASE d = c
    BY <2>1, <2>2, <2>3, <2>5
    DEF SignalPending, RefreshAhead, TypeOK, EventTypeOK
  <2> QED
    BY <2>4, <2>5
<1>26. CASE Finished
  BY <1>26, ConstantsAssumption
  DEF Finished, vars, LimitInv, SignalPending, RefreshAhead, PhaseInv,
     BeforeStart, DescriptorInv, TypeOK, MainTypeOK, LibTypeOK, EventTypeOK,
     FrameTypeOK, mainVars, libVars, eventVars, ringVars, frameVars
<1>27. CASE UNCHANGED vars
  BY <1>27, ConstantsAssumption
  DEF vars, LimitInv, SignalPending, RefreshAhead, PhaseInv, BeforeStart,
     DescriptorInv, TypeOK, MainTypeOK, LibTypeOK, EventTypeOK, FrameTypeOK,
     mainVars, libVars, eventVars, ringVars, frameVars
<1> QED
  BY <1>1, <1>2, <1>3, <1>4, <1>5, <1>6, <1>7, <1>8, <1>9, <1>10, <1>11,
     <1>12, <1>13, <1>14, <1>15, <1>16, <1>17, <1>18, <1>19, <1>20, <1>21,
     <1>22, <1>23, <1>24, <1>25, <1>26, <1>27, SerialThread
  DEF Next, InitCall, StartAndStop, Program, Handler

(* The handlers' refreshes do not pile up: between them the refreshes that *)
(* are in the limit and the one a signal will bring make at most two.      *)
THEOREM SerialLimitBounded ==
    ASSUME Workers = {}
    PROVE  Spec => []LimitBounded
<1>1. Init => LimitInv
  BY SerialThread DEF Init, LimitInv, SignalPending, RefreshAhead
<1>2. /\ TypeOK /\ SerialInv /\ DescriptorInv /\ LimitInv /\ [Next]_vars
      => LimitInv'
  BY LimitStep DEF SerialInv
<1>3. ASSUME TypeOK, LimitInv, NEW c \in Cpu
      PROVE  limit[c] <= 2
  BY <1>3 DEF LimitInv, SignalPending, RefreshAhead, TypeOK, EventTypeOK
<1>4. TypeOK /\ LimitInv => LimitBounded
  BY <1>3 DEF LimitBounded
<1> QED
  BY <1>1, <1>2, <1>4, TypeCorrect, SerialInvariant, SerialDescriptors, PTL
  DEF Spec

----------------------------------------------------------------------------
(* What stop has stopped.                                                  *)

(* Every step keeps StopInv.                                               *)
LEMMA StopStep ==
    ASSUME Workers = {}, TypeOK, PhaseInv, DescriptorInv, StopInv, [Next]_vars
    PROVE  StopInv'
<1>1. CASE SampleInit
  BY <1>1, ConstantsAssumption
  DEF SampleInit, MainRuns, StopInv, Settled, PhaseInv,
     BeforeStart, DescriptorInv, TypeOK, MainTypeOK, LibTypeOK, EventTypeOK,
     FrameTypeOK, eventVars, ringVars, frameVars
<1>2. CASE SampleInitReturnsError
  BY <1>2, ConstantsAssumption
  DEF SampleInitReturnsError, MainRuns, StopInv, Settled, PhaseInv,
      BeforeStart, DescriptorInv, TypeOK, MainTypeOK, LibTypeOK, EventTypeOK,
      FrameTypeOK, libVars, eventVars, ringVars, frameVars
<1>3. CASE StartOnError
  BY <1>3, ConstantsAssumption
  DEF StartOnError, MainRuns, StopInv, Settled, PhaseInv,
     BeforeStart, DescriptorInv, TypeOK, MainTypeOK, LibTypeOK, EventTypeOK,
     FrameTypeOK, libVars, eventVars, ringVars, frameVars
<1>4. CASE SampleInitExits
  BY <1>4, ConstantsAssumption
  DEF SampleInitExits, MainRuns, StopInv, Settled, PhaseInv,
     BeforeStart, DescriptorInv, TypeOK, MainTypeOK, LibTypeOK, EventTypeOK,
     FrameTypeOK, libVars, eventVars, ringVars, frameVars
<1>5. ASSUME NEW f \in Fd, SampleInitOpen(f) PROVE StopInv'
  BY <1>5, ConstantsAssumption
  DEF SampleInitOpen, MainRuns, IsEvent, Advance, CountMap, StopInv,
     Settled, PhaseInv, BeforeStart, DescriptorInv, TypeOK,
     MainTypeOK, LibTypeOK, EventTypeOK, FrameTypeOK, frameVars
<1>6. CASE EnterKernel
  BY <1>6, ConstantsAssumption
  DEF EnterKernel, MainRuns, SyscallAt, StopInv, Settled, PhaseInv,
      BeforeStart, DescriptorInv, TypeOK, MainTypeOK, LibTypeOK, EventTypeOK,
      FrameTypeOK, libVars, eventVars, ringVars, frameVars
<1>7. CASE SampleStart
  BY <1>7, ConstantsAssumption
  DEF SampleStart, InKernelAt, IocEnable, IsEvent, Advance, StopInv,
     Settled, PhaseInv, BeforeStart, DescriptorInv, TypeOK,
     MainTypeOK, LibTypeOK, EventTypeOK, FrameTypeOK, libVars, ringVars,
     frameVars
<1>8. CASE EnterMalloc
  BY <1>8, ConstantsAssumption
  DEF EnterMalloc, MainRuns, StopInv, Settled, PhaseInv,
     BeforeStart, DescriptorInv, TypeOK, MainTypeOK, LibTypeOK, EventTypeOK,
     FrameTypeOK, libVars, eventVars, ringVars, frameVars
<1>9. CASE LeaveMalloc
  BY <1>9, ConstantsAssumption
  DEF LeaveMalloc, MainRuns, StopInv, Settled, PhaseInv,
     BeforeStart, DescriptorInv, TypeOK, MainTypeOK, LibTypeOK, EventTypeOK,
     FrameTypeOK, libVars, eventVars, ringVars, frameVars
<1>10. CASE CallStop
  BY <1>10, ConstantsAssumption
  DEF CallStop, MainRuns, StopInv, Settled, PhaseInv,
     BeforeStart, DescriptorInv, TypeOK, MainTypeOK, LibTypeOK, EventTypeOK,
     FrameTypeOK, libVars, eventVars, ringVars, frameVars
<1>11. CASE StopRefresh
  BY <1>11, ConstantsAssumption
  DEF StopRefresh, InKernelAt, IocRefresh, IsEvent, StopInv, Settled,
     PhaseInv, BeforeStart, DescriptorInv, TypeOK, MainTypeOK,
     LibTypeOK, EventTypeOK, FrameTypeOK, libVars, ringVars, frameVars
<1>12. CASE StopDisable
  <2>1. /\ pc = "disable" /\ i \in Cpu /\ inkernel /\ ~inkernel'
        /\ hpc[Main] = "none"
        /\ enabled' = [c \in Cpu |-> enabled[c] /\ ~IsEvent(fds[i], c)]
        /\ i' = (IF i + 1 < NUM_PROCS THEN i + 1 ELSE 0)
        /\ pc' = (IF i + 1 < NUM_PROCS THEN "refresh" ELSE "close")
        /\ UNCHANGED <<pending, late, fds, hpc>>
    BY <1>12
    DEF StopDisable, InKernelAt, IocDisable, Advance, PhaseInv, libVars,
       frameVars
  <2>2. IsEvent(fds[i], i)
    BY <2>1 DEF DescriptorInv, IsEvent
  <2>3. \A c \in Cpu : ~enabled[c] \/ c = i => ~enabled'[c]
    BY <2>1, <2>2, Zenon
  <2>4. \A c \in Cpu \ late : c < i => ~enabled[c] /\ pending # fds[c]
    BY <2>1 DEF StopInv, Settled
  <2>5. i \notin late => pending # fds[i]
    BY <2>1 DEF StopInv
  <2>6. \A c \in Cpu \ late : c <= i => ~enabled'[c] /\ pending # fds[c]
    <3>1. \A c \in Cpu : c <= i => c < i \/ c = i
      BY <2>1, ConstantsAssumption
    <3> QED
      BY <2>3, <2>4, <2>5, <3>1, Zenon
  <2>7. \A c \in Cpu \ late : c <= i => Settled(c)'
    BY <2>1, <2>6 DEF Settled
  <2> QED
    BY <2>1, <2>7, ConstantsAssumption DEF StopInv
<1>13. CASE StopClose
  BY <1>13, ConstantsAssumption
  DEF StopClose, InKernelAt, Advance, StopInv, Settled, PhaseInv, BeforeStart,
      DescriptorInv, TypeOK, MainTypeOK, LibTypeOK, EventTypeOK, FrameTypeOK,
      libVars, ringVars, frameVars
<1>14. CASE StopMunmap
  BY <1>14, ConstantsAssumption
  DEF StopMunmap, InKernelAt, StopInv, Settled, PhaseInv,
     BeforeStart, DescriptorInv, TypeOK, MainTypeOK, LibTypeOK, EventTypeOK,
     FrameTypeOK, libVars, ringVars, frameVars
<1>15. CASE StopCleanup
  BY <1>15, ConstantsAssumption
  DEF StopCleanup, MainRuns, StopInv, Settled, PhaseInv,
     BeforeStart, DescriptorInv, TypeOK, MainTypeOK, LibTypeOK, EventTypeOK,
     FrameTypeOK, eventVars, ringVars, frameVars
<1>16. CASE Deliver(Main)
  <2>1. /\ UNCHANGED <<pc, i, inkernel, fds, enabled, late>> /\ ~inkernel
        /\ pending' = NoFd /\ hpc[Main] = "none" /\ hfd'[Main] = pending
    BY <1>16
    DEF Deliver, At, mainVars, libVars, eventVars, TypeOK, FrameTypeOK, Threads
  <2>2. pc \in {"refresh", "disable", "close", "munmap"} =>
            \A c \in Cpu : fds[c] # NoFd
    BY DEF DescriptorInv, BeforeStart
  <2>3. pc \in {"refresh", "disable", "close", "munmap"} =>
            \A c \in Cpu : Settled(c) => Settled(c)'
    BY <2>1, <2>2 DEF Settled
  <2> QED
    BY <2>1, <2>3 DEF StopInv
<1>17. CASE HandlerDisable(Main)
  BY <1>17, ConstantsAssumption
  DEF HandlerDisable, At, Goto, IocDisable, IsEvent, StopInv, Settled,
     PhaseInv, BeforeStart, DescriptorInv, TypeOK, MainTypeOK,
     LibTypeOK, EventTypeOK, FrameTypeOK, mainVars, libVars, ringVars
<1>18. CASE HandlerLookup(Main)
  BY <1>18, ConstantsAssumption
  DEF HandlerLookup, At, Goto, StopInv, Settled, PhaseInv,
     BeforeStart, DescriptorInv, TypeOK, MainTypeOK, LibTypeOK, EventTypeOK,
     FrameTypeOK, eventVars, ringVars
<1>19. CASE HandlerReadHead(Main)
  BY <1>19, ConstantsAssumption
  DEF HandlerReadHead, At, Goto, StopInv, Settled, PhaseInv,
     BeforeStart, DescriptorInv, TypeOK, MainTypeOK, LibTypeOK, EventTypeOK,
     FrameTypeOK, libVars, eventVars, ringVars
<1>20. CASE HandlerCopy(Main)
  BY <1>20, ConstantsAssumption
  DEF HandlerCopy, At, Goto, StopInv, Settled, PhaseInv,
     BeforeStart, DescriptorInv, TypeOK, MainTypeOK, LibTypeOK, EventTypeOK,
     FrameTypeOK, eventVars, ringVars
<1>21. CASE HandlerParse(Main)
  BY <1>21, ConstantsAssumption
  DEF HandlerParse, At, Goto, StopInv, Settled, PhaseInv,
     BeforeStart, DescriptorInv, TypeOK, MainTypeOK, LibTypeOK, EventTypeOK,
     FrameTypeOK, eventVars
<1>22. CASE HandlerStore(Main)
  BY <1>22, ConstantsAssumption
  DEF HandlerStore, At, Goto, StopInv, Settled, PhaseInv,
     BeforeStart, DescriptorInv, TypeOK, MainTypeOK, LibTypeOK, EventTypeOK,
     FrameTypeOK, eventVars, ringVars
<1>23. CASE HandlerRefresh(Main)
  BY <1>23, ConstantsAssumption
  DEF HandlerRefresh, At, Goto, IocRefresh, IsEvent, RefreshBy, StopInv,
     Settled, PhaseInv, BeforeStart, DescriptorInv, TypeOK,
     MainTypeOK, LibTypeOK, EventTypeOK, FrameTypeOK, mainVars, libVars,
     ringVars
<1>24. CASE HandlerReturn(Main)
  <2>1. /\ UNCHANGED <<pc, i, inkernel, fds, enabled, pending, late>>
        /\ hpc'[Main] = "none"
    BY <1>24
    DEF HandlerReturn, At, Goto, mainVars, libVars, eventVars, TypeOK,
       FrameTypeOK, Threads
  <2>2. \A c \in Cpu : Settled(c) => Settled(c)'
    BY <2>1 DEF Settled
  <2> QED
    BY <2>1, <2>2 DEF StopInv
<1>25. ASSUME NEW c \in Cpu, NEW m \in RecSizes, Overflow(c, m)
      PROVE  StopInv'
  <2>1. /\ UNCHANGED <<pc, i, inkernel, fds, hpc, hfd>> /\ enabled[c]
        /\ late' = (IF inkernel /\ pc = "disable" /\ i = c THEN late \cup {c}
                                                         ELSE late)
        /\ pending' = (IF pending = NoFd THEN fds[c] ELSE pending)
    BY <1>25
    DEF Overflow, LateAfterOverflow, Raise, mainVars, libVars, frameVars
  <2>2. \A d \in Cpu : d # c => enabled'[d] = enabled[d]
    BY <1>25 DEF Overflow, TypeOK, EventTypeOK
  <2>3. \A d \in Cpu : d # c /\ fds[c] # NoFd => fds[d] # fds[c]
    BY DEF DescriptorInv
  <2>4. fds[c] # NoFd
    BY <2>1 DEF DescriptorInv, PhaseInv
  <2>5. \A d \in Cpu : Settled(d) => d # c /\ Settled(d)'
    BY <2>1, <2>2, <2>3, <2>4 DEF Settled
  <2>6. \A d : d \notin late' => d \notin late
    BY <2>1
  <2>7. inkernel /\ pc = "disable" /\ i \notin late' => pending' # fds[i]
    <3>1. SUFFICES ASSUME inkernel, pc = "disable", i \notin late'
                   PROVE  pending' # fds[i]
      OBVIOUS
    <3>2. i \in Cpu /\ i # c /\ pending # fds[i]
      BY <2>1, <3>1 DEF StopInv, PhaseInv
    <3> QED
      BY <2>1, <2>3, <2>4, <3>2
  <2> QED
    BY <2>1, <2>5, <2>6, <2>7 DEF StopInv
<1>26. CASE Finished
  BY <1>26, ConstantsAssumption
  DEF Finished, vars, StopInv, Settled, PhaseInv, BeforeStart,
     DescriptorInv, TypeOK, MainTypeOK, LibTypeOK, EventTypeOK, FrameTypeOK,
     mainVars, libVars, eventVars, ringVars, frameVars
<1>27. CASE UNCHANGED vars
  BY <1>27, ConstantsAssumption
  DEF vars, StopInv, Settled, PhaseInv, BeforeStart,
     DescriptorInv, TypeOK, MainTypeOK, LibTypeOK, EventTypeOK, FrameTypeOK,
     mainVars, libVars, eventVars, ringVars, frameVars
<1> QED
  BY <1>1, <1>2, <1>3, <1>4, <1>5, <1>6, <1>7, <1>8, <1>9, <1>10, <1>11,
     <1>12, <1>13, <1>14, <1>15, <1>16, <1>17, <1>18, <1>19, <1>20, <1>21,
     <1>22, <1>23, <1>24, <1>25, <1>26, <1>27, SerialThread
  DEF Next, InitCall, StartAndStop, Program, Handler

(* Every event that stop disables stays disabled, unless its overflow was  *)
(* reported inside the very ioctl that disabled it.                        *)
THEOREM SerialStoppedUnlessLate ==
    ASSUME Workers = {}
    PROVE  Spec => []StoppedUnlessLate
<1>1. Init => StopInv
  BY DEF Init, StopInv
<1>2. TypeOK /\ SerialInv /\ DescriptorInv /\ StopInv /\ [Next]_vars => StopInv'
  BY StopStep DEF SerialInv
<1>3. StopInv => StoppedUnlessLate
  BY DEF StopInv, Settled, StoppedUnlessLate
<1> QED
  BY <1>1, <1>2, <1>3, TypeCorrect, SerialInvariant, SerialDescriptors, PTL
  DEF Spec

----------------------------------------------------------------------------
(* Which memory the library touches.                                       *)

(* num_maps grows by NUM_PROCS with each session.                          *)
LEMMA OpenedFacts ==
    /\ Opened(0) = 0
    /\ \A n \in Nat : /\ Opened(n) \in Nat
                      /\ Opened(n + 1) = Opened(n) + NUM_PROCS
    /\ \A n \in Nat : n < MaxSessions => Opened(n + 1) <= Opened(MaxSessions)
<1>1. ASSUME NEW n \in Nat
      PROVE  Opened(n) \in Nat /\ Opened(n + 1) = Opened(n) + NUM_PROCS
  BY ConstantsAssumption DEF Opened
<1>2. ASSUME NEW n \in Nat, n < MaxSessions
      PROVE  Opened(n + 1) <= Opened(MaxSessions)
  <2>1. (MaxSessions - (n + 1)) * NUM_PROCS \in Nat
    BY <1>2, ConstantsAssumption
  <2>2. (MaxSessions - (n + 1)) * NUM_PROCS
        = MaxSessions * NUM_PROCS - (n + 1) * NUM_PROCS
    BY ConstantsAssumption
  <2>3. (n + 1) * NUM_PROCS \in Nat /\ MaxSessions * NUM_PROCS \in Nat
    BY ConstantsAssumption
  <2> QED
    BY <2>1, <2>2, <2>3 DEF Opened
<1> QED
  BY <1>1, <1>2, ConstantsAssumption DEF Opened

(* A handler finds the stream, the arrays and its entry of mmaps; the ring *)
(* it does not find is that of a late event.                               *)
LEMMA HandlerFindsMemory ==
    ASSUME TypeOK, SerialInv, DescriptorInv, StopInv, MemoryInv,
           hpc[Main] # "none"
    PROVE  /\ fp # "closed" /\ Matches(hfd[Main]) # {}
           /\ \A c \in Cpu : fds[c] = hfd[Main] /\ ~mapped[c] => c \in late
<1>1. ~BeforeStart /\ pc \in {"enable", "work", "refresh", "disable", "close", "munmap"}
  BY
  DEF SerialInv, PhaseInv, TypeOK, MainTypeOK, MainAt, SyscallAt, BeforeStart
<1>2. fp # "closed"
  BY <1>1 DEF MemoryInv
<1>3. ASSUME NEW c \in Cpu, fds[c] = hfd[Main], ~mapped[c]
      PROVE  c \in late
  <2>1. CASE pc \in {"close", "munmap"}
    BY <1>3, <2>1 DEF StopInv, Settled
  <2>2. CASE pc \in {"enable", "work", "refresh", "disable"}
    BY <1>3, <2>2 DEF DescriptorInv, SerialInv, PhaseInv
  <2> QED
    BY <1>1, <2>1, <2>2
<1>4. PICK c \in Cpu : fds[c] = hfd[Main] /\ hfd[Main] # NoFd
  BY DEF DescriptorInv
<1>5. \A d \in Cpu : d < c => fds[d] # hfd[Main]
  BY <1>4, ConstantsAssumption DEF DescriptorInv
<1>6. c < num_maps
  BY <1>1, ConstantsAssumption DEF SerialInv, PhaseInv, TypeOK, LibTypeOK
<1>7. c \in Matches(hfd[Main])
  BY <1>4, <1>5, <1>6 DEF Matches
<1> QED
  BY <1>2, <1>3, <1>7

(* Every step keeps MemoryInv.                                             *)
LEMMA MemoryStep ==
    ASSUME Workers = {}, Opened(MaxSessions) <= MAX_MAPS, TypeOK, SerialInv,
           DescriptorInv, StopInv, MemoryInv, [Next]_vars
    PROVE  MemoryInv'
<1>1. CASE SampleInit
  <2>1. /\ pc = "idle" /\ session < MaxSessions /\ pc' = "open" /\ i' = 0
        /\ fp' = StreamAfterWarmUp /\ status' = "running"
        /\ hpc'[Main] = "none" /\ UNCHANGED <<session, num_maps, inkernel>>
    BY <1>1 DEF SampleInit, MainRuns, frameVars
  <2>2. num_maps = Opened(session) /\ Opened(session) \in Nat
    BY <2>1, OpenedFacts DEF MemoryInv, TypeOK, MainTypeOK
  <2> QED
    BY <2>1, <2>2
    DEF MemoryInv, MemorySafeUnlessLate, MemorySafe, BeforeStart,
       StreamAfterWarmUp
<1>2. CASE SampleInitReturnsError
  BY <1>2, ConstantsAssumption, OpenedFacts
  DEF SampleInitReturnsError, MainRuns, MemoryInv, MemorySafeUnlessLate,
      MemorySafe, SerialInv, PhaseInv, BeforeStart, TypeOK, MainTypeOK,
      LibTypeOK, libVars, eventVars, ringVars, frameVars
<1>3. CASE StartOnError
  BY <1>3, ConstantsAssumption, OpenedFacts
  DEF StartOnError, MainRuns, MemoryInv, MemorySafeUnlessLate, MemorySafe,
      SerialInv, PhaseInv, BeforeStart, TypeOK, MainTypeOK, LibTypeOK, libVars,
      eventVars, ringVars, frameVars
<1>4. CASE SampleInitExits
  BY <1>4, ConstantsAssumption, OpenedFacts
  DEF SampleInitExits, MainRuns, MemoryInv, MemorySafeUnlessLate, MemorySafe,
      SerialInv, PhaseInv, BeforeStart, TypeOK, MainTypeOK, LibTypeOK, libVars,
      eventVars, ringVars, frameVars
<1>5. ASSUME NEW f \in Fd, SampleInitOpen(f) PROVE MemoryInv'
  <2>1. /\ pc = "open" /\ i \in Cpu /\ num_maps' = num_maps + 1
        /\ i' = (IF i + 1 < NUM_PROCS THEN i + 1 ELSE 0)
        /\ pc' = (IF i + 1 < NUM_PROCS THEN "open" ELSE "enable")
        /\ status = "running" /\ hpc'[Main] = "none"
        /\ status' = (IF i < MAX_MAPS THEN status ELSE "overrun")
        /\ UNCHANGED <<inkernel, session, fp>>
    BY <1>5
    DEF SampleInitOpen, CountMap, Advance, MainRuns, SerialInv, PhaseInv,
       frameVars
  <2>2. /\ session \in Nat /\ session < MaxSessions /\ fp # "closed"
        /\ num_maps = Opened(session) + i
    BY <2>1 DEF MemoryInv, TypeOK, MainTypeOK
  <2>3. /\ Opened(session) \in Nat
        /\ Opened(session + 1) = Opened(session) + NUM_PROCS
        /\ Opened(session + 1) <= MAX_MAPS
    BY <2>2, OpenedFacts, ConstantsAssumption
  <2>4. i < MAX_MAPS
    BY <2>1, <2>3, ConstantsAssumption
  <2>5. CASE i + 1 < NUM_PROCS
    BY <2>1, <2>2, <2>3, <2>4, <2>5, ConstantsAssumption
    DEF MemoryInv, MemorySafeUnlessLate, MemorySafe, BeforeStart
  <2>6. CASE ~(i + 1 < NUM_PROCS)
    <3>1. num_maps' = Opened(session + 1)
      BY <2>1, <2>2, <2>3, <2>6, ConstantsAssumption
    <3> QED
      BY <2>1, <2>2, <2>4, <2>6, <3>1
      DEF MemoryInv, MemorySafeUnlessLate, MemorySafe, BeforeStart
  <2> QED
    BY <2>5, <2>6
<1>6. CASE EnterKernel
  BY <1>6, ConstantsAssumption, OpenedFacts
  DEF EnterKernel, MainRuns, SyscallAt, MemoryInv, MemorySafeUnlessLate,
      MemorySafe, SerialInv, PhaseInv, BeforeStart, TypeOK, MainTypeOK,
      LibTypeOK, libVars, eventVars, ringVars, frameVars
<1>7. CASE SampleStart
  BY <1>7, ConstantsAssumption, OpenedFacts
  DEF SampleStart, InKernelAt, IocEnable, IsEvent, Advance, MemoryInv,
      MemorySafeUnlessLate, MemorySafe, SerialInv, PhaseInv, BeforeStart,
      TypeOK, MainTypeOK, LibTypeOK, libVars, ringVars, frameVars
<1>8. CASE EnterMalloc
  BY <1>8, ConstantsAssumption, OpenedFacts
  DEF EnterMalloc, MainRuns, MemoryInv, MemorySafeUnlessLate, MemorySafe,
      SerialInv, PhaseInv, BeforeStart, TypeOK, MainTypeOK, LibTypeOK, libVars,
      eventVars, ringVars, frameVars
<1>9. CASE LeaveMalloc
  BY <1>9, ConstantsAssumption, OpenedFacts
  DEF LeaveMalloc, MainRuns, MemoryInv, MemorySafeUnlessLate, MemorySafe,
      SerialInv, PhaseInv, BeforeStart, TypeOK, MainTypeOK, LibTypeOK, libVars,
      eventVars, ringVars, frameVars
<1>10. CASE CallStop
  BY <1>10, ConstantsAssumption, OpenedFacts
  DEF CallStop, MainRuns, MemoryInv, MemorySafeUnlessLate, MemorySafe,
      SerialInv, PhaseInv, BeforeStart, TypeOK, MainTypeOK, LibTypeOK, libVars,
      eventVars, ringVars, frameVars
<1>11. CASE StopRefresh
  BY <1>11, ConstantsAssumption, OpenedFacts
  DEF StopRefresh, InKernelAt, IocRefresh, IsEvent, MemoryInv,
      MemorySafeUnlessLate, MemorySafe, SerialInv, PhaseInv, BeforeStart,
      TypeOK, MainTypeOK, LibTypeOK, libVars, ringVars, frameVars
<1>12. CASE StopDisable
  BY <1>12, ConstantsAssumption, OpenedFacts
  DEF StopDisable, InKernelAt, IocDisable, IsEvent, Advance, MemoryInv,
      MemorySafeUnlessLate, MemorySafe, SerialInv, PhaseInv, BeforeStart,
      TypeOK, MainTypeOK, LibTypeOK, libVars, ringVars, frameVars
<1>13. CASE StopClose
  BY <1>13, ConstantsAssumption, OpenedFacts
  DEF StopClose, InKernelAt, Advance, MemoryInv, MemorySafeUnlessLate,
      MemorySafe, SerialInv, PhaseInv, BeforeStart, TypeOK, MainTypeOK,
      LibTypeOK, libVars, ringVars, frameVars
<1>14. CASE StopMunmap
  <2>1. /\ pc = "munmap" /\ inkernel /\ inkernel' = FALSE
        /\ status' = (IF i < MAX_MAPS THEN status ELSE "overrun")
        /\ status = "running" /\ hpc'[Main] = "none"
        /\ UNCHANGED <<pc, session, num_maps, fp>>
    BY <1>14 DEF StopMunmap, InKernelAt, libVars, frameVars
  <2>2. /\ i \in Nat /\ session \in Nat /\ session < MaxSessions
        /\ i < num_maps /\ num_maps = Opened(session + 1)
    BY <2>1 DEF MemoryInv, BeforeStart, TypeOK, MainTypeOK
  <2>3. Opened(session + 1) \in Nat /\ Opened(session + 1) <= MAX_MAPS
    BY <2>2, OpenedFacts, ConstantsAssumption
  <2>4. i < MAX_MAPS
    BY <2>2, <2>3, ConstantsAssumption
  <2> QED
    BY <2>1, <2>4
    DEF MemoryInv, MemorySafeUnlessLate, MemorySafe, BeforeStart
<1>15. CASE StopCleanup
  <2>1. /\ pc = "munmap" /\ pc' = "idle" /\ session' = session + 1
        /\ status' = "running" /\ hpc'[Main] = "none" /\ ~inkernel'
        /\ UNCHANGED num_maps
    BY <1>15 DEF StopCleanup, MainRuns, frameVars
  <2>2. /\ num_maps = Opened(session + 1) /\ session \in Nat
        /\ session < MaxSessions
    BY <2>1 DEF MemoryInv, BeforeStart, TypeOK, MainTypeOK
  <2> QED
    BY <2>1, <2>2, ConstantsAssumption
    DEF MemoryInv, MemorySafeUnlessLate, MemorySafe, BeforeStart
<1>16. CASE Deliver(Main)
  BY <1>16, ConstantsAssumption, OpenedFacts
  DEF Deliver, At, Goto, MemoryInv, MemorySafeUnlessLate, MemorySafe,
      SerialInv, PhaseInv, BeforeStart, TypeOK, MainTypeOK, LibTypeOK,
      mainVars, libVars, eventVars, ringVars
<1>17. CASE HandlerDisable(Main)
  BY <1>17, ConstantsAssumption, OpenedFacts
  DEF HandlerDisable, At, Goto, IocDisable, IsEvent, MemoryInv,
      MemorySafeUnlessLate, MemorySafe, SerialInv, PhaseInv, BeforeStart,
      TypeOK, MainTypeOK, LibTypeOK, mainVars, libVars, ringVars
<1>18. CASE HandlerLookup(Main)
  <2>1. hpc[Main] # "none" /\ UNCHANGED <<pc, i, inkernel, session, num_maps, fp>>
    BY <1>18 DEF HandlerLookup, At
  <2>2. PICK c \in Matches(hfd[Main]) :
            /\ our_mmap' = c /\ hpc'[Main] = "read_head" /\ status' = "running"
            /\ UNCHANGED <<fds, hfd>>
    BY <1>18, <2>1, HandlerFindsMemory
    DEF HandlerLookup, MapOf, At, Goto, TypeOK, FrameTypeOK, Threads
  <2>3. fds'[our_mmap'] = hfd'[Main]
    BY <2>2 DEF Matches
  <2> QED
    BY <2>1, <2>2, <2>3
    DEF MemoryInv, MemorySafeUnlessLate, MemorySafe, BeforeStart
<1>19. CASE HandlerReadHead(Main)
  <2>1. /\ hpc[Main] = "read_head" /\ our_mmap \in Cpu
        /\ UNCHANGED <<pc, i, inkernel, session, num_maps, fp, fds, hfd, late,
                       our_mmap, mapped>>
    BY <1>19
    DEF HandlerReadHead, At, libVars, eventVars, TypeOK, LibTypeOK
  <2>2. fds[our_mmap] = hfd[Main] /\ fp # "closed"
    BY <2>1, HandlerFindsMemory DEF MemoryInv
  <2>3. \/ status' = "running" /\ hpc'[Main] = "copy"
        \/ status' = "stale_access" /\ ~mapped[our_mmap]
    BY <1>19, <2>2
    DEF HandlerReadHead, At, Goto, TypeOK, FrameTypeOK, Threads
  <2>4. ~mapped[our_mmap] => our_mmap \in late
    BY <2>1, <2>2, HandlerFindsMemory
  <2>5. MemorySafeUnlessLate'
    BY <2>1, <2>2, <2>3, <2>4 DEF MemorySafeUnlessLate, MemorySafe
  <2> QED
    BY <2>1, <2>2, <2>5 DEF MemoryInv, BeforeStart
<1>20. CASE HandlerCopy(Main)
  <2>1. /\ hpc[Main] = "copy"
        /\ UNCHANGED <<pc, i, inkernel, session, num_maps, fp>>
    BY <1>20 DEF HandlerCopy, At
  <2>2. fp # "closed" /\ mapped[hmap[Main]]
    BY <2>1, HandlerFindsMemory DEF SerialInv, FrameInv
  <2>3. status' = "running" /\ hpc'[Main] = "parse"
    BY <1>20, <2>2
    DEF HandlerCopy, At, Goto, TypeOK, FrameTypeOK, Threads
  <2> QED
    BY <2>1, <2>3 DEF MemoryInv, MemorySafeUnlessLate, MemorySafe, BeforeStart
<1>21. CASE HandlerParse(Main)
  <2>1. /\ hpc[Main] = "parse" /\ status' = ParseStatus(Main)
        /\ UNCHANGED <<pc, i, inkernel, session, num_maps, fp>>
    BY <1>21 DEF HandlerParse, At
  <2>2. fp # "closed"
    BY <2>1, HandlerFindsMemory
  <2>3. mapped[hmap[Main]] /\ hhead[Main] - hprev[Main] <= DataSize
    BY <2>1 DEF SerialInv, FrameInv
  <2>4. status' = "running"
    BY <2>1, <2>2, <2>3, ConstantsAssumption
    DEF ParseStatus, TypeOK, FrameTypeOK, Threads
  <2>5. hpc'[Main] = "store"
    BY <1>21, <2>1, <2>4
    DEF HandlerParse, Goto, TypeOK, FrameTypeOK, Threads
  <2> QED
    BY <2>1, <2>4, <2>5
    DEF MemoryInv, MemorySafeUnlessLate, MemorySafe, BeforeStart
<1>22. CASE HandlerStore(Main)
  <2>1. /\ hpc[Main] = "store"
        /\ UNCHANGED <<pc, i, inkernel, session, num_maps, fp>>
    BY <1>22 DEF HandlerStore, At
  <2>2. fp # "closed"
    BY <2>1, HandlerFindsMemory
  <2>3. status' = "running" /\ hpc'[Main] = "refresh"
    BY <1>22, <2>2
    DEF HandlerStore, At, Goto, TypeOK, FrameTypeOK, Threads
  <2> QED
    BY <2>1, <2>3 DEF MemoryInv, MemorySafeUnlessLate, MemorySafe, BeforeStart
<1>23. CASE HandlerRefresh(Main)
  BY <1>23, ConstantsAssumption, OpenedFacts
  DEF HandlerRefresh, At, Goto, IocRefresh, IsEvent, RefreshBy, MemoryInv,
      MemorySafeUnlessLate, MemorySafe, SerialInv, PhaseInv, BeforeStart,
      TypeOK, MainTypeOK, LibTypeOK, mainVars, libVars, ringVars
<1>24. CASE HandlerReturn(Main)
  BY <1>24, ConstantsAssumption, OpenedFacts
  DEF HandlerReturn, At, Goto, MemoryInv, MemorySafeUnlessLate, MemorySafe,
      SerialInv, PhaseInv, BeforeStart, TypeOK, MainTypeOK, LibTypeOK,
      mainVars, libVars, eventVars, ringVars
<1>25. ASSUME NEW c \in Cpu, NEW m \in RecSizes, Overflow(c, m)
      PROVE  MemoryInv'
  BY <1>25, ConstantsAssumption, OpenedFacts
  DEF Overflow, Raise, Counting, MemoryInv, MemorySafeUnlessLate, MemorySafe,
      SerialInv, PhaseInv, BeforeStart, TypeOK, MainTypeOK, LibTypeOK,
      mainVars, libVars, frameVars
<1>26. CASE Finished
  BY <1>26, ConstantsAssumption, OpenedFacts
  DEF Finished, vars, MemoryInv, MemorySafeUnlessLate, MemorySafe, SerialInv,
      PhaseInv, BeforeStart, TypeOK, MainTypeOK, LibTypeOK, mainVars, libVars,
      eventVars, ringVars, frameVars
<1>27. CASE UNCHANGED vars
  BY <1>27, ConstantsAssumption, OpenedFacts
  DEF vars, MemoryInv, MemorySafeUnlessLate, MemorySafe, SerialInv, PhaseInv,
      BeforeStart, TypeOK, MainTypeOK, LibTypeOK, mainVars, libVars, eventVars,
      ringVars, frameVars
<1> QED
  BY <1>1, <1>2, <1>3, <1>4, <1>5, <1>6, <1>7, <1>8, <1>9, <1>10, <1>11,
     <1>12, <1>13, <1>14, <1>15, <1>16, <1>17, <1>18, <1>19, <1>20, <1>21,
     <1>22, <1>23, <1>24, <1>25, <1>26, <1>27, SerialThread
  DEF Next, InitCall, StartAndStop, Program, Handler

(* While the entries of every session fit in mmaps, no loop runs beyond    *)
(* mmaps, no copy beyond data, and no handler meets memory that stop has   *)
(* given back, but the ring of an event that overflowed inside its DISABLE.*)
THEOREM SerialMemorySafeUnlessLate ==
    ASSUME Workers = {}, MaxSessions * NUM_PROCS <= MAX_MAPS
    PROVE  Spec => []MemorySafeUnlessLate
<1>1. Init => StopInv
  BY DEF Init, StopInv
<1>2. TypeOK /\ SerialInv /\ DescriptorInv /\ StopInv /\ [Next]_vars => StopInv'
  BY StopStep DEF SerialInv
<1>3. Init => MemoryInv
  BY OpenedFacts, SerialThread, ConstantsAssumption
  DEF Init, MemoryInv, MemorySafeUnlessLate, MemorySafe, BeforeStart
<1>4. /\ TypeOK /\ SerialInv /\ DescriptorInv /\ StopInv /\ MemoryInv
      /\ [Next]_vars
      => MemoryInv'
  BY MemoryStep DEF Opened
<1>5. MemoryInv => MemorySafeUnlessLate
  BY DEF MemoryInv
<1> QED
  BY <1>1, <1>2, <1>3, <1>4, <1>5, TypeCorrect, SerialInvariant,
     SerialDescriptors, PTL
  DEF Spec

----------------------------------------------------------------------------
(* What the event of a single CPU cannot lose.                             *)

(* With one CPU there is one descriptor, and a signal or handler has it.   *)
LEMMA OneDescriptor ==
    ASSUME NUM_PROCS = 1, DescriptorInv
    PROVE  /\ Cpu = {0}
           /\ pending # NoFd => pending = fds[0]
           /\ hpc[Main] # "none" => hfd[Main] = fds[0]
<1>1. Cpu = {0}
  OBVIOUS
<1> QED
  BY <1>1 DEF DescriptorInv

(* Every step keeps MonitoredInv.                                          *)
LEMMA MonitoredStep ==
    ASSUME Workers = {}, NUM_PROCS = 1, TypeOK, PhaseInv, DescriptorInv,
           MonitoredInv, [Next]_vars
    PROVE  MonitoredInv'
<1>0. /\ Cpu = {0}
      /\ pending # NoFd => pending = fds[0]
      /\ hpc[Main] # "none" => hfd[Main] = fds[0]
  BY OneDescriptor
<1>1. CASE SampleInit
  BY <1>1, ConstantsAssumption, <1>0
  DEF SampleInit, MainRuns, MonitoredInv, PhaseInv, BeforeStart,
     DescriptorInv, TypeOK, MainTypeOK, LibTypeOK, EventTypeOK, FrameTypeOK,
     eventVars, ringVars, frameVars
<1>2. CASE SampleInitReturnsError
  BY <1>2, ConstantsAssumption, <1>0
  DEF SampleInitReturnsError, MainRuns, MonitoredInv, PhaseInv, BeforeStart,
     DescriptorInv, TypeOK, MainTypeOK, LibTypeOK, EventTypeOK, FrameTypeOK,
     libVars, eventVars, ringVars, frameVars
<1>3. CASE StartOnError
  BY <1>3, ConstantsAssumption, <1>0
  DEF StartOnError, MainRuns, MonitoredInv, PhaseInv, BeforeStart,
     DescriptorInv, TypeOK, MainTypeOK, LibTypeOK, EventTypeOK, FrameTypeOK,
     libVars, eventVars, ringVars, frameVars
<1>4. CASE SampleInitExits
  BY <1>4, ConstantsAssumption, <1>0
  DEF SampleInitExits, MainRuns, MonitoredInv, PhaseInv, BeforeStart,
     DescriptorInv, TypeOK, MainTypeOK, LibTypeOK, EventTypeOK, FrameTypeOK,
     libVars, eventVars, ringVars, frameVars
<1>5. ASSUME NEW f \in Fd, SampleInitOpen(f) PROVE MonitoredInv'
  BY <1>5, ConstantsAssumption, <1>0
  DEF SampleInitOpen, MainRuns, IsEvent, Advance, CountMap, MonitoredInv,
     PhaseInv, BeforeStart, DescriptorInv, TypeOK, MainTypeOK, LibTypeOK,
     EventTypeOK, FrameTypeOK, frameVars
<1>6. CASE EnterKernel
  BY <1>6, ConstantsAssumption, <1>0
  DEF EnterKernel, MainRuns, SyscallAt, MonitoredInv, PhaseInv, BeforeStart,
     DescriptorInv, TypeOK, MainTypeOK, LibTypeOK, EventTypeOK, FrameTypeOK,
     libVars, eventVars, ringVars, frameVars
<1>7. CASE SampleStart
  BY <1>7, ConstantsAssumption, <1>0
  DEF SampleStart, InKernelAt, IocEnable, IsEvent, Advance, MonitoredInv,
     PhaseInv, BeforeStart, DescriptorInv, TypeOK, MainTypeOK, LibTypeOK,
     EventTypeOK, FrameTypeOK, libVars, ringVars, frameVars
<1>8. CASE EnterMalloc
  BY <1>8, ConstantsAssumption, <1>0
  DEF EnterMalloc, MainRuns, MonitoredInv, PhaseInv, BeforeStart,
     DescriptorInv, TypeOK, MainTypeOK, LibTypeOK, EventTypeOK, FrameTypeOK,
     libVars, eventVars, ringVars, frameVars
<1>9. CASE LeaveMalloc
  BY <1>9, ConstantsAssumption, <1>0
  DEF LeaveMalloc, MainRuns, MonitoredInv, PhaseInv, BeforeStart,
     DescriptorInv, TypeOK, MainTypeOK, LibTypeOK, EventTypeOK, FrameTypeOK,
     libVars, eventVars, ringVars, frameVars
<1>10. CASE CallStop
  BY <1>10, ConstantsAssumption, <1>0
  DEF CallStop, MainRuns, MonitoredInv, PhaseInv, BeforeStart,
     DescriptorInv, TypeOK, MainTypeOK, LibTypeOK, EventTypeOK, FrameTypeOK,
     libVars, eventVars, ringVars, frameVars
<1>11. CASE StopRefresh
  BY <1>11, ConstantsAssumption, <1>0
  DEF StopRefresh, InKernelAt, IocRefresh, IsEvent, MonitoredInv, PhaseInv,
     BeforeStart, DescriptorInv, TypeOK, MainTypeOK, LibTypeOK, EventTypeOK,
     FrameTypeOK, libVars, ringVars, frameVars
<1>12. CASE StopDisable
  BY <1>12, ConstantsAssumption, <1>0
  DEF StopDisable, InKernelAt, IocDisable, IsEvent, Advance, MonitoredInv,
     PhaseInv, BeforeStart, DescriptorInv, TypeOK, MainTypeOK, LibTypeOK,
     EventTypeOK, FrameTypeOK, libVars, ringVars, frameVars
<1>13. CASE StopClose
  BY <1>13, ConstantsAssumption, <1>0
  DEF StopClose, InKernelAt, Advance, MonitoredInv, PhaseInv, BeforeStart,
     DescriptorInv, TypeOK, MainTypeOK, LibTypeOK, EventTypeOK, FrameTypeOK,
     libVars, ringVars, frameVars
<1>14. CASE StopMunmap
  BY <1>14, ConstantsAssumption, <1>0
  DEF StopMunmap, InKernelAt, MonitoredInv, PhaseInv, BeforeStart,
     DescriptorInv, TypeOK, MainTypeOK, LibTypeOK, EventTypeOK, FrameTypeOK,
     libVars, ringVars, frameVars
<1>15. CASE StopCleanup
  BY <1>15, ConstantsAssumption, <1>0
  DEF StopCleanup, MainRuns, MonitoredInv, PhaseInv, BeforeStart,
     DescriptorInv, TypeOK, MainTypeOK, LibTypeOK, EventTypeOK, FrameTypeOK,
     eventVars, ringVars, frameVars
<1>16. CASE Deliver(Main)
  <2>1. hpc'[Main] = "disable"
    BY <1>16 DEF Deliver, At, Goto, TypeOK, FrameTypeOK, Threads
  <2> QED
    BY <2>1 DEF MonitoredInv
<1>17. CASE HandlerDisable(Main)
  BY <1>17, ConstantsAssumption, <1>0
  DEF HandlerDisable, At, Goto, IocDisable, IsEvent, MonitoredInv, PhaseInv,
     BeforeStart, DescriptorInv, TypeOK, MainTypeOK, LibTypeOK, EventTypeOK,
     FrameTypeOK, mainVars, libVars, ringVars
<1>18. CASE HandlerLookup(Main)
  <2>1. hpc'[Main] = "read_head" \/ status' # "running"
    BY <1>18 DEF HandlerLookup, At, Goto, TypeOK, FrameTypeOK, Threads
  <2> QED
    BY <2>1 DEF MonitoredInv
<1>19. CASE HandlerReadHead(Main)
  <2>1. hpc'[Main] = "copy" \/ status' # "running"
    BY <1>19 DEF HandlerReadHead, At, Goto, TypeOK, FrameTypeOK, Threads
  <2> QED
    BY <2>1 DEF MonitoredInv
<1>20. CASE HandlerCopy(Main)
  <2>1. hpc'[Main] = "parse" \/ status' # "running"
    BY <1>20 DEF HandlerCopy, At, Goto, TypeOK, FrameTypeOK, Threads
  <2> QED
    BY <2>1 DEF MonitoredInv
<1>21. CASE HandlerParse(Main)
  <2>1. hpc'[Main] = "store" \/ status' # "running"
    BY <1>21
    DEF HandlerParse, At, Goto, TypeOK, FrameTypeOK, Threads, ParseStatus
  <2> QED
    BY <2>1 DEF MonitoredInv
<1>22. CASE HandlerStore(Main)
  <2>1. hpc'[Main] = "refresh" \/ status' # "running"
    BY <1>22 DEF HandlerStore, At, Goto, TypeOK, FrameTypeOK, Threads
  <2> QED
    BY <2>1 DEF MonitoredInv
<1>23. CASE HandlerRefresh(Main)
  BY <1>23, ConstantsAssumption, <1>0
  DEF HandlerRefresh, At, Goto, IocRefresh, IsEvent, RefreshBy,
     MonitoredInv, PhaseInv, BeforeStart, DescriptorInv, TypeOK, MainTypeOK,
     LibTypeOK, EventTypeOK, FrameTypeOK, mainVars, libVars, ringVars
<1>24. CASE HandlerReturn(Main)
  BY <1>24, ConstantsAssumption, <1>0
  DEF HandlerReturn, At, Goto, MonitoredInv, PhaseInv, BeforeStart,
     DescriptorInv, TypeOK, MainTypeOK, LibTypeOK, EventTypeOK, FrameTypeOK,
     mainVars, libVars, eventVars, ringVars
<1>25. ASSUME NEW c \in Cpu, NEW m \in RecSizes, Overflow(c, m)
      PROVE  MonitoredInv'
  BY <1>25, ConstantsAssumption, <1>0
  DEF Overflow, Raise, Counting, MonitoredInv, PhaseInv, BeforeStart,
     DescriptorInv, TypeOK, MainTypeOK, LibTypeOK, EventTypeOK, FrameTypeOK,
     mainVars, libVars, frameVars
<1>26. CASE Finished
  BY <1>26, ConstantsAssumption, <1>0
  DEF Finished, vars, MonitoredInv, PhaseInv, BeforeStart, DescriptorInv,
     TypeOK, MainTypeOK, LibTypeOK, EventTypeOK, FrameTypeOK, mainVars,
     libVars, eventVars, ringVars, frameVars
<1>27. CASE UNCHANGED vars
  BY <1>27, ConstantsAssumption, <1>0
  DEF vars, MonitoredInv, PhaseInv, BeforeStart, DescriptorInv, TypeOK,
     MainTypeOK, LibTypeOK, EventTypeOK, FrameTypeOK, mainVars, libVars,
     eventVars, ringVars, frameVars
<1> QED
  BY <1>1, <1>2, <1>3, <1>4, <1>5, <1>6, <1>7, <1>8, <1>9, <1>10, <1>11,
     <1>12, <1>13, <1>14, <1>15, <1>16, <1>17, <1>18, <1>19, <1>20, <1>21,
     <1>22, <1>23, <1>24, <1>25, <1>26, <1>27, SerialThread
  DEF Next, InitCall, StartAndStop, Program, Handler

(* Every step keeps UnreadInv.                                             *)
LEMMA UnreadStep ==
    ASSUME Workers = {}, NUM_PROCS = 1, TypeOK, PhaseInv, FrameInv,
           DescriptorInv, UnreadInv, [Next]_vars
    PROVE  UnreadInv'
<1>0. /\ Cpu = {0}
      /\ pending # NoFd => pending = fds[0]
      /\ hpc[Main] # "none" => hfd[Main] = fds[0]
  BY OneDescriptor
<1>1. CASE SampleInit
  BY <1>1, ConstantsAssumption, <1>0
  DEF SampleInit, MainRuns, UnreadInv, PhaseInv, BeforeStart, DescriptorInv,
     TypeOK, MainTypeOK, LibTypeOK, EventTypeOK, RingTypeOK, FrameTypeOK,
     eventVars, ringVars, frameVars
<1>2. CASE SampleInitReturnsError
  BY <1>2, ConstantsAssumption, <1>0
  DEF SampleInitReturnsError, MainRuns, UnreadInv, PhaseInv, BeforeStart,
     DescriptorInv, TypeOK, MainTypeOK, LibTypeOK, EventTypeOK, RingTypeOK,
     FrameTypeOK, libVars, eventVars, ringVars, frameVars
<1>3. CASE StartOnError
  BY <1>3, ConstantsAssumption, <1>0
  DEF StartOnError, MainRuns, UnreadInv, PhaseInv, BeforeStart,
     DescriptorInv, TypeOK, MainTypeOK, LibTypeOK, EventTypeOK, RingTypeOK,
     FrameTypeOK, libVars, eventVars, ringVars, frameVars
<1>4. CASE SampleInitExits
  BY <1>4, ConstantsAssumption, <1>0
  DEF SampleInitExits, MainRuns, UnreadInv, PhaseInv, BeforeStart,
     DescriptorInv, TypeOK, MainTypeOK, LibTypeOK, EventTypeOK, RingTypeOK,
     FrameTypeOK, libVars, eventVars, ringVars, frameVars
<1>5. ASSUME NEW f \in Fd, SampleInitOpen(f) PROVE UnreadInv'
  BY <1>5, ConstantsAssumption, <1>0
  DEF SampleInitOpen, MainRuns, IsEvent, Advance, CountMap, UnreadInv,
     PhaseInv, BeforeStart, DescriptorInv, TypeOK, MainTypeOK, LibTypeOK,
     EventTypeOK, RingTypeOK, FrameTypeOK, frameVars
<1>6. CASE EnterKernel
  BY <1>6, ConstantsAssumption, <1>0
  DEF EnterKernel, MainRuns, SyscallAt, UnreadInv, PhaseInv, BeforeStart,
     DescriptorInv, TypeOK, MainTypeOK, LibTypeOK, EventTypeOK, RingTypeOK,
     FrameTypeOK, libVars, eventVars, ringVars, frameVars
<1>7. CASE SampleStart
  BY <1>7, ConstantsAssumption, <1>0
  DEF SampleStart, InKernelAt, IocEnable, IsEvent, Advance, UnreadInv,
     PhaseInv, BeforeStart, DescriptorInv, TypeOK, MainTypeOK, LibTypeOK,
     EventTypeOK, RingTypeOK, FrameTypeOK, libVars, ringVars, frameVars
<1>8. CASE EnterMalloc
  BY <1>8, ConstantsAssumption, <1>0
  DEF EnterMalloc, MainRuns, UnreadInv, PhaseInv, BeforeStart,
     DescriptorInv, TypeOK, MainTypeOK, LibTypeOK, EventTypeOK, RingTypeOK,
     FrameTypeOK, libVars, eventVars, ringVars, frameVars
<1>9. CASE LeaveMalloc
  BY <1>9, ConstantsAssumption, <1>0
  DEF LeaveMalloc, MainRuns, UnreadInv, PhaseInv, BeforeStart,
     DescriptorInv, TypeOK, MainTypeOK, LibTypeOK, EventTypeOK, RingTypeOK,
     FrameTypeOK, libVars, eventVars, ringVars, frameVars
<1>10. CASE CallStop
  BY <1>10, ConstantsAssumption, <1>0
  DEF CallStop, MainRuns, UnreadInv, PhaseInv, BeforeStart, DescriptorInv,
     TypeOK, MainTypeOK, LibTypeOK, EventTypeOK, RingTypeOK, FrameTypeOK,
     libVars, eventVars, ringVars, frameVars
<1>11. CASE StopRefresh
  BY <1>11, ConstantsAssumption, <1>0
  DEF StopRefresh, InKernelAt, IocRefresh, IsEvent, UnreadInv, PhaseInv,
     BeforeStart, DescriptorInv, TypeOK, MainTypeOK, LibTypeOK, EventTypeOK,
     RingTypeOK, FrameTypeOK, libVars, ringVars, frameVars
<1>12. CASE StopDisable
  BY <1>12, ConstantsAssumption, <1>0
  DEF StopDisable, InKernelAt, IocDisable, IsEvent, Advance, UnreadInv,
     PhaseInv, BeforeStart, DescriptorInv, TypeOK, MainTypeOK, LibTypeOK,
     EventTypeOK, RingTypeOK, FrameTypeOK, libVars, ringVars, frameVars
<1>13. CASE StopClose
  BY <1>13, ConstantsAssumption, <1>0
  DEF StopClose, InKernelAt, Advance, UnreadInv, PhaseInv, BeforeStart,
     DescriptorInv, TypeOK, MainTypeOK, LibTypeOK, EventTypeOK, RingTypeOK,
     FrameTypeOK, libVars, ringVars, frameVars
<1>14. CASE StopMunmap
  BY <1>14, ConstantsAssumption, <1>0
  DEF StopMunmap, InKernelAt, UnreadInv, PhaseInv, BeforeStart,
     DescriptorInv, TypeOK, MainTypeOK, LibTypeOK, EventTypeOK, RingTypeOK,
     FrameTypeOK, libVars, ringVars, frameVars
<1>15. CASE StopCleanup
  BY <1>15, ConstantsAssumption, <1>0
  DEF StopCleanup, MainRuns, UnreadInv, PhaseInv, BeforeStart,
     DescriptorInv, TypeOK, MainTypeOK, LibTypeOK, EventTypeOK, RingTypeOK,
     FrameTypeOK, eventVars, ringVars, frameVars
<1>16. CASE Deliver(Main)
  <2>1. hpc'[Main] = "disable"
    BY <1>16 DEF Deliver, At, Goto, TypeOK, FrameTypeOK, Threads
  <2> QED
    BY <2>1 DEF UnreadInv
<1>17. CASE HandlerDisable(Main)
  BY <1>17, ConstantsAssumption, <1>0
  DEF HandlerDisable, At, Goto, IocDisable, IsEvent, UnreadInv, PhaseInv,
     BeforeStart, DescriptorInv, TypeOK, MainTypeOK, LibTypeOK, EventTypeOK,
     RingTypeOK, FrameTypeOK, mainVars, libVars, ringVars
<1>18. CASE HandlerLookup(Main)
  <2>1. hpc'[Main] = "read_head" \/ status' # "running"
    BY <1>18 DEF HandlerLookup, At, Goto, TypeOK, FrameTypeOK, Threads
  <2> QED
    BY <2>1 DEF UnreadInv
<1>19. CASE HandlerReadHead(Main)
  <2>1. hpc'[Main] = "copy" \/ status' # "running"
    BY <1>19 DEF HandlerReadHead, At, Goto, TypeOK, FrameTypeOK, Threads
  <2>2. hpc'[Main] = "copy" => hhead'[Main] = head[our_mmap] /\ head' = head
    BY <1>19
    DEF HandlerReadHead, At, Goto, TypeOK, FrameTypeOK, Threads, ringVars
  <2>3. our_mmap = 0
    BY <1>0 DEF TypeOK, LibTypeOK
  <2> QED
    BY <1>0, <2>1, <2>2, <2>3 DEF UnreadInv
<1>20. CASE HandlerCopy(Main)
  <2>1. hpc'[Main] = "parse" \/ status' # "running"
    BY <1>20 DEF HandlerCopy, At, Goto, TypeOK, FrameTypeOK, Threads
  <2>2. /\ hpc[Main] = "copy" /\ status = "running"
        /\ UNCHANGED <<pending, fds, mapped, head, tail, hhead>>
    BY <1>20 DEF HandlerCopy, At, eventVars, ringVars
  <2> QED
    BY <2>1, <2>2 DEF UnreadInv
<1>21. CASE HandlerParse(Main)
  <2>1. hpc'[Main] = "store" \/ status' # "running"
    BY <1>21
    DEF HandlerParse, At, Goto, TypeOK, FrameTypeOK, Threads, ParseStatus
  <2>2. /\ hpc[Main] = "parse" /\ status = "running"
        /\ UNCHANGED <<pending, fds, mapped, head>>
    BY <1>21 DEF HandlerParse, At, eventVars
  <2>3. status' = "running" => tail' = [tail EXCEPT ![hmap[Main]] = hhead[Main]]
    BY <1>21 DEF HandlerParse, TailToStore
  <2>4. hmap[Main] = 0 /\ DOMAIN tail = {0}
    BY <1>0 DEF TypeOK, FrameTypeOK, RingTypeOK, Threads
  <2>5. status' = "running" => tail'[0] = hhead[Main]
    BY <2>3, <2>4
  <2>6. head[0] \in Int /\ hhead[Main] \in Int
    BY <1>0 DEF TypeOK, FrameTypeOK, RingTypeOK, Threads
  <2>7. pending = fds[0] \/ ~mapped[0] \/ tail[0] >= head[0]
        \/ hhead[Main] = head[0]
    BY <1>0, <2>2 DEF UnreadInv, TypeOK, RingTypeOK
  <2>8. hhead[Main] >= tail[0]
    BY <1>0, <2>2
    DEF FrameInv, TypeOK, FrameTypeOK, RingTypeOK, Threads
  <2>9. tail[0] \in Int
    BY <1>0 DEF TypeOK, RingTypeOK
  <2> QED
    BY <1>0, <2>2, <2>5, <2>6, <2>7, <2>8, <2>9 DEF UnreadInv
<1>22. CASE HandlerStore(Main)
  BY <1>22, ConstantsAssumption, <1>0
  DEF HandlerStore, At, Goto, UnreadInv, PhaseInv, BeforeStart,
     DescriptorInv, TypeOK, MainTypeOK, LibTypeOK, EventTypeOK, RingTypeOK,
     FrameTypeOK, eventVars, ringVars
<1>23. CASE HandlerRefresh(Main)
  BY <1>23, ConstantsAssumption, <1>0
  DEF HandlerRefresh, At, Goto, IocRefresh, IsEvent, RefreshBy, UnreadInv,
     PhaseInv, BeforeStart, DescriptorInv, TypeOK, MainTypeOK, LibTypeOK,
     EventTypeOK, RingTypeOK, FrameTypeOK, mainVars, libVars, ringVars
<1>24. CASE HandlerReturn(Main)
  BY <1>24, ConstantsAssumption, <1>0
  DEF HandlerReturn, At, Goto, UnreadInv, PhaseInv, BeforeStart,
     DescriptorInv, TypeOK, MainTypeOK, LibTypeOK, EventTypeOK, RingTypeOK,
     FrameTypeOK, mainVars, libVars, eventVars, ringVars
<1>25. ASSUME NEW c \in Cpu, NEW m \in RecSizes, Overflow(c, m)
      PROVE  UnreadInv'
  BY <1>25, ConstantsAssumption, <1>0
  DEF Overflow, Raise, Counting, UnreadInv, PhaseInv, BeforeStart,
     DescriptorInv, TypeOK, MainTypeOK, LibTypeOK, EventTypeOK, RingTypeOK,
     FrameTypeOK, mainVars, libVars, frameVars
<1>26. CASE Finished
  BY <1>26, ConstantsAssumption, <1>0
  DEF Finished, vars, UnreadInv, PhaseInv, BeforeStart, DescriptorInv,
     TypeOK, MainTypeOK, LibTypeOK, EventTypeOK, RingTypeOK, FrameTypeOK,
     mainVars, libVars, eventVars, ringVars, frameVars
<1>27. CASE UNCHANGED vars
  BY <1>27, ConstantsAssumption, <1>0
  DEF vars, UnreadInv, PhaseInv, BeforeStart, DescriptorInv, TypeOK,
     MainTypeOK, LibTypeOK, EventTypeOK, RingTypeOK, FrameTypeOK, mainVars,
     libVars, eventVars, ringVars, frameVars
<1> QED
  BY <1>1, <1>2, <1>3, <1>4, <1>5, <1>6, <1>7, <1>8, <1>9, <1>10, <1>11,
     <1>12, <1>13, <1>14, <1>15, <1>16, <1>17, <1>18, <1>19, <1>20, <1>21,
     <1>22, <1>23, <1>24, <1>25, <1>26, <1>27, SerialThread
  DEF Next, InitCall, StartAndStop, Program, Handler

(* With one CPU the event is never lost to the sampling loop.              *)
THEOREM SerialMonitored ==
    ASSUME Workers = {}, NUM_PROCS = 1
    PROVE  Spec => []Monitored
<1>1. Init => MonitoredInv
  BY DEF Init, MonitoredInv
<1>2. /\ TypeOK /\ SerialInv /\ DescriptorInv /\ MonitoredInv /\ [Next]_vars
      => MonitoredInv'
  BY MonitoredStep DEF SerialInv
<1>3. DescriptorInv /\ MonitoredInv => Monitored
  BY OneDescriptor, SerialThread DEF MonitoredInv, Monitored, Attended
<1> QED
  BY <1>1, <1>2, <1>3, TypeCorrect, SerialInvariant, SerialDescriptors, PTL
  DEF Spec

(* With one CPU no record that the kernel accepted is left unread.         *)
THEOREM SerialNothingLeftBehind ==
    ASSUME Workers = {}, NUM_PROCS = 1
    PROVE  Spec => []NothingLeftBehind
<1>1. Init => UnreadInv
  BY DEF Init, UnreadInv
<1>2. /\ TypeOK /\ SerialInv /\ DescriptorInv /\ UnreadInv /\ [Next]_vars
      => UnreadInv'
  BY UnreadStep DEF SerialInv
<1>3. DescriptorInv /\ UnreadInv => NothingLeftBehind
  BY OneDescriptor, SerialThread DEF UnreadInv, NothingLeftBehind
<1> QED
  BY <1>1, <1>2, <1>3, TypeCorrect, SerialInvariant, SerialDescriptors, PTL
  DEF Spec

----------------------------------------------------------------------------
(* What the handler may wait for.                                          *)

(* The stream has its buffer before an event can interrupt anything.       *)
StreamInv == fp # "open"

(* Every step keeps StreamInv, whatever threads there are.                 *)
LEMMA StreamStep ==
    ASSUME StreamInv, [Next]_vars
    PROVE  StreamInv'
<1> USE DEF StreamInv
<1>1. CASE InitCall
  BY <1>1
  DEF InitCall, SampleInit, StreamAfterWarmUp, SampleInitReturnsError,
     SampleInitExits, SampleInitOpen, libVars
<1>2. CASE StartAndStop
  BY <1>2
  DEF StartAndStop, StartOnError, EnterKernel, SampleStart, StopRefresh,
     StopDisable, StopClose, StopMunmap, StopCleanup, libVars
<1>3. CASE Program
  BY <1>3 DEF Program, EnterMalloc, LeaveMalloc, CallStop, libVars
<1>4. ASSUME NEW t \in Threads, Handler(t) PROVE StreamInv'
  <2>1. CASE \/ Deliver(t) \/ HandlerDisable(t) \/ HandlerReadHead(t)
             \/ HandlerRefresh(t) \/ HandlerReturn(t)
    BY <2>1
    DEF Deliver, HandlerDisable, HandlerReadHead, HandlerRefresh,
       HandlerReturn, libVars
  <2>2. CASE \/ HandlerLookup(t) \/ HandlerCopy(t) \/ HandlerParse(t)
             \/ HandlerStore(t)
    BY <2>2 DEF HandlerLookup, HandlerCopy, HandlerParse, HandlerStore
  <2> QED
    BY <1>4, <2>1, <2>2 DEF Handler
<1>5. ASSUME NEW c \in Cpu, NEW m \in RecSizes, Overflow(c, m)
      PROVE  StreamInv'
  BY <1>5 DEF Overflow, libVars
<1>6. CASE Finished \/ UNCHANGED vars
  BY <1>6 DEF Finished, vars, libVars
<1> QED
  BY <1>1, <1>2, <1>3, <1>4, <1>5, <1>6 DEF Next

(* Without user stacks to copy no handler waits for the malloc lock that   *)
(* the code it interrupts holds, in a program of any number of threads.    *)
THEOREM NoHandlerDeadlock ==
    ASSUME StackUser = FALSE
    PROVE  Spec => []NoMallocDeadlock
<1>1. Init => StreamInv
  BY DEF Init, StreamInv
<1>2. StreamInv /\ [Next]_vars => StreamInv'
  BY StreamStep
<1>3. StreamInv => NoMallocDeadlock
  BY DEF StreamInv, NoMallocDeadlock, Blocked, NeedsMalloc
<1> QED
  BY <1>1, <1>2, <1>3, PTL DEF Spec
=============================================================================
