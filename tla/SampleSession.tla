---------------------------- MODULE SampleSession ----------------------------
(***************************************************************************)
(* A sampling session of PAPI_sample.c: the program's main thread calling  *)
(* PAPI_sample_init, PAPI_sample_start and PAPI_sample_stop, the SIGIO     *)
(* handler PAPI_sample_handler with the ring-buffer half of                *)
(* perf_mmap_read, and, as the external environment, the per-CPU           *)
(* perf_event kernel objects with their mmap rings and the single,         *)
(* non-queueing SIGIO.                                                     *)
(*                                                                         *)
(* A ring holds words; the word the kernel writes at position p is p, so   *)
(* the log of a ring is right when it is 0, 1, 2, ...  What a word says is *)
(* the subject of ParseRecord.                                             *)
(***************************************************************************)
EXTENDS Integers, Sequences, FiniteSets

CONSTANTS
    NUM_PROCS,    \* get_nprocs(): one event and one ring for each CPU
    Main,         \* the thread that calls the library and is sampled
    Workers,      \* the other threads of the process ({}: a serial program)
    Fd,           \* file descriptors perf_event_open may return
    NoFd,         \* no descriptor
    MAX_MAPS,     \* length of the array mmaps (100 in the code)
    DataSize,     \* words in the data area of a ring, and in the buffer data
    RecSizes,     \* sizes in words of the records the kernel writes
    Skid,         \* an overflow interrupt may land after the thread has
                  \*   entered a system call (precise_ip = 0)
    StackUser,    \* sample_type has PERF_SAMPLE_STACK_USER
    MaxHead,      \* bound: words written to one ring
    MaxSessions   \* bound: calls of PAPI_sample_init

Cpu == 0 .. NUM_PROCS - 1
Threads == {Main} \cup Workers
Blank == -1                     \* a zeroed word

ASSUME ConstantsAssumption ==
    /\ NUM_PROCS \in Nat \ {0}
    /\ Main \notin Workers
    /\ NoFd \notin Fd
    /\ MAX_MAPS \in Nat
    /\ DataSize \in Nat \ {0}
    /\ RecSizes \subseteq Nat \ {0}
    /\ Skid \in BOOLEAN
    /\ StackUser \in BOOLEAN
    /\ MaxHead \in Nat
    /\ MaxSessions \in Nat

VARIABLES
    status,    \* "running", or how the process ended
    pc,        \* where the main thread is, when no handler interrupts it
    i,         \* its loop index
    inkernel,  \* it has entered the system call at pc
    session,   \* completed calls of PAPI_sample_stop
    arena,     \* the sampled program is inside malloc, holding its lock
    fds, heads, num_maps, our_mmap, data, fp,      \* globals of PAPI_sample.c
    log,       \* words printed to fp, by the ring they are attributed to
    open, mapped, enabled, limit,                  \* kernel: the events
    head, tail, ring,                              \* kernel: the mmap rings
    pending,   \* si_fd of the pending SIGIO
    late,      \* history: events that overflowed inside stop's DISABLE of them
    hpc, hfd, hslot, hprev, hmap, hhead            \* handler frame of a thread

mainVars == <<status, pc, i, inkernel, session, arena>>
libVars == <<fds, heads, num_maps, our_mmap, data, fp, log>>
eventVars == <<open, mapped, enabled, limit>>
ringVars == <<head, tail, ring>>
frameVars == <<hpc, hfd, hslot, hprev, hmap, hhead>>
vars == <<mainVars, libVars, eventVars, ringVars, pending, late, frameVars>>

BlankArea == [k \in 0 .. DataSize - 1 |-> Blank]

Init ==
    /\ status = "running" /\ pc = "idle" /\ i = 0
    /\ inkernel = FALSE /\ session = 0 /\ arena = FALSE
    /\ fds = [c \in Cpu |-> NoFd] /\ heads = [c \in Cpu |-> 0]
    /\ num_maps = 0 /\ our_mmap = 0
    /\ data = BlankArea /\ fp = "closed" /\ log = [c \in Cpu |-> <<>>]
    /\ open = [c \in Cpu |-> FALSE] /\ mapped = [c \in Cpu |-> FALSE]
    /\ enabled = [c \in Cpu |-> FALSE] /\ limit = [c \in Cpu |-> 0]
    /\ head = [c \in Cpu |-> 0] /\ tail = [c \in Cpu |-> 0]
    /\ ring = [c \in Cpu |-> BlankArea]
    /\ pending = NoFd /\ late = {}
    /\ hpc = [t \in Threads |-> "none"] /\ hfd = [t \in Threads |-> NoFd]
    /\ hslot = [t \in Threads |-> 0] /\ hprev = [t \in Threads |-> 0]
    /\ hmap = [t \in Threads |-> 0] /\ hhead = [t \in Threads |-> 0]

----------------------------------------------------------------------------
(* The kernel's perf events (external).                                    *)

(* The event that descriptor f is open on; an ioctl on a closed descriptor *)
(* is EBADF and changes nothing.                                           *)
IsEvent(f, c) == open[c] /\ fds[c] = f

(* ioctl(f, PERF_EVENT_IOC_DISABLE)                                        *)
IocDisable(f) ==
    /\ enabled' = [c \in Cpu |-> enabled[c] /\ ~IsEvent(f, c)]
    /\ UNCHANGED <<open, mapped, limit>>

(* ioctl(f, PERF_EVENT_IOC_ENABLE): the overflow limit is left alone; a    *)
(* limit of zero is no limit.                                              *)
IocEnable(f) ==
    /\ enabled' = [c \in Cpu |-> enabled[c] \/ IsEvent(f, c)]
    /\ UNCHANGED <<open, mapped, limit>>

(* ioctl(f, PERF_EVENT_IOC_REFRESH, n) adds n to the limit and enables.    *)
IocRefresh(f, n) ==
    /\ limit' = [c \in Cpu |-> IF IsEvent(f, c) THEN limit[c] + n ELSE limit[c]]
    /\ enabled' = [c \in Cpu |-> enabled[c] \/ IsEvent(f, c)]
    /\ UNCHANGED <<open, mapped>>

(* n words are written at position h of ring r.                            *)
Written(r, h, n) ==
    [k \in 0 .. DataSize - 1 |->
        IF \E p \in h .. h + n - 1 : p % DataSize = k
        THEN CHOOSE p \in h .. h + n - 1 : p % DataSize = k
        ELSE r[k]]

(* SIGIO is below SIGRTMIN: while one is pending another one is dropped.   *)
Raise(f) == pending' = IF pending = NoFd THEN f ELSE pending

(* The main thread is the one the events count, in user mode. A pending    *)
(* signal is taken on the way back to user mode unless the handler is      *)
(* running, which masks it.                                                *)
Counting ==
    \/ hpc[Main] # "none"
    \/ pending = NoFd /\ (inkernel => Skid)

(* The handler needs malloc: to print the first line to a stream that has  *)
(* no buffer yet, or to copy a user stack (parse_record.c). Left out are   *)
(* the callocs for strings in COMM, MMAP and MMAP2 records and the printf  *)
(* to standard output for registers without an ABI, neither of which the   *)
(* events of this library bring about.                                     *)
NeedsMalloc(t) ==
    /\ hpc[t] = "parse"
    /\ hhead[t] > hprev[t]
    /\ fp = "open" \/ StackUser

Blocked(t) == NeedsMalloc(t) /\ arena

(* History, read by properties only: the overflow of c lands inside the     *)
(* very ioctl by which PAPI_sample_stop disables c.                         *)
LateAfterOverflow(c) ==
    IF inkernel /\ pc = "disable" /\ i = c THEN late \cup {c} ELSE late

(* A counter of CPU c overflows and the kernel writes a record of n words, *)
(* or drops it when the ring has no room; at the limit the event is        *)
(* disabled. Either way the signal is raised (wakeup_events = 1).          *)
Overflow(c, n) ==
    /\ status = "running"
    /\ enabled[c] /\ Counting /\ ~Blocked(Main)
    /\ LET room == head[c] + n - tail[c] <= DataSize
       IN  /\ room => head[c] + n <= MaxHead
           /\ head' = IF room THEN [head EXCEPT ![c] = @ + n] ELSE head
           /\ ring' = IF room THEN [ring EXCEPT ![c] = Written(@, head[c], n)]
                              ELSE ring
    /\ limit' = [limit EXCEPT ![c] = IF @ > 0 THEN @ - 1 ELSE 0]
    /\ enabled' = [enabled EXCEPT ![c] = limit[c] # 1]
    /\ Raise(fds[c])
    /\ late' = LateAfterOverflow(c)
    /\ UNCHANGED <<mainVars, libVars, open, mapped, tail, frameVars>>

----------------------------------------------------------------------------
(* The main thread.                                                        *)

(* It executes user code: no handler on top of it and no signal to take.   *)
MainRuns == status = "running" /\ hpc[Main] = "none" /\ pending = NoFd

(* System calls that meet live events are two steps, entry and effect, for *)
(* an interrupt to land between them.                                      *)
SyscallAt == {"enable", "refresh", "disable", "close", "munmap"}

EnterKernel ==
    /\ MainRuns /\ ~inkernel /\ pc \in SyscallAt
    /\ pc = "munmap" => i < num_maps
    /\ inkernel' = TRUE
    /\ UNCHANGED <<status, pc, i, session, arena, libVars, eventVars, ringVars,
                   pending, late, frameVars>>

InKernelAt(l) ==
    status = "running" /\ hpc[Main] = "none" /\ inkernel /\ pc = l

(* The loop over the CPUs goes on at l, or leaves for next at its end.     *)
Advance(l, next) ==
    /\ i' = IF i + 1 < NUM_PROCS THEN i + 1 ELSE 0
    /\ pc' = IF i + 1 < NUM_PROCS THEN l ELSE next

(* PAPI_sample_init up to the loop: the log file is truncated, the line    *)
(* printed to it gives the stream its buffer, fds and heads are allocated. *)
NoWarmUp == "open"                        \* mutant: the line is not printed

StreamAfterWarmUp == "buffered"

SampleInit ==
    /\ MainRuns /\ pc = "idle" /\ session < MaxSessions
    /\ pc' = "open" /\ i' = 0
    /\ data' = BlankArea /\ fp' = StreamAfterWarmUp
    /\ log' = [c \in Cpu |-> <<>>]
    /\ fds' = [c \in Cpu |-> NoFd] /\ heads' = [c \in Cpu |-> 0]
    /\ UNCHANGED <<status, inkernel, session, arena, num_maps, our_mmap,
                   eventVars, ringVars, pending, late, frameVars>>

(* malloc of data fails: init returns -1, which the driver does not check, *)
(* and start dereferences it. The other return -1, for a machine without a *)
(* CPU, is never taken.                                                    *)
SampleInitReturnsError ==
    /\ MainRuns /\ pc = "idle" /\ session < MaxSessions
    /\ pc' = "start_on_error"
    /\ UNCHANGED <<status, i, inkernel, session, arena, libVars, eventVars,
                   ringVars, pending, late, frameVars>>

StartOnError ==
    /\ MainRuns /\ pc = "start_on_error"
    /\ status' = "bad_fds"
    /\ UNCHANGED <<pc, i, inkernel, session, arena, libVars, eventVars,
                   ringVars, pending, late, frameVars>>

(* Every other failure of init (the file, fds or heads, sigaction, the     *)
(* event encoding, both attempts to open, mmap) exits.                     *)
SampleInitExits ==
    /\ MainRuns
    /\ pc = "open" \/ (pc = "idle" /\ session < MaxSessions)
    /\ status' = "exited"
    /\ UNCHANGED <<pc, i, inkernel, session, arena, libVars, eventVars,
                   ringVars, pending, late, frameVars>>

(* One turn of the loop of PAPI_sample_init: perf_event_open on CPU i of a *)
(* disabled event, mmap of its zeroed ring, mmaps[i], num_maps++, fcntl.   *)
CountMap == num_maps + 1

SampleInitOpen(f) ==
    /\ MainRuns /\ pc = "open"
    /\ \A c \in Cpu : ~IsEvent(f, c)
    /\ fds' = [fds EXCEPT ![i] = f]
    /\ num_maps' = CountMap
    /\ open' = [open EXCEPT ![i] = TRUE]
    /\ mapped' = [mapped EXCEPT ![i] = TRUE]
    /\ limit' = [limit EXCEPT ![i] = 0]
    /\ head' = [head EXCEPT ![i] = 0]
    /\ tail' = [tail EXCEPT ![i] = 0]
    /\ ring' = [ring EXCEPT ![i] = BlankArea]
    /\ Advance("open", "enable")
    /\ status' = IF i < MAX_MAPS THEN status ELSE "overrun"
    /\ UNCHANGED <<inkernel, session, arena, heads, our_mmap, data, fp,
                   log, enabled, pending, late, frameVars>>

(* PAPI_sample_start: RESET (the count, not modelled) and ENABLE.          *)
SampleStart ==
    /\ InKernelAt("enable")
    /\ IocEnable(fds[i])
    /\ Advance("enable", "work")
    /\ inkernel' = FALSE
    /\ UNCHANGED <<status, session, arena, libVars, ringVars, pending, late,
                   frameVars>>

(* The sampled program, which may be anywhere in malloc when a signal      *)
(* comes, and then calls PAPI_sample_stop.                                 *)
EnterMalloc ==
    /\ MainRuns /\ pc = "work" /\ ~arena
    /\ arena' = TRUE
    /\ UNCHANGED <<status, pc, i, inkernel, session, libVars, eventVars,
                   ringVars, pending, late, frameVars>>

LeaveMalloc ==
    /\ MainRuns /\ pc = "work" /\ arena
    /\ arena' = FALSE
    /\ UNCHANGED <<status, pc, i, inkernel, session, libVars, eventVars,
                   ringVars, pending, late, frameVars>>

CallStop ==
    /\ MainRuns /\ pc = "work" /\ ~arena
    /\ pc' = "refresh" /\ i' = 0 /\ late' = {}
    /\ UNCHANGED <<status, inkernel, session, arena, libVars, eventVars,
                   ringVars, pending, frameVars>>

(* PAPI_sample_stop, first loop: REFRESH 0, which enables, then DISABLE.   *)
StopRefresh ==
    /\ InKernelAt("refresh")
    /\ IocRefresh(fds[i], 0)
    /\ pc' = "disable" /\ inkernel' = FALSE
    /\ UNCHANGED <<status, i, session, arena, libVars, ringVars, pending, late,
                   frameVars>>

(* Mutant: the DISABLE after the REFRESH is forgotten.                     *)
StopForgetsDisable ==
    /\ InKernelAt("disable")
    /\ Advance("refresh", "close")
    /\ inkernel' = FALSE
    /\ UNCHANGED <<status, session, arena, libVars, eventVars, ringVars,
                   pending, late, frameVars>>

StopDisable ==
    /\ InKernelAt("disable")
    /\ IocDisable(fds[i])
    /\ Advance("refresh", "close")
    /\ inkernel' = FALSE
    /\ UNCHANGED <<status, session, arena, libVars, ringVars, pending, late,
                   frameVars>>

(* Second loop: close. The mapping keeps the file, and so the event and    *)
(* its signals, alive.                                                     *)
StopClose ==
    /\ InKernelAt("close")
    /\ open' = [c \in Cpu |-> open[c] /\ fds[c] # fds[i]]
    /\ Advance("close", "munmap")
    /\ inkernel' = FALSE
    /\ UNCHANGED <<status, session, arena, libVars, mapped, enabled, limit,
                   ringVars, pending, late, frameVars>>

(* Third loop, over num_maps: munmap frees the event of a closed           *)
(* descriptor. An entry that no init of this process has filled is NULL,   *)
(* with nothing mapped there.                                              *)
StopMunmap ==
    /\ InKernelAt("munmap")
    /\ mapped' = [c \in Cpu |-> mapped[c] /\ c # i]
    /\ enabled' = [c \in Cpu |-> enabled[c] /\ (c # i \/ open[c])]
    /\ i' = i + 1 /\ inkernel' = FALSE
    /\ status' = IF i < MAX_MAPS THEN status ELSE "overrun"
    /\ UNCHANGED <<pc, session, arena, libVars, open, limit, ringVars, pending,
                   late, frameVars>>

(* fclose(fp); free(fds); free(heads); free(data)                          *)
StopCleanup ==
    /\ MainRuns /\ ~inkernel /\ pc = "munmap" /\ i >= num_maps
    /\ fp' = "closed"
    /\ pc' = "idle" /\ i' = 0 /\ session' = session + 1
    /\ UNCHANGED <<status, inkernel, arena, fds, heads, num_maps, our_mmap,
                   data, log, eventVars, ringVars, pending, late, frameVars>>

----------------------------------------------------------------------------
(* PAPI_sample_handler, on thread t; SIGIO is masked in t until it         *)
(* returns (sigaction without SA_NODEFER).                                 *)

At(t, l) == status = "running" /\ hpc[t] = l

Goto(t, l) == hpc' = [hpc EXCEPT ![t] = l]

Deliver(t) ==
    /\ At(t, "none") /\ pending # NoFd
    /\ t = Main => ~inkernel
    /\ pending' = NoFd
    /\ hfd' = [hfd EXCEPT ![t] = pending]
    /\ Goto(t, "disable")
    /\ UNCHANGED <<mainVars, libVars, eventVars, ringVars, late, hslot, hprev,
                   hmap, hhead>>

HandlerDisable(t) ==
    /\ At(t, "disable")
    /\ IocDisable(hfd[t])
    /\ Goto(t, "lookup")
    /\ UNCHANGED <<mainVars, libVars, ringVars, pending, late, hfd, hslot,
                   hprev, hmap, hhead>>

(* Mutant: the search ends one entry early.                                *)
MatchesShort(f) == {c \in Cpu : c < num_maps - 1 /\ fds[c] = f}

(* The entry of mmaps the search stops at: its fd field points into fds.   *)
Matches(f) == {c \in Cpu : /\ c < num_maps /\ fds[c] = f
                           /\ \A d \in Cpu : d < c => fds[d] # f}

MapOf(c) == c                        \* mmaps[i].sample_mmap

HandlerLookup(t) ==
    /\ At(t, "lookup")
    /\ IF fp # "closed" /\ Matches(hfd[t]) # {}
       THEN \E c \in Matches(hfd[t]) :
              /\ hslot' = [hslot EXCEPT ![t] = c]
              /\ hprev' = [hprev EXCEPT ![t] = heads[c]]
              /\ our_mmap' = MapOf(c)
              /\ Goto(t, "read_head")
              /\ UNCHANGED status
       ELSE /\ status' = IF fp = "closed" THEN "stale_access" ELSE "no_map"
            /\ UNCHANGED <<hslot, hprev, our_mmap, hpc>>
    /\ UNCHANGED <<pc, i, inkernel, session, arena, fds, heads, num_maps, data,
                   fp, log, eventVars, ringVars, pending, late, hfd, hmap,
                   hhead>>

(* perf_mmap_read is called with the global our_mmap and reads data_head.  *)
HandlerReadHead(t) ==
    /\ At(t, "read_head")
    /\ IF mapped[our_mmap] /\ fp # "closed"
       THEN /\ hmap' = [hmap EXCEPT ![t] = our_mmap]
            /\ hhead' = [hhead EXCEPT ![t] = head[our_mmap]]
            /\ Goto(t, "copy")
            /\ UNCHANGED status
       ELSE /\ status' = "stale_access"
            /\ UNCHANGED <<hmap, hhead, hpc>>
    /\ UNCHANGED <<pc, i, inkernel, session, arena, libVars, eventVars,
                   ringVars, pending, late, hfd, hslot, hprev>>

(* The two memcpys: from prev_head to the end of the data area, then the   *)
(* wrapped part.                                                           *)
CopiedFromStart(r, prev) == r           \* mutant: one memcpy, no wrap

Copied(r, prev) ==
    LET wrap == prev % DataSize
    IN  [k \in 0 .. DataSize - 1 |->
            IF k < DataSize - wrap THEN r[wrap + k]
                                   ELSE r[k - (DataSize - wrap)]]

HandlerCopy(t) ==
    /\ At(t, "copy")
    /\ IF mapped[hmap[t]] /\ fp # "closed"
       THEN /\ data' = Copied(ring[hmap[t]], hprev[t])
            /\ Goto(t, "parse")
            /\ UNCHANGED status
       ELSE /\ status' = "stale_access"
            /\ UNCHANGED <<data, hpc>>
    /\ UNCHANGED <<pc, i, inkernel, session, arena, fds, heads, num_maps,
                   our_mmap, fp, log, eventVars, ringVars, pending, late, hfd,
                   hslot, hprev, hmap, hhead>>

(* The words of data the loop prints: size of them, none if size <= 0. A   *)
(* size beyond the buffer is only warned about, and overreads it.          *)
PrintedShort(d, size) == [k \in 1 .. size - 1 |-> d[k - 1]]   \* mutant

Printed(d, size) == [k \in 1 .. size |-> d[k - 1]]

(* data_tail as perf_mmap_read leaves it: the head it started from.        *)
TailNotMoved(t) == hprev[t]          \* mutant: the head of the last call

TailToStore(t) == hhead[t]

ParseStatus(t) ==
    IF ~mapped[hmap[t]] \/ fp = "closed" THEN "stale_access"
    ELSE IF hhead[t] - hprev[t] > DataSize THEN "overread"
    ELSE "running"

(* The parsing loop, memset(data), data_tail = head, return head.          *)
HandlerParse(t) ==
    /\ At(t, "parse") /\ ~Blocked(t)
    /\ status' = ParseStatus(t)
    /\ IF ParseStatus(t) = "running"
       THEN /\ log' = [log EXCEPT ![hslot[t]] =
                          @ \o Printed(data, hhead[t] - hprev[t])]
            /\ data' = BlankArea
            /\ tail' = [tail EXCEPT ![hmap[t]] = TailToStore(t)]
            /\ Goto(t, "store")
       ELSE UNCHANGED <<log, data, tail, hpc>>
    /\ UNCHANGED <<pc, i, inkernel, session, arena, fds, heads, num_maps,
                   our_mmap, fp, eventVars, head, ring, pending, late, hfd,
                   hslot, hprev, hmap, hhead>>

HeadError(t) == -1                   \* mutant: an error return is stored
HeadNotMoved(t) == hprev[t]          \* mutant: the result is not stored

HeadToStore(t) == hhead[t]           \* the value perf_mmap_read returns

(* *(mmaps[i].prev_head) = prev_head                                       *)
HandlerStore(t) ==
    /\ At(t, "store")
    /\ IF fp # "closed"
       THEN /\ heads' = [heads EXCEPT ![hslot[t]] = HeadToStore(t)]
            /\ Goto(t, "refresh")
            /\ UNCHANGED status
       ELSE /\ status' = "stale_access"
            /\ UNCHANGED <<heads, hpc>>
    /\ UNCHANGED <<pc, i, inkernel, session, arena, fds, num_maps, our_mmap,
                   data, fp, log, eventVars, ringVars, pending, late, hfd,
                   hslot, hprev, hmap, hhead>>

RefreshByTwo == 2                    \* mutant

RefreshBy == 1                       \* argument of PERF_EVENT_IOC_REFRESH

(* Mutant: the counters are not re-enabled.                                *)
HandlerForgetsRefresh(t) ==
    /\ At(t, "refresh")
    /\ Goto(t, "return")
    /\ UNCHANGED <<mainVars, libVars, eventVars, ringVars, pending, late, hfd,
                   hslot, hprev, hmap, hhead>>

HandlerRefresh(t) ==
    /\ At(t, "refresh")
    /\ IocRefresh(hfd[t], RefreshBy)
    /\ Goto(t, "return")
    /\ UNCHANGED <<mainVars, libVars, ringVars, pending, late, hfd, hslot,
                   hprev, hmap, hhead>>

HandlerReturn(t) ==
    /\ At(t, "return")
    /\ Goto(t, "none")
    /\ hfd' = [hfd EXCEPT ![t] = NoFd] /\ hslot' = [hslot EXCEPT ![t] = 0]
    /\ hprev' = [hprev EXCEPT ![t] = 0] /\ hmap' = [hmap EXCEPT ![t] = 0]
    /\ hhead' = [hhead EXCEPT ![t] = 0]
    /\ UNCHANGED <<mainVars, libVars, eventVars, ringVars, pending, late>>

----------------------------------------------------------------------------
Handler(t) ==
    \/ Deliver(t)        \/ HandlerDisable(t) \/ HandlerLookup(t)
    \/ HandlerReadHead(t) \/ HandlerCopy(t)   \/ HandlerParse(t)
    \/ HandlerStore(t)   \/ HandlerRefresh(t) \/ HandlerReturn(t)

InitCall ==
    \/ SampleInit \/ SampleInitReturnsError \/ SampleInitExits
    \/ \E f \in Fd : SampleInitOpen(f)

StartAndStop ==
    \/ StartOnError \/ EnterKernel \/ SampleStart
    \/ StopRefresh \/ StopDisable \/ StopClose \/ StopMunmap \/ StopCleanup

Program == EnterMalloc \/ LeaveMalloc \/ CallStop

Finished ==
    /\ status # "running" \/ (pc = "idle" /\ session = MaxSessions)
    /\ UNCHANGED vars

Next ==
    \/ InitCall \/ StartAndStop \/ Program
    \/ \E t \in Threads : Handler(t)
    \/ \E c \in Cpu, n \in RecSizes : Overflow(c, n)
    \/ Finished

Spec == Init /\ [][Next]_vars

(* The scheduler runs the main thread and its handlers, and the program    *)
(* that is sampled ends: its work is finite and it leaves malloc. Nothing  *)
(* is assumed of overflows.                                                *)
Fairness ==
    /\ WF_vars(InitCall) /\ WF_vars(StartAndStop)
    /\ WF_vars(LeaveMalloc) /\ SF_vars(CallStop)
    /\ \A t \in Threads : WF_vars(Handler(t))

FairSpec == Spec /\ Fairness

----------------------------------------------------------------------------
(* Properties.                                                             *)

Statuses == {"running", "exited", "bad_fds", "no_map", "stale_access",
             "overread", "overrun"}
MainAt == {"idle", "start_on_error", "open", "work"} \cup SyscallAt
HandlerAt == {"none", "disable", "lookup", "read_head", "copy", "parse",
              "store", "refresh", "return"}
Area == [0 .. DataSize - 1 -> Int]

MainTypeOK ==
    /\ status \in Statuses /\ pc \in MainAt /\ i \in Nat
    /\ inkernel \in BOOLEAN /\ session \in Nat /\ arena \in BOOLEAN

LibTypeOK ==
    /\ fds \in [Cpu -> Fd \cup {NoFd}] /\ heads \in [Cpu -> Nat]
    /\ num_maps \in Nat /\ our_mmap \in Cpu
    /\ data \in Area /\ fp \in {"closed", "open", "buffered"}
    /\ log \in [Cpu -> Seq(Int)]

EventTypeOK ==
    /\ open \in [Cpu -> BOOLEAN] /\ mapped \in [Cpu -> BOOLEAN]
    /\ enabled \in [Cpu -> BOOLEAN] /\ limit \in [Cpu -> Nat]
    /\ pending \in Fd \cup {NoFd} /\ late \subseteq Cpu

RingTypeOK ==
    /\ head \in [Cpu -> Nat] /\ tail \in [Cpu -> Nat]
    /\ ring \in [Cpu -> Area]

FrameTypeOK ==
    /\ hpc \in [Threads -> HandlerAt] /\ hfd \in [Threads -> Fd \cup {NoFd}]
    /\ hslot \in [Threads -> Cpu] /\ hprev \in [Threads -> Nat]
    /\ hmap \in [Threads -> Cpu] /\ hhead \in [Threads -> Nat]

(* The variables have their types: in particular every index the handler   *)
(* keeps is that of a CPU.                                                 *)
TypeOK ==
    MainTypeOK /\ LibTypeOK /\ EventTypeOK /\ RingTypeOK /\ FrameTypeOK

(* What perf_mmap_read has printed of a ring is every word the kernel      *)
(* wrote up to data_tail, each once and in the order written, whatever     *)
(* interrupts and wrap-arounds there were.                                 *)
LogExact ==
    \A c \in Cpu : mapped[c] => log[c] = [k \in 1 .. tail[c] |-> k - 1]

(* The log argument for serial programs, as one inductive invariant.       *)
BeforeStart == pc \in {"idle", "start_on_error", "open"}

(* What the main thread's place says about the events: before start none   *)
(* is enabled and no signal is about; the loops of init, of close and of   *)
(* munmap have dealt with the CPUs below i; an open or enabled event has   *)
(* its ring; init gives a CPU no ring before its log and head are zero.    *)
PhaseInv ==
    /\ BeforeStart => /\ pending = NoFd /\ hpc[Main] = "none"
                      /\ \A c \in Cpu : ~enabled[c]
    /\ pc \in {"idle", "start_on_error"} =>
           \A c \in Cpu : ~mapped[c] /\ ~open[c]
    /\ pc = "open" =>
           /\ i \in Cpu /\ num_maps >= i
           /\ \A c \in Cpu : c >= i => /\ ~mapped[c] /\ heads[c] = 0
                                       /\ log[c] = <<>>
    /\ pc = "close" => i \in Cpu /\ \A c \in Cpu : c < i => ~open[c]
    /\ pc = "munmap" => /\ \A c \in Cpu : ~open[c]
                        /\ \A c \in Cpu : c < i => ~mapped[c]
    /\ pc \in {"enable", "refresh", "disable"} => i \in Cpu
    /\ ~BeforeStart => num_maps >= NUM_PROCS
    /\ \A c \in Cpu : open[c] \/ enabled[c] => mapped[c]

(* A ring holds its unread words, each where its position says.            *)
RingInv ==
    \A c \in Cpu :
        /\ tail[c] <= head[c] /\ head[c] <= tail[c] + DataSize
        /\ head[c] <= MaxHead
        /\ \A p \in tail[c] .. head[c] - 1 : ring[c][p % DataSize] = p

(* What is logged is what is before data_tail; the private copy of the     *)
(* tail in heads agrees with it unless a handler is about to store it.     *)
LogInv ==
    \A c \in Cpu : mapped[c] =>
        /\ log[c] = [k \in 1 .. tail[c] |-> k - 1]
        /\ (hpc[Main] = "store" /\ hslot[Main] = c) \/ heads[c] = tail[c]

(* The handler's locals match the ring it works on.                        *)
FrameInv ==
    LET c == hslot[Main]
        size == hhead[Main] - hprev[Main]
    IN  /\ hpc[Main] = "read_head" => our_mmap = c /\ hprev[Main] = heads[c]
        /\ hpc[Main] \in {"copy", "parse", "store"} =>
               hmap[Main] = c /\ mapped[c] /\ hhead[Main] <= head[c]
        /\ hpc[Main] \in {"copy", "parse"} =>
               hprev[Main] = tail[c] /\ 0 <= size /\ size <= DataSize
        /\ hpc[Main] = "parse" =>
               \A k \in 0 .. size - 1 : data[k] = hprev[Main] + k
        /\ hpc[Main] = "store" => tail[c] = hhead[Main]

(* With one thread the library's copy of every ring, its heads and the     *)
(* handler's locals stay consistent with the kernel's ring at every step.  *)
SerialInv == PhaseInv /\ RingInv /\ LogInv /\ FrameInv

(* The library touches no memory that is not its own: no handler finds its *)
(* ring unmapped, fds and heads freed or fp closed, none misses its entry  *)
(* of mmaps, no loop runs beyond mmaps and no copy is read beyond data.    *)
MemorySafe == status \in {"running", "exited", "bad_fds"}

(* The same with interrupts that skid: the one way a handler meets memory  *)
(* that stop has given back is the signal of an event that overflowed      *)
(* inside stop's DISABLE of it; its handler re-enabled the event, which    *)
(* overflowed again while stop unmapped the rings.                         *)
MemorySafeUnlessLate ==
    \/ MemorySafe
    \/ /\ status = "stale_access"
       /\ \E c \in late : fds[c] = hfd[Main] /\ ~mapped[c]

(* Once PAPI_sample_stop has left its first loop the only events that can  *)
(* be enabled are those that overflowed inside their own DISABLE: every    *)
(* other handler that refreshes an event has done so before that DISABLE.  *)
StoppedUnlessLate ==
    status = "running" /\ pc \in {"close", "munmap"}
        => \A c \in Cpu : enabled[c] => c \in late

(* A handler on the main thread never waits for the malloc lock that the   *)
(* code it interrupts holds, provided that no user stacks are sampled      *)
(* (StackUser): the copy of one is malloc'ed in the handler.               *)
NoMallocDeadlock == ~Blocked(Main)

(* Event c is under control of the sampling loop: it counts, or a signal   *)
(* or a handler that will refresh it is on its way.                        *)
Attended(c) ==
    \/ enabled[c]
    \/ pending = fds[c]
    \/ \E t \in Threads : hpc[t] # "none" /\ hfd[t] = fds[c]

(* While the sampled program works every CPU's event is monitored.         *)
Monitored ==
    status = "running" /\ pc = "work" => \A c \in Cpu : Attended(c)

(* The handlers' refreshes do not pile up: once an overflow limit is in    *)
(* force at most two more records are taken before the event stops and     *)
(* waits for a handler.                                                    *)
LimitBounded == \A c \in Cpu : limit[c] <= 2

(* No record the kernel accepted is left behind: a ring whose words are    *)
(* not all logged has a signal or a handler that will read it, and so      *)
(* stop, which unmaps it, loses nothing.                                   *)
NothingLeftBehind ==
    \A c \in Cpu :
        mapped[c] /\ tail[c] < head[c] /\ status = "running"
            => \/ pending = fds[c]
               \/ \E t \in Threads : hpc[t] # "none" /\ hfd[t] = fds[c]

(* The session implements SampleLog: with the rings' heads as the words   *)
(* accepted and the file as the words reported, every step of the library, *)
(* the handler and the kernel is one of the abstract log's, or none.       *)
Abstract == INSTANCE SampleLog WITH
    LogCpu <- Cpu, MaxAccepted <- MaxHead, accepted <- head, reported <- log

ImplementsSampleLog == Abstract!LogSpec

(* Every word the kernel accepted is eventually logged.                    *)
EveryWordLogged ==
    \A c \in Cpu : \A p \in 0 .. MaxHead - 1 :
        mapped[c] /\ head[c] > p ~> Len(log[c]) > p

(* A call of PAPI_sample_stop returns, however the signals that are still  *)
(* to come (finitely many, MaxHead bounds the words) interrupt it.         *)
StopReturns == pc = "refresh" ~> pc = "idle"
=============================================================================
