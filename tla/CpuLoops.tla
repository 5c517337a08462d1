------------------------------- MODULE CpuLoops -------------------------------
(***************************************************************************)
(* NUM_PROCS is a call of get_nprocs(): every turn of every loop of        *)
(* PAPI_sample_init, _start and _stop asks again how many CPUs are online, *)
(* and takes the loop index for the number of a CPU. This module models    *)
(* the loops next to a set of online CPUs that may change.                 *)
(***************************************************************************)
EXTENDS Integers, FiniteSets

CONSTANTS
    MaxCpu,          \* CPUs the machine can have
    MaxSessions      \* bound: calls of init

ASSUME CpuAssumption ==
    MaxCpu \in Nat \ {0} /\ MaxSessions \in Nat

VARIABLES
    online,     \* the CPUs that are online
    pc,         \* the loop the main thread is in
    i,          \* its index
    alloc,      \* entries allocated in fds and heads
    fds,        \* which CPU's event an entry of fds holds, or NoFd
    open,       \* kernel: CPUs whose (last) event has an open descriptor
    enabled,    \* kernel: CPUs whose (last) event counts
    maps,       \* mapped rings: entries of mmaps
    num_maps,   \* global num_maps
    sessions,   \* calls of init so far
    grew,       \* history: a CPU came online in this session
    fell        \* history: a CPU went offline in this or an earlier session

libVars == <<pc, i, alloc, fds, open, enabled, maps, num_maps, sessions>>
history == <<grew, fell>>
vars == <<online, libVars, history>>

Cpus == 0 .. MaxCpu - 1
NoFd == -1
NoFds == [k \in Cpus |-> NoFd]

nprocs == Cardinality(online)

(* Any set of CPUs with the boot CPU, which stays.                         *)
OnlineSets == {s \in SUBSET Cpus : 0 \in s}

Init ==
    /\ online \in OnlineSets
    /\ pc = "idle" /\ i = 0 /\ alloc = 0 /\ fds = NoFds
    /\ open = {} /\ enabled = {} /\ maps = {} /\ num_maps = 0 /\ sessions = 0
    /\ grew = FALSE /\ fell = FALSE

(* A CPU goes offline or comes online. Events belong to the task: they     *)
(* stay open, and enabled, for when it runs on that CPU.                   *)
Hotplug ==
    /\ pc \notin {"out_of_bounds", "exited"}
    /\ \E c \in Cpus :
          \/ /\ c \notin online /\ online' = online \cup {c}
             /\ grew' = (grew \/ pc # "idle") /\ UNCHANGED fell
          \/ /\ c \in online \ {0} /\ online' = online \ {c}
             /\ fell' = (fell \/ pc # "idle") /\ UNCHANGED grew
    /\ UNCHANGED libVars

SpareEntry == nprocs + 1               \* mutant: one entry too many

(* NUM_CORES = get_nprocs(); malloc and calloc of the arrays.              *)
Entries == nprocs

SampleInit ==
    /\ pc = "idle" /\ sessions < MaxSessions
    /\ alloc' = Entries /\ fds' = NoFds
    /\ pc' = "opening" /\ i' = 0
    /\ sessions' = sessions + 1 /\ grew' = FALSE
    /\ UNCHANGED <<online, open, enabled, maps, num_maps, fell>>

InLoopTooFar(n) == i <= n              \* mutants: <= for <, and one too few
InLoopShort(n) == i + 1 < n

InLoop(n) == i < n

(* The entry of fds that turn i uses exists and has been filled.           *)
Stray == i >= alloc \/ fds[i] = NoFd

(* Mutant: a CPU that is offline is waited for.                            *)
OpenTurnWaits ==
    /\ pc = "opening" /\ InLoop(nprocs) /\ i < alloc /\ i \in online
    /\ fds' = [fds EXCEPT ![i] = i]
    /\ open' = open \cup {i} /\ maps' = maps \cup {i}
    /\ num_maps' = num_maps + 1 /\ i' = i + 1
    /\ UNCHANGED <<online, pc, alloc, enabled, sessions, history>>

(* The loop of init: entry i of fds gets the event of CPU i. The open of   *)
(* an offline CPU's event is refused or not, as the kernel's version has   *)
(* it; test_fail ends the program when it is.                              *)
OpenTurn ==
    /\ pc = "opening" /\ InLoop(nprocs)
    /\ \/ /\ i < alloc
          /\ fds' = [fds EXCEPT ![i] = i]
          /\ open' = open \cup {i} /\ enabled' = enabled \ {i}
          /\ maps' = maps \cup {i} /\ num_maps' = num_maps + 1
          /\ i' = i + 1
          /\ UNCHANGED pc
       \/ /\ i >= alloc /\ pc' = "out_of_bounds"
          /\ UNCHANGED <<i, fds, open, enabled, maps, num_maps>>
       \/ /\ i < alloc /\ i \notin online /\ pc' = "exited"
          /\ UNCHANGED <<i, fds, open, enabled, maps, num_maps>>
    /\ UNCHANGED <<online, alloc, sessions, history>>

(* One turn of the loops of start and stop.                                *)
Turn(loop, effect) ==
    /\ pc = loop /\ InLoop(nprocs)
    /\ IF Stray
       THEN pc' = "out_of_bounds" /\ UNCHANGED <<i, open, enabled>>
       ELSE i' = i + 1 /\ effect /\ UNCHANGED pc
    /\ UNCHANGED <<online, alloc, fds, maps, num_maps, sessions, history>>

EnableTurn ==
    Turn("enabling", enabled' = enabled \cup {fds[i]} /\ UNCHANGED open)

DisableTurn ==
    Turn("disabling", enabled' = enabled \ {fds[i]} /\ UNCHANGED open)

(* The last reference of an open event is its mapping.                     *)
CloseTurn ==
    Turn("closing", open' = open \ {fds[i]} /\ UNCHANGED enabled)

(* A loop is left when i is no longer below the number of CPUs online now. *)
Leave(loop, next) ==
    /\ pc = loop /\ ~InLoop(nprocs)
    /\ pc' = next /\ i' = 0
    /\ UNCHANGED <<online, alloc, fds, open, enabled, maps, num_maps, sessions,
                   history>>

OpenEnds == Leave("opening", "enabling")
EnableEnds == Leave("enabling", "sampling")
DisableEndsStop == Leave("disabling", "unmapping")   \* mutant: no close
DisableEnds == Leave("disabling", "closing")
CloseEnds == Leave("closing", "unmapping")

CallStop ==
    /\ pc = "sampling" /\ pc' = "disabling"
    /\ UNCHANGED <<online, i, alloc, fds, open, enabled, maps, num_maps,
                   sessions, history>>

UnmapOnline(n) == 0 .. nprocs - 1      \* mutant: NUM_PROCS here too
UnmapTo(n) == 0 .. n - 1

(* The loop over num_maps, which is not asked for again, and the frees. An *)
(* event whose descriptor is closed too is gone. The loop reads nothing    *)
(* that changes under it, so it is one step. Left out are the munmaps of   *)
(* addresses that an earlier session with more CPUs has left in mmaps, and *)
(* of zero behind them (num_maps is never reset), which release no ring of *)
(* this session, and the 100 entries of mmaps (SampleSession has them).    *)
Unmap ==
    /\ pc = "unmapping"
    /\ maps' = maps \ UnmapTo(num_maps)
    /\ enabled' = enabled \cap open
    /\ fds' = NoFds /\ alloc' = 0
    /\ pc' = "idle"
    /\ UNCHANGED <<online, i, open, num_maps, sessions, history>>

Finished ==
    \/ pc \in {"out_of_bounds", "exited"}
    \/ pc = "idle" /\ sessions = MaxSessions

Library ==
    \/ OpenTurn \/ OpenEnds \/ EnableTurn \/ EnableEnds
    \/ DisableTurn \/ DisableEnds \/ CloseTurn \/ CloseEnds \/ Unmap

Next ==
    \/ Hotplug \/ SampleInit \/ CallStop \/ Library
    \/ Finished /\ UNCHANGED vars

(* The thread runs on through the calls of the library.                    *)
Spec == Init /\ [][Next]_vars /\ WF_vars(Library)

----------------------------------------------------------------------------
(* Properties.                                                             *)

(* The variables have their types.                                         *)
TypeOK ==
    /\ online \in OnlineSets /\ i \in 0 .. MaxCpu /\ alloc \in 0 .. MaxCpu
    /\ pc \in {"idle", "opening", "enabling", "sampling", "disabling",
               "closing", "unmapping", "out_of_bounds", "exited"}
    /\ fds \in [Cpus -> Cpus \cup {NoFd}]
    /\ open \subseteq Cpus /\ enabled \subseteq Cpus /\ maps \subseteq Cpus
    /\ num_maps \in 0 .. MaxSessions * MaxCpu /\ sessions \in 0 .. MaxSessions
    /\ grew \in BOOLEAN /\ fell \in BOOLEAN

(* While the program is sampled, the event of every CPU it can run on      *)
(* counts, also when CPUs have gone offline on the way: as long as none has*)
(* come online in the session, and no CPU below an online one is offline   *)
(* (the loops take the number of CPUs for the first number that is free).  *)
EveryCpuMonitored ==
    pc = "sampling" /\ ~grew /\ online = 0 .. nprocs - 1 =>
        \A c \in online : fds[c] = c /\ c \in enabled

(* The loops stay within the arrays that init has allocated, and use only  *)
(* descriptors that init has opened, in every session in which no CPU comes*)
(* online, whichever go offline.                                           *)
WithinArrays == pc = "out_of_bounds" => grew

(* Between sessions no descriptor is open and no event enabled: the loops  *)
(* of stop, which ask for the number of CPUs again, reach all that those of*)
(* init and start have reached, unless a CPU has gone offline in a session.*)
AllReleased == pc = "idle" /\ ~fell => open = {} /\ enabled = {}

(* The same for the mappings, whose loop counts what was mapped, and always*)
MappingsReleased == pc = "idle" => maps = {}

(* However CPUs come and go, no loop goes on for ever: start and stop      *)
(* return, or the program has ended.                                       *)
LoopsEnd ==
    pc \notin {"idle", "sampling"} ~>
        pc \in {"idle", "sampling", "out_of_bounds", "exited"}
=============================================================================
