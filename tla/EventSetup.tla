------------------------------ MODULE EventSetup ------------------------------
(***************************************************************************)
(* How PAPI_sample_init makes an event for every CPU: new_setup_perf asks  *)
(* libpfm to encode the caller's event name, capital_latency_event rewrites*)
(* the name in place and looks it up in a table when libpfm does not know  *)
(* it, and perf_event_open is retried without branches when it fails.      *)
(*                                                                         *)
(* The name is the caller's string: what one CPU's turn of the loop writes *)
(* into it is what the next turn, and the next session, reads.             *)
(***************************************************************************)
EXTENDS Integers

CONSTANTS
    NumCpus,       \* get_nprocs()
    Calls,         \* the calls of init: records of a name and sample fields
    Encodable,     \* events libpfm encodes
    WithLatency,   \* events whose name contains "latency"
    Unreliable,    \* sample types whose open may fail though it is valid
    RegsMask,      \* the registers new_setup_perf asks for
    MaxSessions    \* bound: calls of init

Fields == {"IP", "READ", "CPU", "DATA_SRC", "REGS_INTR", "BRANCH_STACK"}

EventNames == {"none"} \cup {call.name.event : call \in Calls}

Names ==
    [event : EventNames, upper : BOOLEAN, sep : {".", ":"}, rest : BOOLEAN]

ASSUME SetupAssumption ==
    /\ NumCpus \in Nat \ {0} /\ MaxSessions \in Nat
    /\ RegsMask # {}
    /\ Calls \subseteq [name : Names, fields : SUBSET Fields]

VARIABLES
    pc,        \* "idle", "encode", "open", "retry", "sampling", "exited"
    i,         \* loop index: the CPU whose event is being made
    name,      \* EventCodes: the string, as the calls so far have left it
    type,      \* the parameter sample_type of init
    handle,    \* global sample_type_handle
    regs,      \* global sample_regs
    pe,        \* the perf_event_attr of this turn
    events,    \* kernel: the attributes of the event opened on each CPU
    failure,   \* why the last open failed: "none", "invalid", "other"
    sessions   \* calls of init so far

vars == <<pc, i, name, type, handle, regs, pe, events, failure, sessions>>

Cpus == 0 .. NumCpus - 1

(* An event name: which event it spells, whether the part before the       *)
(* separator and the part after it are in upper case, and the separator.   *)
Name(event, upper, sep, rest) ==
    [event |-> event, upper |-> upper, sep |-> sep, rest |-> rest]

Unset == [event |-> "none", config1 |-> 0, fields |-> {}, regs |-> {},
          branches |-> FALSE]

----------------------------------------------------------------------------
(* Names and attributes.                                                   *)

DotStays(n) == n                               \* mutant: no replace_char

(* replace_char(EventCode, '.', ':').                                      *)
ReplaceDot(n) == [n EXCEPT !.sep = ":"]

(* toupper on one character after the other, up to the first '.', which is *)
(* replaced and ends the loop: what follows it keeps its case. Only case   *)
(* and separator change, so the name never spells another event.           *)
Capitalised(n) ==
    IF n.sep = "."
    THEN ReplaceDot([n EXCEPT !.upper = TRUE])
    ELSE [n EXCEPT !.upper = TRUE, !.rest = TRUE]

(* The events of capital_latency_event's table and their attr.config1.     *)
Config1 ==
    [LATENCY_GE_2   |-> \h400206, LATENCY_GE_4   |-> \h400406,
     LATENCY_GE_8   |-> \h400806, LATENCY_GE_16  |-> \h401006,
     LATENCY_GE_32  |-> \h402006, LATENCY_GE_64  |-> \h404006,
     LATENCY_GE_128 |-> \h408006, LATENCY_GE_256 |-> \h410006,
     LATENCY_GE_512 |-> \h420006,
     LATENCY_GE_2_BUBBLES_GE_1 |-> \h100206,
     LATENCY_GE_2_BUBBLES_GE_2 |-> \h200206,
     LATENCY_GE_2_BUBBLES_GE_3 |-> \h300206]

(* Every name of the table contains "LATENCY", which strcasestr looks for. *)
ASSUME TableAssumption == DOMAIN Config1 \subseteq WithLatency

(* One of the strcmp calls matches: the table is in upper case with ':'.   *)
InTable(n) ==
    n.event \in DOMAIN Config1 /\ n.upper /\ n.sep = ":" /\ n.rest

(* new_setup_perf after libpfm has encoded the name; firstEvent is 1 for   *)
(* every CPU. The kernel gets the handle's fields, the branch filter       *)
(* depends on the local sample type.                                       *)
EncodedAttr(n) ==
    [event |-> n.event, config1 |-> 0, fields |-> handle,
     regs |-> IF "REGS_INTR" \in type THEN RegsMask ELSE {},
     branches |-> "BRANCH_STACK" \in type]

LatencyAttrSlip(n) ==                          \* mutant: a line copied
    [event |-> n.event, fields |-> handle, regs |-> {}, branches |-> FALSE,
     config1 |-> Config1[IF n.event = "LATENCY_GE_512"
                         THEN "LATENCY_GE_256" ELSE n.event]]

(* capital_latency_event builds an attribute of its own.                   *)
LatencyAttr(n) ==
    [event |-> n.event, config1 |-> Config1[n.event], fields |-> handle,
     regs |-> {}, branches |-> FALSE]

(* perf_event_open (external): fields that need a mask are refused without.*)
Valid(a) ==
    /\ "REGS_INTR" \in a.fields => a.regs # {}
    /\ "BRANCH_STACK" \in a.fields => a.branches

CanOpen(a) == Valid(a)
CanFail(a) == ~Valid(a) \/ a.fields \in Unreliable
FailureOf(a) == IF Valid(a) THEN "other" ELSE "invalid"

----------------------------------------------------------------------------
Init ==
    /\ pc = "idle" /\ i = 0 /\ sessions = 0
    /\ name = Name("none", FALSE, ":", FALSE)
    /\ type = {} /\ handle = {"IP", "READ", "CPU"} /\ regs = {}
    /\ pe = Unset /\ events = [c \in Cpus |-> Unset] /\ failure = "none"

(* The caller's string is a new one, or the one of the session before.     *)
SampleInit(call) ==
    /\ pc = "idle" /\ sessions < MaxSessions
    /\ name' \in {call.name} \cup
                 (IF name.event = call.name.event THEN {name} ELSE {})
    /\ type' = call.fields /\ handle' = call.fields
    /\ i' = 0 /\ pc' = "encode" /\ failure' = "none"
    /\ sessions' = sessions + 1
    /\ UNCHANGED <<regs, pe, events>>

NextCpuOrReturn ==
    /\ i' = i + 1
    /\ pc' = IF i + 1 < NumCpus THEN "encode" ELSE "sampling"

RegsNotKept(old) == old                        \* mutant: attr only
RegsAlways(old) == RegsMask \cup {"DS"}        \* mutant: DS not masked out

(* sample_regs = attr.sample_regs_intr, only in the branch that sets it.   *)
RegsAfter(old) == IF "REGS_INTR" \in type THEN RegsMask ELSE old

(* libpfm knows the event.                                                 *)
EncodeByLibpfm ==
    /\ pc = "encode" /\ name.event \in Encodable
    /\ pe' = EncodedAttr(name)
    /\ regs' = RegsAfter(regs)
    /\ pc' = "open"
    /\ UNCHANGED <<i, name, type, handle, events, failure, sessions>>

(* It does not, and the name contains "latency".                           *)
EncodeLatency ==
    /\ pc = "encode" /\ name.event \in WithLatency \ Encodable
    /\ name' = Capitalised(name)
    /\ regs' = RegsAfter(regs)
    /\ IF InTable(name')
       THEN pe' = LatencyAttr(name') /\ pc' = "open"
       ELSE pe' = pe /\ pc' = "exited"
    /\ UNCHANGED <<i, type, handle, events, failure, sessions>>

(* It does not, and there is no other way to encode it.                    *)
EncodeFails ==
    /\ pc = "encode" /\ name.event \notin WithLatency \cup Encodable
    /\ regs' = RegsAfter(regs)
    /\ pc' = "exited"
    /\ UNCHANGED <<i, name, type, handle, pe, events, failure, sessions>>

Opened(a) ==
    /\ events' = [events EXCEPT ![i] = a]
    /\ failure' = "none"
    /\ NextCpuOrReturn

OpenEvent ==
    /\ pc = "open"
    /\ \/ /\ CanOpen(pe) /\ Opened(pe)
          /\ UNCHANGED type
       \/ /\ CanFail(pe)
          /\ failure' = FailureOf(pe)
          /\ type' = type \ {"BRANCH_STACK"}
          /\ pc' = "retry"
          /\ UNCHANGED <<i, events>>
    /\ UNCHANGED <<name, handle, regs, pe, sessions>>

(* "Trying without branches"                                               *)
RetryAttr(a) == [a EXCEPT !.fields = type]

OpenAgain ==
    LET a == RetryAttr(pe) IN
    /\ pc = "retry"
    /\ pe' = a
    /\ \/ CanOpen(a) /\ Opened(a)
       \/ /\ CanFail(a)
          /\ failure' = FailureOf(a)
          /\ pc' = "exited"                       \* test_fail
          /\ UNCHANGED <<i, events>>
    /\ UNCHANGED <<name, type, handle, regs, sessions>>

(* PAPI_sample_stop closes the events and leaves the globals.              *)
SampleStop ==
    /\ pc = "sampling"
    /\ events' = [c \in Cpus |-> Unset]
    /\ pc' = "idle"
    /\ UNCHANGED <<i, name, type, handle, regs, pe, failure, sessions>>

Finished == pc = "exited" \/ (pc = "idle" /\ sessions = MaxSessions)

Next ==
    \/ \E call \in Calls : SampleInit(call)
    \/ EncodeByLibpfm \/ EncodeLatency \/ EncodeFails
    \/ OpenEvent \/ OpenAgain
    \/ SampleStop
    \/ Finished /\ UNCHANGED vars

Spec == Init /\ [][Next]_vars

----------------------------------------------------------------------------
(* Properties.                                                             *)

Attrs == [event : EventNames, config1 : Nat, fields : SUBSET Fields,
          regs : {{}, RegsMask}, branches : BOOLEAN]

(* The variables have their types.                                         *)
TypeOK ==
    /\ pc \in {"idle", "encode", "open", "retry", "sampling", "exited"}
    /\ i \in 0 .. NumCpus /\ sessions \in 0 .. MaxSessions
    /\ name \in Names
    /\ type \subseteq Fields /\ handle \subseteq Fields
    /\ regs \in {{}, RegsMask}
    /\ pe \in Attrs /\ events \in [Cpus -> Attrs]
    /\ failure \in {"none", "invalid", "other"}

(* A signal of any CPU is parsed with the globals sample_type_handle and   *)
(* sample_regs: whichever path made the event of that CPU, and whatever    *)
(* sessions before have left in the globals, the kernel was given the same *)
(* registers, and the same fields but for branches. An event that was      *)
(* retried without them does lack a field that the globals claim (what the *)
(* parser then makes of it is in ParseRecord); from the first such CPU on  *)
(* all are without.                                                        *)
LayoutKnownUpToBranches ==
    pc = "sampling" =>
        \A c \in Cpus :
            /\ "REGS_INTR" \in handle => events[c].regs = regs
            /\ \/ events[c].fields = handle
               \/ \A d \in c .. NumCpus - 1 :
                     events[d].fields = handle \ {"BRANCH_STACK"}

(* What a name of the table asks for: cycles without a micro-operation,    *)
(* and how many of the four slots are empty.                               *)
Asked ==
    [LATENCY_GE_2   |-> <<2, 4>>,   LATENCY_GE_4   |-> <<4, 4>>,
     LATENCY_GE_8   |-> <<8, 4>>,   LATENCY_GE_16  |-> <<16, 4>>,
     LATENCY_GE_32  |-> <<32, 4>>,  LATENCY_GE_64  |-> <<64, 4>>,
     LATENCY_GE_128 |-> <<128, 4>>, LATENCY_GE_256 |-> <<256, 4>>,
     LATENCY_GE_512 |-> <<512, 4>>,
     LATENCY_GE_2_BUBBLES_GE_1 |-> <<2, 1>>,
     LATENCY_GE_2_BUBBLES_GE_2 |-> <<2, 2>>,
     LATENCY_GE_2_BUBBLES_GE_3 |-> <<2, 3>>]

(* The name is rewritten in place while the CPUs are set up, and may come  *)
(* back rewritten in a later session; all the same every CPU samples the   *)
(* event the caller spelled, and a front-end latency event is programmed   *)
(* with the threshold and the empty slots of its name (bits 8 to 19 and 20 *)
(* to 22 of config1, above the event select 6).                            *)
SamplesWhatWasAsked ==
    pc = "sampling" =>
        \A c \in Cpus :
            /\ events[c].event = name.event
            /\ name.event \in DOMAIN Asked \ Encodable =>
                  events[c].config1 = 6 + 2^8 * Asked[name.event][1]
                                        + 2^20 * Asked[name.event][2]

(* What the repository says of its latency events, that they work: the     *)
(* program is only ended for an event that neither libpfm nor the table    *)
(* has, or when the kernel cannot open a well-formed event, never because  *)
(* the library itself filled the attributes in inconsistently.             *)
ExitsForAReason ==
    pc = "exited" =>
        \/ name.event \notin Encodable \cup DOMAIN Asked
        \/ failure = "other"

(* The two events that the library does not set up although its table has  *)
(* them: one with registers, for which capital_latency_event leaves the    *)
(* mask out, and one spelled in lower case after a '.'.                    *)
LatencyDropsMask ==
    name.event \in DOMAIN Asked \ Encodable /\ "REGS_INTR" \in handle
LatencyMisspelled ==
    name.event \in DOMAIN Asked \ Encodable /\ ~name.rest

(* These are all the ways in which init ends the program: whatever names   *)
(* and fields callers ask for, and however the turns and sessions before   *)
(* have rewritten the name and the sample type, it exits for an event that *)
(* is unknown, an open the kernel refuses although the attributes are      *)
(* consistent, a latency event with registers or one spelled wrongly.      *)
ExitsExplained ==
    pc = "exited" =>
        \/ name.event \notin Encodable \cup DOMAIN Asked
        \/ failure = "other"
        \/ LatencyDropsMask
        \/ LatencyMisspelled
=============================================================================
