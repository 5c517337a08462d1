----------------------------- MODULE MCEventSetup -----------------------------
(* Constants of EventSetup for TLC.                                        *)
EXTENDS EventSetup

(* Upper or lower case, with the ':' of the event lists or the '.' of the  *)
(* Intel manual.                                                           *)
Spellings(event) ==
    {Name(event, upper, sep, upper) : upper \in BOOLEAN, sep \in {".", ":"}}

LatencyNames == UNION {Spellings(e) : e \in DOMAIN Config1}
PlainNames == UNION {Spellings(e) : e \in {"L1_HIT", "NO_SUCH_EVENT"}}
              \cup Spellings("LATENCY_GE_3")

Small == {"IP", "READ", "CPU"}
Types == {Small, Small \cup {"REGS_INTR"}, Small \cup {"BRANCH_STACK"},
          Small \cup {"REGS_INTR", "BRANCH_STACK"}}

Events == {"L1_HIT"}
LatencyContained == DOMAIN Config1 \cup {"LATENCY_GE_3"}

(* Every event with every sample type.                                     *)
ConsistentCalls == [name : PlainNames \cup LatencyNames, fields : Types]

(* The latency events as the event lists spell them, with the fields of    *)
(* test_events.c.                                                          *)
TestEventsCalls ==
    [name : {Name(e, TRUE, ":", TRUE) : e \in DOMAIN Config1},
     fields : {Small \cup {"DATA_SRC", "REGS_INTR"}}]

Mask == {"AX", "BX"}
=============================================================================
