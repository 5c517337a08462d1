---------------------------- MODULE MCParseRecord ----------------------------
(* Constants of ParseRecord for TLC.                                       *)
EXTENDS ParseRecord

(* The fields with a length, each present or not, followed by registers or *)
(* by the fields that a sample has after a user stack.                     *)
Early == {"READ", "CALLCHAIN", "RAW", "BRANCH_STACK"}
AlignedTypes ==
    {{"IP"} \cup e \cup l : e \in SUBSET Early,
                           l \in {{"REGS_INTR"},
                                  {"STACK_USER", "DATA_SRC", "TRANSACTION"}}}

(* Every one-value field at once.                                          *)
Plain == {"IP", "TID", "TIME", "ADDR", "ID", "STREAM_ID", "CPU", "PERIOD",
          "WEIGHT", "DATA_SRC", "TRANSACTION"}

PassingTypes == AlignedTypes \cup {Plain}

(* The kinds without a sample_id, and one the parser does not know.        *)
PassingKinds == {"SAMPLE", "LOST", "THROTTLE", "UNTHROTTLE", "COMM", "FORK",
                 "EXIT", "MMAP", "MMAP2", "ITRACE_START", "READ"}

(* sample_type of test_events.c.                                           *)
TestEventsTypes ==
    {{"IP", "TID", "TIME", "ADDR", "READ", "CALLCHAIN", "ID", "CPU", "PERIOD",
      "STREAM_ID", "RAW", "DATA_SRC", "REGS_INTR"}}

BranchTypes == {{"IP", "BRANCH_STACK"}}
=============================================================================
