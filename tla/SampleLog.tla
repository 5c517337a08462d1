------------------------------ MODULE SampleLog ------------------------------
(***************************************************************************)
(* What a sampling session promises of its log file, with no handler,      *)
(* signal or ring: the kernel accepts words from each CPU, and the log of  *)
(* a CPU grows by further words that were accepted, in order, none twice   *)
(* and none left out. A new session truncates the file before it takes up  *)
(* any CPU again.                                                          *)
(***************************************************************************)
EXTENDS Integers, Sequences

CONSTANTS LogCpu, MaxAccepted       \* MaxAccepted: bound

VARIABLES accepted,    \* accepted[c]: number of words taken from CPU c
          reported     \* reported[c]: the words in the file, from CPU c

logVars == <<accepted, reported>>

FirstWords(n) == [k \in 1 .. n |-> k - 1]

LogInit ==
    /\ accepted = [c \in LogCpu |-> 0]
    /\ reported = [c \in LogCpu |-> <<>>]

(* The kernel takes some more words from CPU c.                               *)
Accept(c) ==
    /\ \E h \in accepted[c] + 1 .. MaxAccepted :
           accepted' = [accepted EXCEPT ![c] = h]
    /\ UNCHANGED reported

(* The log of CPU c catches up with the words accepted so far, or with     *)
(* some of them.                                                           *)
Report(c) ==
    /\ \E n \in Len(reported[c]) .. accepted[c] :
           reported' = [reported EXCEPT ![c] = FirstWords(n)]
    /\ UNCHANGED accepted

(* PAPI_sample_init truncates the file ...                                 *)
Truncate ==
    /\ reported' = [c \in LogCpu |-> <<>>]
    /\ UNCHANGED accepted

(* ... and opens CPU c with an empty ring.                                 *)
Attach(c) ==
    /\ reported[c] = <<>>
    /\ accepted' = [accepted EXCEPT ![c] = 0]
    /\ UNCHANGED reported

LogNext ==
    \/ Truncate
    \/ \E c \in LogCpu : Accept(c) \/ Report(c) \/ Attach(c)

LogSpec == LogInit /\ [][LogNext]_logVars
============================================================================
