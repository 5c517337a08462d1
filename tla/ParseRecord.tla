----------------------------- MODULE ParseRecord -----------------------------
(***************************************************************************)
(* The record parser of parse_record.c (perf_mmap_read and                 *)
(* handle_struct_read_format) against the record layouts that              *)
(* perf_event.h documents, together with the part of PAPI_sample_init that *)
(* fixes which fields a sample has (attr.sample_type, for the kernel) and  *)
(* which the parser looks for (sample_type_handle).                        *)
(*                                                                         *)
(* The buffer is a sequence of cells. A cell knows the field it was        *)
(* written for; the parser does not look at that, it is there to tell      *)
(* whether the value is printed under its own name. A length is stored in  *)
(* the cell that holds it, and the parser takes lengths from there.        *)
(*                                                                         *)
(* Both sides go through a record field by field: at is the place in the   *)
(* kernel's or the parser's own layout of it, in the order of that layout. *)
(***************************************************************************)
EXTENDS Integers, Sequences, FiniteSetsExt

CONSTANTS
    SampleTypes,       \* the sets of fields a caller asks for
    BranchSupported,   \* the kernel accepts PERF_SAMPLE_BRANCH_STACK
    Kinds,             \* the kinds of record the kernel writes
    Lengths,           \* lengths of variable parts
    Regs,              \* registers in sample_regs
    MaxRecords         \* bound: records in the ring at one call

VARIABLES
    attr,      \* attr.sample_type of the open event
    handle,    \* sample_type_handle
    phase,     \* "setup", "count" (the program runs), "write" or "parse"
    records,   \* kinds of the records written since the last call
    cells,     \* what is written; in a call, data
    offset,    \* the cells that the parser has gone over
    kind,      \* the record that is written or parsed, "none" at first
    at,        \* the last place of its layout written or parsed, 0: the header
    decoded,   \* kinds of the records parsed in this call
    garbled    \* a cell was taken for what it is not

vars == <<attr, handle, phase, records, cells, offset, kind, at, decoded,
          garbled>>

Cell(field, part, n) == [field |-> field, part |-> part, n |-> n]

Items(f, n) == [k \in 1 .. n |-> Cell(f, "item", 0)]

(* Fields that are a length and then that many items.                      *)
Counted == {"CALLCHAIN", "RAW", "BRANCH_STACK", "comm", "filename"}

(* struct read_format with GROUP, ID and the two times: the number of      *)
(* events, the times, a value and an id for each event.                    *)
ReadFormatCells(n) ==
    <<Cell("READ", "length", n), Cell("READ", "enabled", 0),
      Cell("READ", "running", 0)>> \o Items("READ", n)

(* One register for each bit of the mask, after the ABI; the parser does   *)
(* not look at the ABI. The kernel writes no registers behind an ABI of    *)
(* NONE, which is for tasks without user registers (kernel threads): not   *)
(* for the task that opened the event, the only one the library samples. It*)
(* gives the kernel one mask for both fields and parses both with it.      *)
RegsCells(f) == <<Cell(f, "abi", 0)>> \o Items(f, Regs)

(* The cells of a field whose variable part, if it has one, has length n.  *)
(* A user stack is followed by its dynamic size. The length of a string is *)
(* in the size of the record's header, told apart here as a cell.          *)
CellsOf(f, n) ==
    CASE f = "READ" -> ReadFormatCells(n)
      [] f \in {"REGS_USER", "REGS_INTR"} -> RegsCells(f)
      [] f = "STACK_USER" ->
           <<Cell(f, "length", n)>> \o Items(f, n) \o <<Cell(f, "dyn_size", 0)>>
      [] f \in Counted -> <<Cell(f, "length", n)>> \o Items(f, n)
      [] OTHER -> <<Cell(f, "value", 0)>>

----------------------------------------------------------------------------
(* Layouts of perf_event.h (external: what the kernel writes).             *)

AbiSampleOrder ==
    <<"IDENTIFIER", "IP", "TID", "TIME", "ADDR", "ID", "STREAM_ID", "CPU",
      "PERIOD", "READ", "CALLCHAIN", "RAW", "BRANCH_STACK", "REGS_USER",
      "STACK_USER", "WEIGHT", "DATA_SRC", "TRANSACTION", "REGS_INTR",
      "PHYS_ADDR">>

AllFields == {AbiSampleOrder[k] : k \in 1 .. Len(AbiSampleOrder)}

(* sample_id_all is never set, so no record ends in a sample_id.           *)
AbiBody(k) ==
    CASE k = "LOST" -> <<"id", "lost">>
      [] k = "COMM" -> <<"pid_tid", "comm">>
      [] k \in {"FORK", "EXIT"} -> <<"pid_ppid", "tid_ptid", "time">>
      [] k \in {"THROTTLE", "UNTHROTTLE"} -> <<"time", "id", "stream_id">>
      [] k = "MMAP" -> <<"pid_tid", "addr", "len", "pgoff", "filename">>
      [] k = "MMAP2" ->
           <<"pid_tid", "addr", "len", "pgoff", "maj_min", "ino",
             "ino_generation", "prot_flags", "filename">>
      [] k = "READ" -> <<"pid_tid", "READ">>
      [] k = "AUX" -> <<"aux_offset", "aux_size", "flags">>
      [] k = "ITRACE_START" -> <<"pid_tid">>
      [] k = "LOST_SAMPLES" -> <<"lost">>
      [] k = "SWITCH" -> <<>>
      [] k = "SWITCH_CPU_WIDE" -> <<"pid_tid">>

AbiLayout(k) == IF k = "SAMPLE" THEN AbiSampleOrder ELSE AbiBody(k)

(* The places of a layout behind place p with a field that is there: a     *)
(* sample has those of its type, other records have all.                   *)
PlacesAfter(p, layout, k, type) ==
    {q \in p + 1 .. Len(layout) : k = "SAMPLE" => layout[q] \in type}

AbiPlaces == PlacesAfter(at, AbiLayout(kind), kind, attr)

----------------------------------------------------------------------------
(* The parser.                                                             *)

(* The order of the tests "if (sample_type & PERF_SAMPLE_...)".            *)
ParserIdentity == <<"IP", "TID", "TIME", "ADDR", "ID", "STREAM_ID", "CPU",
                    "PERIOD">>
BranchesBeforeRaw == <<"READ", "CALLCHAIN", "BRANCH_STACK", "RAW", "REGS_USER",
                       "REGS_INTR", "STACK_USER">>               \* mutant
ParserContext == <<"READ", "CALLCHAIN", "RAW", "BRANCH_STACK", "REGS_USER",
                   "REGS_INTR", "STACK_USER">>
ParserAttributes == <<"WEIGHT", "DATA_SRC", "IDENTIFIER", "TRANSACTION">>

ParserSampleOrder == ParserIdentity \o ParserContext \o ParserAttributes

ParserTaskBody(k) ==
    CASE k = "LOST" -> <<"id", "lost">>
      [] k = "COMM" -> <<"pid_tid", "comm">>
      [] k \in {"FORK", "EXIT"} -> <<"pid_ppid", "tid_ptid", "time">>
      [] k \in {"THROTTLE", "UNTHROTTLE"} -> <<"time", "id", "stream_id">>

ParserMmapBody(k) ==
    <<"pid_tid", "addr", "len", "pgoff">>
      \o (IF k = "MMAP2"
          THEN <<"maj_min", "ino", "ino_generation", "prot_flags">> ELSE <<>>)
      \o <<"filename">>

ParserTraceBody(k) ==
    CASE k = "AUX" -> <<"aux_offset", "aux_size", "flags", "sample_id">>
      [] k = "ITRACE_START" -> <<"pid_tid">>
      [] k = "LOST_SAMPLES" -> <<"lost", "sample_id">>
      [] k = "SWITCH" -> <<"sample_id">>
      [] k = "SWITCH_CPU_WIDE" -> <<"pid_tid", "sample_id">>

(* The cases of the switch; any other type is "Unknown".                   *)
TaskKinds == {"LOST", "COMM", "FORK", "EXIT", "THROTTLE", "UNTHROTTLE"}
MmapKinds == {"MMAP", "MMAP2"}
TraceKinds == {"AUX", "ITRACE_START", "LOST_SAMPLES", "SWITCH",
               "SWITCH_CPU_WIDE"}
KnownKinds == TaskKinds \cup MmapKinds \cup TraceKinds \cup {"SAMPLE"}

ParserLayout(k) ==
    CASE k = "SAMPLE" -> ParserSampleOrder
      [] k \in TaskKinds -> ParserTaskBody(k)
      [] k \in MmapKinds -> ParserMmapBody(k)
      [] k \in TraceKinds -> ParserTraceBody(k)
      [] OTHER -> <<>>

(* The tests and reads that are still to come for the current record.      *)
ParserPlaces == PlacesAfter(at, ParserLayout(kind), kind, handle)

(* The kinds of perf_event.h that are modelled.                            *)
AbiKinds == KnownKinds \cup {"READ"}

ASSUME ParseAssumption ==
    /\ SampleTypes \subseteq SUBSET AllFields
    /\ BranchSupported \in BOOLEAN
    /\ Kinds \subseteq AbiKinds
    /\ Lengths \subseteq Nat /\ Regs \in Nat /\ MaxRecords \in Nat

Init ==
    /\ handle \in SampleTypes /\ attr = {}
    /\ phase = "setup" /\ records = <<>> /\ cells = <<>>
    /\ offset = 0 /\ kind = "none" /\ at = 0
    /\ decoded = <<>> /\ garbled = FALSE

(* The first perf_event_open succeeds: attr.sample_type is the handle.     *)
OpenEvent ==
    /\ phase = "setup" /\ ("BRANCH_STACK" \in handle => BranchSupported)
    /\ attr' = handle
    /\ phase' = "count"
    /\ UNCHANGED <<handle, records, cells, offset, kind, at, decoded, garbled>>

(* It fails and is retried without branches.                               *)
OnlyBranches(type) == (AllFields \cup {"unused_bits"}) \ {"BRANCH_STACK"}
                                       \* mutant: = ~ instead of &= ~
WithoutBranches(type) == type \ {"BRANCH_STACK"}

HandleAfterFallback == handle

OpenEventFallback ==
    /\ phase = "setup" /\ ("BRANCH_STACK" \in handle => ~BranchSupported)
    /\ attr' = WithoutBranches(handle)
    /\ handle' = HandleAfterFallback
    /\ phase' = "count"
    /\ UNCHANGED <<records, cells, offset, kind, at, decoded, garbled>>

(* The kernel writes a record: its header, its fields, a length for each   *)
(* variable part, and the end, where the record is given to the library.   *)
WriteHeader(k) ==
    /\ phase = "count" /\ Len(records) < MaxRecords
    /\ phase' = "write" /\ kind' = k /\ at' = 0
    /\ records' = Append(records, k)
    /\ cells' = Append(cells, Cell(k, "header", 0))
    /\ UNCHANGED <<attr, handle, offset, decoded, garbled>>

WriteField(n) ==
    /\ phase = "write" /\ AbiPlaces # {}
    /\ at' = Min(AbiPlaces)
    /\ cells' = cells \o CellsOf(AbiLayout(kind)[Min(AbiPlaces)], n)
    /\ UNCHANGED <<attr, handle, phase, records, offset, kind, decoded,
                   garbled>>

WriteEnd ==
    /\ phase = "write" /\ AbiPlaces = {}
    /\ phase' = "count" /\ kind' = "none" /\ at' = 0
    /\ UNCHANGED <<attr, handle, records, cells, offset, decoded, garbled>>

(* perf_mmap_read is called and copies what is there.                      *)
CallParser ==
    /\ phase = "count" /\ records # <<>>
    /\ phase' = "parse"
    /\ UNCHANGED <<attr, handle, records, cells, offset, kind, at, decoded,
                   garbled>>

(* All of the current record is done: the test of the loop is next. After  *)
(* a cell that is not what it takes it for the parser prints whatever it   *)
(* finds.                                                                  *)
BetweenRecords == phase = "parse" /\ ~garbled /\ ParserPlaces = {}

(* offset < size: the next cell is taken for a header.                     *)
AtRecord == BetweenRecords /\ offset < Len(cells)

event == cells[offset + 1]

UnknownUnthrottle(k) ==                     \* mutant: a case label is missing
    k \notin KnownKinds \ {"UNTHROTTLE"}

Unknown(k) == k \notin KnownKinds

ParseHeader ==
    /\ AtRecord /\ ~Unknown(event.field)
    /\ garbled' = (event.part # "header")
    /\ kind' = event.field /\ at' = 0
    /\ decoded' = Append(decoded, event.field)
    /\ offset' = offset + 1
    /\ UNCHANGED <<attr, handle, phase, records, cells>>

(* Mutant: the default case does not move offset.                          *)
ParseUnknownInPlace ==
    /\ AtRecord /\ Unknown(event.field)
    /\ UNCHANGED vars

(* default: all that is left is skipped.                                   *)
ParseUnknown ==
    /\ AtRecord /\ Unknown(event.field)
    /\ offset' = Len(cells)
    /\ garbled' = (event.part # "header")
    /\ UNCHANGED <<attr, handle, phase, records, cells, kind, at, decoded>>

(* The cells that parsing field f goes over, the length read from the      *)
(* first of them.                                                          *)
Expected(f) == CellsOf(f, IF offset < Len(cells) THEN event.n ELSE 0)

Fits(f) ==
    /\ offset + Len(Expected(f)) <= Len(cells)
    /\ \A j \in 1 .. Len(Expected(f)) : cells[offset + j] = Expected(f)[j]

(* One "if (sample_type & ...)" of a sample, or one field of another       *)
(* record.                                                                 *)
ParseField ==
    /\ phase = "parse" /\ ~garbled /\ ParserPlaces # {}
    /\ at' = Min(ParserPlaces)
    /\ LET f == ParserLayout(kind)[Min(ParserPlaces)]
       IN  /\ garbled' = ~Fits(f)
           /\ offset' = offset + Len(Expected(f))
    /\ UNCHANGED <<attr, handle, phase, records, cells, kind, decoded>>

(* data_tail = head, return head.                                          *)
ReturnHead ==
    /\ BetweenRecords /\ offset >= Len(cells)
    /\ phase' = "count" /\ records' = <<>> /\ decoded' = <<>> /\ cells' = <<>>
    /\ offset' = 0 /\ kind' = "none" /\ at' = 0
    /\ UNCHANGED <<attr, handle, garbled>>

Parser == ParseHeader \/ ParseUnknown \/ ParseField \/ ReturnHead

Next ==
    \/ OpenEvent \/ OpenEventFallback
    \/ \E k \in Kinds : WriteHeader(k)
    \/ \E n \in Lengths : WriteField(n)
    \/ WriteEnd \/ CallParser \/ Parser

(* A call of perf_mmap_read runs to its end.                               *)
Spec == Init /\ [][Next]_vars /\ WF_vars(Parser)

----------------------------------------------------------------------------
(* Properties.                                                             *)

FieldNames ==
    AllFields \cup {"id", "lost", "pid_tid", "comm", "pid_ppid", "tid_ptid",
                    "time", "stream_id", "addr", "len", "pgoff", "filename",
                    "maj_min", "ino", "ino_generation", "prot_flags",
                    "aux_offset", "aux_size", "flags", "sample_id"}

Cells == [field : FieldNames \cup Kinds,
          part : {"header", "length", "enabled", "running", "abi", "item",
                  "dyn_size", "value"},
          n : Lengths \cup {0}]

(* The variables have their types.                                         *)
TypeOK ==
    /\ attr \subseteq AllFields /\ handle \subseteq AllFields
    /\ phase \in {"setup", "count", "write", "parse"}
    /\ records \in Seq(Kinds) /\ Len(records) <= MaxRecords
    /\ cells \in Seq(Cells) /\ offset \in Nat
    /\ kind \in KnownKinds \cup Kinds \cup {"none"} /\ at \in Nat
    /\ decoded \in Seq(KnownKinds) /\ garbled \in BOOLEAN

(* Every value is printed under the name of the field the kernel wrote it  *)
(* for: the parser's order of fields, and its idea of which are there, are *)
(* those of perf_event.h, through records of any length.                   *)
ReadsWhatWasWritten == ~garbled

(* The records of a call are decoded one for one, up to the first of a     *)
(* type the parser does not know.                                          *)
DecodedAll ==
    BetweenRecords /\ offset >= Len(cells) =>
        /\ Len(decoded) <= Len(records)
        /\ \A k \in 1 .. Len(decoded) :
              decoded[k] = records[k] /\ records[k] \in KnownKinds
        /\ Len(decoded) < Len(records) =>
              records[Len(decoded) + 1] \notin KnownKinds

(* The loop while(offset<size) ends: every call of the parser returns and  *)
(* gives the ring back to the kernel.                                      *)
ParserReturns == phase = "parse" ~> phase = "count"
=============================================================================
