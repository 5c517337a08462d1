--------------------------- MODULE ProcessorDetect ---------------------------
(***************************************************************************)
(* detect_processor, detect_vendor and what perf_helpers.c builds on them. *)
(* Both answers come from one scan of /proc/cpuinfo and are kept in two    *)
(* static variables, each with -2 for "not detected yet"; a call that finds*)
(* its own variable set does not scan again.                               *)
(***************************************************************************)
EXTENDS Integers, Sequences

CONSTANTS
    Machines,      \* machines: records of vendor, family, model, parts
    ProcReadable   \* fopen of /proc/cpuinfo cannot fail

ASSUME MachinesAssumption ==
    \A m \in Machines :
        m.family \in Nat /\ m.model \in Nat /\ m.parts \in Nat \X Nat

VARIABLES
    machine,            \* the machine the program runs on
    processor_type, processor_vendor,   \* the static variables
    pc,                 \* "idle", "open", "scan", "return"
    call,               \* the function that was called
    line,               \* scan: number of the line fgets returns next
    cpu_family, model,  \* locals of the scan
    files,              \* files that are open
    answer              \* what the last call has returned

vars == <<machine, processor_type, processor_vendor, pc, call, line,
          cpu_family, model, files, answer>>

Unset == "-2"
UNKNOWN == "UNKNOWN"      \* PROCESSOR_UNKNOWN, VENDOR_UNKNOWN

----------------------------------------------------------------------------
(* /proc/cpuinfo (external): a block of lines for each CPU, its keys       *)
(* written with an underscore for the blank.                               *)

Line(key, val) == [key |-> key, val |-> val]

Block(m, part) ==
    CASE m.vendor = "POWER6" -> <<Line("cpu", "POWER6")>>
      [] m.vendor = "ARM" -> <<Line("CPU_implementer", 0), Line("CPU_part", part)>>
      [] OTHER -> <<Line("vendor_id", m.vendor), Line("cpu_family", m.family),
                    Line("model", m.model), Line("model_name", 0)>>

CpuInfo(m) == Block(m, m.parts[1]) \o Block(m, m.parts[2])

----------------------------------------------------------------------------
(* The tables.                                                             *)

ArmPart ==
    [ARM1176 |-> \hb76, CORTEX_A5 |-> \hc05, CORTEX_A9 |-> \hc09,
     CORTEX_A8 |-> \hc08, CORTEX_A7 |-> \hc07, CORTEX_A15 |-> \hc0f,
     CORTEX_A53 |-> \hd03]

AmdFamily ==
    [K7 |-> 6, K8 |-> 15, AMD_FAM10H |-> 16, AMD_FAM11H |-> 17,
     AMD_FAM12H |-> 18, AMD_FAM13H |-> 19, AMD_FAM14H |-> 20,
     AMD_FAM15H |-> 21, AMD_FAM16H |-> 22, AMD_FAM17H |-> 23]

IntelModels ==
    [PENTIUM_PRO |-> {1}, PENTIUM_II |-> {3, 5, 6},
     PENTIUM_III |-> {7, 8, 10, 11}, PENTIUM_M |-> {9, 13}, COREDUO |-> {14},
     CORE2 |-> {15, 22, 23, 29}, ATOM |-> {28, 38, 39, 53},
     ATOM_CEDARVIEW |-> {54}, ATOM_SILVERMONT |-> {55, 77},
     NEHALEM |-> {26, 30, 31}, NEHALEM_EX |-> {46}, WESTMERE |-> {37, 44},
     WESTMERE_EX |-> {47}, SANDYBRIDGE |-> {42}, SANDYBRIDGE_EP |-> {45},
     IVYBRIDGE |-> {58}, IVYBRIDGE_EP |-> {62}, HASWELL |-> {60, 69, 70},
     HASWELL_EP |-> {63}, BROADWELL |-> {61, 71, 79, 86},
     SKYLAKE |-> {78, 85, 94}, KABYLAKE |-> {142, 158}]

(* The key whose entry in a table satisfies a test, or the default.        *)
Lookup(table, Test(_)) ==
    IF \E t \in DOMAIN table : Test(table[t])
    THEN CHOOSE t \in DOMAIN table : Test(table[t]) ELSE UNKNOWN

ClassifyAmd(f) == Lookup(AmdFamily, LAMBDA n : n = f)

ClassifyIntel(f, m) ==
    CASE f = 6 -> Lookup(IntelModels, LAMBDA ms : m \in ms)
      [] f = 11 -> "KNIGHTSCORNER"
      [] f = 15 -> "PENTIUM_4"
      [] OTHER -> UNKNOWN

(* copy_events: the event table that a processor is given.                 *)
TestEvents ==
    [atom |-> {"ATOM"}, core2 |-> {"CORE2"}, nehalem |-> {"NEHALEM"},
     ivybridge |-> {"IVYBRIDGE"}, haswell |-> {"HASWELL", "HASWELL_EP"},
     broadwell |-> {"BROADWELL"}, skylake |-> {"SKYLAKE", "KABYLAKE"},
     amd10h |-> DOMAIN AmdFamily, power6 |-> {"POWER6"},
     cortexA9 |-> {"CORTEX_A8"}]

CopyEvents(p) == Lookup(TestEvents, LAMBDA ps : p \in ps)

(* get_latency_load_event and _store_event: *config.                       *)
LoadEvents ==
    [h100b |-> {"NEHALEM", "NEHALEM_EX", "WESTMERE", "WESTMERE_EX"},
     h1cd |-> {"SANDYBRIDGE", "SANDYBRIDGE_EP", "IVYBRIDGE", "IVYBRIDGE_EP",
               "HASWELL", "HASWELL_EP", "BROADWELL"}]
LatencyLoad(p) == Lookup(LoadEvents, LAMBDA ps : p \in ps)

StoreEvents ==
    [h2cd |-> {"SANDYBRIDGE", "SANDYBRIDGE_EP", "IVYBRIDGE", "IVYBRIDGE_EP",
               "HASWELL", "HASWELL_EP", "BROADWELL"}]
LatencyStore(p) == Lookup(StoreEvents, LAMBDA ps : p \in ps)

----------------------------------------------------------------------------
Functions == {"detect_processor", "detect_vendor", "copy_events",
              "get_latency_load_event", "get_latency_store_event"}

Init ==
    /\ machine \in Machines
    /\ processor_type = Unset /\ processor_vendor = Unset
    /\ pc = "idle" /\ call = "none" /\ line = 0
    /\ cpu_family = 0 /\ model = 0 /\ files = 0
    /\ answer = Unset

ByType(f) == f # "detect_vendor"

Cached(f) ==
    IF ByType(f) THEN processor_type # Unset ELSE processor_vendor # Unset

Call(f) ==
    /\ pc = "idle"
    /\ call' = f
    /\ pc' = IF Cached(f) THEN "return" ELSE "open"
    /\ UNCHANGED <<machine, processor_type, processor_vendor, line, cpu_family,
                   model, files, answer>>

TypeIsUnknown == UNKNOWN           \* mutant: the static variable is set

(* The scan returns PROCESSOR_UNKNOWN, which its callers do not look at.   *)
TypeWithoutCpuinfo == processor_type

OpenFails ==
    /\ pc = "open" /\ ~ProcReadable
    /\ processor_type' = TypeWithoutCpuinfo
    /\ pc' = "return"
    /\ UNCHANGED <<machine, processor_vendor, call, line, cpu_family, model,
                   files, answer>>

OpenCpuinfo ==
    /\ pc = "open"
    /\ files' = files + 1 /\ line' = 1 /\ cpu_family' = 0 /\ model' = 0
    /\ pc' = "scan"
    /\ UNCHANGED <<machine, processor_type, processor_vendor, call, answer>>

Lines == CpuInfo(machine)
Current == Lines[line]

(* POWER6 and the ARM parts that are known return at once; the file stays  *)
(* open.                                                                   *)
ReturnFromScan(type, vendor) ==
    /\ processor_type' = type /\ processor_vendor' = vendor
    /\ pc' = "return"
    /\ UNCHANGED <<line, cpu_family, model, files>>

KnownPart(n) == Lookup(ArmPart, LAMBDA p : p = n)

VendorOf(id) ==
    CASE id = "GenuineIntel" -> "INTEL"
      [] id = "AuthenticAMD" -> "AMD"
      [] OTHER -> processor_vendor

IsModelOrName(key) == key \in {"model", "model_name"}    \* mutant
IsModel(key) == key = "model"

(* A line that does not end the scan.                                      *)

TakeLine ==
    /\ processor_vendor' =
          CASE Current.key = "CPU_part" -> "ARM"
            [] Current.key = "vendor_id" -> VendorOf(Current.val)
            [] OTHER -> processor_vendor
    /\ cpu_family' = IF Current.key = "cpu_family" THEN Current.val ELSE cpu_family
    /\ model' = IF IsModel(Current.key) THEN Current.val ELSE model
    /\ line' = line + 1
    /\ UNCHANGED <<processor_type, pc, files>>

Ends(l) ==
    \/ l.key = "cpu" /\ l.val = "POWER6"
    \/ l.key = "CPU_part" /\ KnownPart(l.val) # UNKNOWN

ScanLine ==
    /\ pc = "scan" /\ line <= Len(Lines)
    /\ IF ~Ends(Current) THEN TakeLine
       ELSE IF Current.key = "cpu" THEN ReturnFromScan("POWER6", "IBM")
       ELSE ReturnFromScan(KnownPart(Current.val), "ARM")
    /\ UNCHANGED <<machine, call, answer>>

ClassifiedByNumbers ==                        \* mutant: vendor not asked
    IF cpu_family = 6 \/ cpu_family = 15
    THEN ClassifyIntel(cpu_family, model) ELSE ClassifyAmd(cpu_family)

Classified ==
    CASE processor_vendor = "AMD" -> ClassifyAmd(cpu_family)
      [] processor_vendor = "INTEL" -> ClassifyIntel(cpu_family, model)
      [] OTHER -> UNKNOWN

NotClosed == files                            \* mutants: no fclose, and
ClosedTwice == files - 2                      \* one too many
FilesAfterScan == files - 1

ScanEnds ==
    /\ pc = "scan" /\ line > Len(Lines)
    /\ files' = FilesAfterScan
    /\ processor_type' = Classified
    /\ pc' = "return"
    /\ UNCHANGED <<machine, processor_vendor, call, line, cpu_family, model,
                   answer>>

Value(f) ==
    CASE f = "detect_processor" -> processor_type
      [] f = "detect_vendor" -> processor_vendor
      [] f = "copy_events" -> CopyEvents(processor_type)
      [] f = "get_latency_load_event" -> LatencyLoad(processor_type)
      [] f = "get_latency_store_event" -> LatencyStore(processor_type)

Return ==
    /\ pc = "return"
    /\ answer' = Value(call)
    /\ pc' = "idle"
    /\ UNCHANGED <<machine, processor_type, processor_vendor, call, line,
                   cpu_family, model, files>>

Next ==
    \/ \E f \in Functions : Call(f)
    \/ OpenFails \/ OpenCpuinfo \/ ScanLine \/ ScanEnds \/ Return

Spec == Init /\ [][Next]_vars

----------------------------------------------------------------------------
(* Properties.                                                             *)

IntelTypes == DOMAIN IntelModels \cup {"KNIGHTSCORNER", "PENTIUM_4"}
Types == IntelTypes \cup DOMAIN AmdFamily \cup DOMAIN ArmPart \cup {"POWER6"}

(* The variables have their types.                                         *)
TypeOK ==
    /\ machine \in Machines
    /\ processor_type \in Types \cup {UNKNOWN, Unset}
    /\ processor_vendor \in {"INTEL", "AMD", "IBM", "ARM", Unset}
    /\ pc \in {"idle", "open", "scan", "return"}
    /\ call \in Functions \cup {"none"}
    /\ line \in 0 .. Len(Lines) + 1 /\ cpu_family \in Nat /\ model \in Nat
    /\ files \in Nat

(* Whatever calls have been made before, and whichever lines of cpuinfo    *)
(* have overwritten one another, the processor detected is the one that    *)
(* the vendor's own numbers stand for; with cores of two kinds, the first  *)
(* of a known kind.                                                        *)
DetectsMachine ==
    pc = "idle" /\ processor_type # Unset =>
        processor_type =
          CASE machine.vendor = "GenuineIntel" ->
                 ClassifyIntel(machine.family, machine.model)
            [] machine.vendor = "AuthenticAMD" -> ClassifyAmd(machine.family)
            [] machine.vendor = "ARM" ->
                 (IF KnownPart(machine.parts[1]) # UNKNOWN
                  THEN KnownPart(machine.parts[1])
                  ELSE KnownPart(machine.parts[2]))
            [] machine.vendor = "POWER6" -> "POWER6"
            [] OTHER -> UNKNOWN

(* The two static variables are set on different paths and at different    *)
(* lines of the scan; between calls they never name the processor of one   *)
(* vendor and another vendor, and the events chosen by the one are events  *)
(* of the other: no machine gets the codes of another vendor's, and a store*)
(* event is only there with a load event.                                  *)
VendorAgrees ==
    pc = "idle" =>
        /\ processor_type \in IntelTypes => processor_vendor = "INTEL"
        /\ processor_type \in DOMAIN AmdFamily => processor_vendor = "AMD"
        /\ processor_type \in DOMAIN ArmPart => processor_vendor = "ARM"
        /\ processor_type = "POWER6" => processor_vendor = "IBM"
        /\ LET events == CopyEvents(processor_type) IN
              events # UNKNOWN => processor_vendor =
                  CASE events = "amd10h" -> "AMD"
                    [] events = "power6" -> "IBM"
                    [] events = "cortexA9" -> "ARM"
                    [] OTHER -> "INTEL"
        /\ LatencyStore(processor_type) # UNKNOWN =>
               LatencyLoad(processor_type) # UNKNOWN
        /\ LatencyLoad(processor_type) # UNKNOWN =>
               processor_vendor = "INTEL"

(* detect_vendor scans again on a machine of a vendor it does not know,    *)
(* and that scan may fail: a processor or a vendor once detected stays what*)
(* it is, also while a scan that sets it again is under way.               *)
AnswersStable ==
    [][/\ processor_type # Unset => processor_type' = processor_type
       /\ processor_vendor # Unset => processor_vendor' = processor_vendor]_vars

(* The early returns of the scan leave the file open; since they set both  *)
(* variables no later call opens it again, so it is one file at most.      *)
OneFileAtMost == files <= 1
=============================================================================
