------------------------ MODULE ProcessorDetectProofs ------------------------
(***************************************************************************)
(* Theorems about ProcessorDetect: on every machine, and whatever functions*)
(* are called in whatever order, the two static variables are right or not *)
(* set, they agree, and they never change once set. They are about every   *)
(* machine that MachinesAssumption allows, the run only about those of the *)
(* tables.                                                                 *)
(***************************************************************************)
EXTENDS ProcessorDetect, SequenceTheorems, TLAPS

----------------------------------------------------------------------------
(* The tables.                                                             *)

AmdTypes == DOMAIN AmdFamily
ArmTypes == DOMAIN ArmPart

(* The keys of the tables.                                                 *)
LEMMA TableKeys ==
    /\ AmdTypes = {"K7", "K8", "AMD_FAM10H", "AMD_FAM11H", "AMD_FAM12H",
                   "AMD_FAM13H", "AMD_FAM14H", "AMD_FAM15H", "AMD_FAM16H",
                   "AMD_FAM17H"}
    /\ ArmTypes = {"ARM1176", "CORTEX_A5", "CORTEX_A9", "CORTEX_A8",
                   "CORTEX_A7", "CORTEX_A15", "CORTEX_A53"}
    /\ IntelTypes =
           {"PENTIUM_PRO", "PENTIUM_II", "PENTIUM_III", "PENTIUM_M", "COREDUO",
            "CORE2", "ATOM", "ATOM_CEDARVIEW", "ATOM_SILVERMONT", "NEHALEM",
            "NEHALEM_EX", "WESTMERE", "WESTMERE_EX", "SANDYBRIDGE",
            "SANDYBRIDGE_EP", "IVYBRIDGE", "IVYBRIDGE_EP", "HASWELL",
            "HASWELL_EP", "BROADWELL", "SKYLAKE", "KABYLAKE",
            "KNIGHTSCORNER", "PENTIUM_4"}
<1>1. DOMAIN AmdFamily = {"K7", "K8", "AMD_FAM10H", "AMD_FAM11H", "AMD_FAM12H",
                   "AMD_FAM13H", "AMD_FAM14H", "AMD_FAM15H", "AMD_FAM16H",
                   "AMD_FAM17H"}
  BY SMT DEF AmdFamily
<1>2. DOMAIN ArmPart = {"ARM1176", "CORTEX_A5", "CORTEX_A9", "CORTEX_A8",
                   "CORTEX_A7", "CORTEX_A15", "CORTEX_A53"}
  BY SMT DEF ArmPart
<1>3. DOMAIN IntelModels =
           {"PENTIUM_PRO", "PENTIUM_II", "PENTIUM_III", "PENTIUM_M", "COREDUO",
            "CORE2", "ATOM", "ATOM_CEDARVIEW", "ATOM_SILVERMONT", "NEHALEM",
            "NEHALEM_EX", "WESTMERE", "WESTMERE_EX", "SANDYBRIDGE",
            "SANDYBRIDGE_EP", "IVYBRIDGE", "IVYBRIDGE_EP", "HASWELL",
            "HASWELL_EP", "BROADWELL", "SKYLAKE", "KABYLAKE"}
  BY SMT DEF IntelModels
<1> QED
  BY <1>1, <1>2, <1>3, SMT DEF AmdTypes, ArmTypes, IntelTypes

(* What the classifications may answer.                                    *)
LEMMA Answers ==
    /\ \A n : KnownPart(n) \in ArmTypes \cup {UNKNOWN}
    /\ \A f : ClassifyAmd(f) \in AmdTypes \cup {UNKNOWN}
    /\ \A f, m : ClassifyIntel(f, m) \in IntelTypes \cup {UNKNOWN}
<1>1. ASSUME NEW n PROVE KnownPart(n) \in ArmTypes \cup {UNKNOWN}
  BY DEF KnownPart, Lookup, ArmTypes
<1>2. ASSUME NEW f PROVE ClassifyAmd(f) \in AmdTypes \cup {UNKNOWN}
  BY DEF ClassifyAmd, Lookup, AmdTypes
<1>3. ASSUME NEW f, NEW m
      PROVE  ClassifyIntel(f, m) \in IntelTypes \cup {UNKNOWN}
  BY DEF ClassifyIntel, Lookup, IntelTypes
<1> QED
  BY <1>1, <1>2, <1>3

----------------------------------------------------------------------------
(* The lines of /proc/cpuinfo.                                             *)

IsPower == machine.vendor = "POWER6"
IsArm == machine.vendor = "ARM"
IsX86 == ~IsPower /\ ~IsArm

(* Which line is which, for two CPUs of each kind.                         *)
LEMMA LinesOfMachine ==
    /\ Len(Lines) \in Nat
    /\ IsPower => Len(Lines) = 2 /\ Lines[1] = Line("cpu", "POWER6")
    /\ IsArm => /\ Len(Lines) = 4
                /\ Lines[1] = Line("CPU_implementer", 0)
                /\ Lines[2] = Line("CPU_part", machine.parts[1])
                /\ Lines[3] = Line("CPU_implementer", 0)
                /\ Lines[4] = Line("CPU_part", machine.parts[2])
    /\ IsX86 => /\ Len(Lines) = 8
                /\ \A k \in {1, 5} : Lines[k] = Line("vendor_id", machine.vendor)
                /\ \A k \in {2, 6} : Lines[k] = Line("cpu_family", machine.family)
                /\ \A k \in {3, 7} : Lines[k] = Line("model", machine.model)
                /\ \A k \in {4, 8} : Lines[k] = Line("model_name", 0)
<1>1. CASE IsPower
  BY <1>1 DEF IsPower, IsArm, IsX86, Lines, CpuInfo, Block
<1>2. CASE IsArm
  BY <1>2 DEF IsPower, IsArm, IsX86, Lines, CpuInfo, Block
<1>3. CASE IsX86
  BY <1>3 DEF IsPower, IsArm, IsX86, Lines, CpuInfo, Block
<1> QED
  BY <1>1, <1>2, <1>3 DEF IsX86

----------------------------------------------------------------------------
(* The inductive invariant.                                                *)

(* The answers that are right for the machine.                             *)
Expected ==
    CASE machine.vendor = "GenuineIntel" ->
           ClassifyIntel(machine.family, machine.model)
      [] machine.vendor = "AuthenticAMD" -> ClassifyAmd(machine.family)
      [] machine.vendor = "ARM" ->
           (IF KnownPart(machine.parts[1]) # UNKNOWN
            THEN KnownPart(machine.parts[1])
            ELSE KnownPart(machine.parts[2]))
      [] machine.vendor = "POWER6" -> "POWER6"
      [] OTHER -> UNKNOWN

ExpectedVendor ==
    CASE machine.vendor = "GenuineIntel" -> "INTEL"
      [] machine.vendor = "AuthenticAMD" -> "AMD"
      [] machine.vendor = "ARM" -> "ARM"
      [] machine.vendor = "POWER6" -> "IBM"
      [] OTHER -> Unset

(* A variable that is set is right, and the type is never set without the  *)
(* vendor.                                                                 *)
StaticInv ==
    /\ processor_type \in {Unset, Expected}
    /\ processor_vendor \in {Unset, ExpectedVendor}
    /\ processor_type # Unset => processor_vendor = ExpectedVendor

(* What the lines so far have told the scan.                               *)
ScanInv ==
    pc = "scan" =>
        /\ line \in Nat /\ line >= 1
        /\ IsPower => line = 1
        /\ IsArm =>
             /\ line <= 5
             /\ line > 2 => /\ KnownPart(machine.parts[1]) = UNKNOWN
                            /\ processor_vendor = "ARM"
             /\ line > 4 => KnownPart(machine.parts[2]) = UNKNOWN
        /\ IsX86 =>
             /\ line <= 9
             /\ line > 1 => processor_vendor = ExpectedVendor
             /\ line > 2 => cpu_family = machine.family
             /\ line > 3 => model = machine.model

(* A file that an early return has left open is the last one opened.       *)
FileInv ==
    /\ files \in {0, 1}
    /\ pc = "open" => call \in Functions /\ ~Cached(call)
    /\ pc = "scan" => files = 1
    /\ pc # "scan" /\ files = 1 =>
           processor_type # Unset /\ processor_vendor # Unset

DetectInv == machine \in Machines /\ StaticInv /\ ScanInv /\ FileInv

(* The right answers are answers.                                          *)
LEMMA ExpectedFacts ==
    /\ Expected # Unset
    /\ Expected \in Types \cup {UNKNOWN}
    /\ ExpectedVendor \in {"INTEL", "AMD", "IBM", "ARM", Unset}
    /\ IsPower \/ IsArm => ExpectedVendor # Unset
<1>1. Expected \in Types \cup {UNKNOWN}
  BY Answers
  DEF Expected, Types, AmdTypes, ArmTypes
<1>2. Unset \notin Types \cup {UNKNOWN}
  BY TableKeys DEF Types, Unset, UNKNOWN, AmdTypes, ArmTypes
<1>3. /\ ExpectedVendor \in {"INTEL", "AMD", "IBM", "ARM", Unset}
      /\ IsPower \/ IsArm => ExpectedVendor # Unset
  BY DEF ExpectedVendor, IsPower, IsArm, Unset
<1> QED
  BY <1>1, <1>2, <1>3

----------------------------------------------------------------------------
(* Every step keeps the invariant.                                         *)

(* Where the scan is, when there is a line to read.                        *)
LEMMA ScanAt ==
    ASSUME DetectInv, pc = "scan", line <= Len(Lines)
    PROVE  /\ line \in Nat /\ line >= 1
           /\ IsPower => line = 1
           /\ IsArm => line \in 1 .. 4
           /\ IsX86 => line \in 1 .. 8
<1>1. line \in Nat /\ line >= 1 /\ (IsPower => line = 1)
  BY DEF DetectInv, ScanInv
<1>2. (IsArm => Len(Lines) = 4) /\ (IsX86 => Len(Lines) = 8)
  BY LinesOfMachine
<1>3. ASSUME IsArm PROVE line \in 1 .. 4
  <2>1. Len(Lines) = 4
    BY <1>2, <1>3
  <2> QED
    BY <1>1, <2>1
<1>4. ASSUME IsX86 PROVE line \in 1 .. 8
  <2>1. Len(Lines) = 8
    BY <1>2, <1>4
  <2> QED
    BY <1>1, <2>1
<1> QED
  BY <1>1, <1>3, <1>4

(* A line that ends the scan gives the right answers.                      *)
LEMMA ScanReturns ==
    ASSUME DetectInv, pc = "scan", line <= Len(Lines), Ends(Current),
           NEW t, NEW v, ReturnFromScan(t, v), UNCHANGED <<machine, call>>,
           IF Current.key = "cpu" THEN t = "POWER6" /\ v = "IBM"
                                  ELSE t = KnownPart(Current.val) /\ v = "ARM"
    PROVE  DetectInv'
<1>1. /\ processor_type' = t /\ processor_vendor' = v
      /\ pc' = "return" /\ files' = files
  BY DEF ReturnFromScan
<1>2. ~IsX86
  <2> SUFFICES ASSUME IsX86 PROVE FALSE
    OBVIOUS
  <2>1. line \in 1 .. 8
    BY ScanAt
  <2>2. Current.key \in {"vendor_id", "cpu_family", "model", "model_name"}
    BY <2>1, LinesOfMachine DEF Current, Line
  <2> QED
    BY <2>2 DEF Ends
<1>3. t = Expected /\ v = ExpectedVendor
  <2>1. CASE IsPower
    <3>1. Current = Line("cpu", "POWER6")
      BY <2>1, LinesOfMachine DEF DetectInv, ScanInv, Current
    <3> QED
      BY <2>1, <3>1 DEF Line, Expected, ExpectedVendor, IsPower
  <2>2. CASE IsArm
    <3>1. line \in 1 .. 4
      BY <2>2, ScanAt
    <3>2. CASE line \in {1, 3}
      <4>1. Current.key = "CPU_implementer"
        BY <2>2, <3>2, LinesOfMachine DEF Current, Line
      <4> QED
        BY <4>1 DEF Ends
    <3>3. CASE line = 2
      <4>1. Current.key = "CPU_part" /\ Current.val = machine.parts[1]
        BY <2>2, <3>3, LinesOfMachine DEF Current, Line
      <4>2. KnownPart(machine.parts[1]) # UNKNOWN
        BY <4>1 DEF Ends
      <4> QED
        BY <2>2, <4>1, <4>2 DEF IsArm, Expected, ExpectedVendor
    <3>4. CASE line = 4
      <4>1. Current.key = "CPU_part" /\ Current.val = machine.parts[2]
        BY <2>2, <3>4, LinesOfMachine DEF Current, Line
      <4>2. KnownPart(machine.parts[1]) = UNKNOWN
        BY <2>2, <3>4 DEF DetectInv, ScanInv
      <4> QED
        BY <2>2, <4>1, <4>2 DEF IsArm, Expected, ExpectedVendor
    <3> QED
      BY <3>1, <3>2, <3>3, <3>4
  <2> QED
    BY <1>2, <2>1, <2>2 DEF IsX86
<1>4. Expected' = Expected /\ ExpectedVendor' = ExpectedVendor
  BY DEF Expected, ExpectedVendor
<1>5. ExpectedVendor # Unset /\ Expected # Unset
  BY <1>2, ExpectedFacts DEF IsX86
<1> QED
  BY <1>1, <1>3, <1>4, <1>5
  DEF DetectInv, StaticInv, ScanInv, FileInv

(* A line that does not end it tells what it should.                       *)
LEMMA ScanTakes ==
    ASSUME DetectInv, pc = "scan", line <= Len(Lines), ~Ends(Current),
           TakeLine, UNCHANGED <<machine, call>>
    PROVE  DetectInv'
<1>1. /\ processor_vendor' =
            CASE Current.key = "CPU_part" -> "ARM"
              [] Current.key = "vendor_id" -> VendorOf(Current.val)
              [] OTHER -> processor_vendor
      /\ cpu_family' = (IF Current.key = "cpu_family" THEN Current.val
                                                      ELSE cpu_family)
      /\ model' = (IF Current.key = "model" THEN Current.val ELSE model)
      /\ line' = line + 1 /\ line \in Nat /\ line >= 1
      /\ UNCHANGED <<processor_type, pc, files>>
  BY DEF TakeLine, IsModel, DetectInv, ScanInv
<1>2. /\ Expected' = Expected /\ ExpectedVendor' = ExpectedVendor
      /\ IsPower' = IsPower /\ IsArm' = IsArm /\ IsX86' = IsX86
  BY DEF Expected, ExpectedVendor, IsPower, IsArm, IsX86
<1>3. CASE IsPower
  <2>1. Current = Line("cpu", "POWER6")
    BY <1>3, LinesOfMachine DEF DetectInv, ScanInv, Current
  <2> QED
    BY <2>1 DEF Ends, Line
<1>4. CASE IsArm
  <2>0. /\ ~IsPower /\ ~IsX86 /\ ExpectedVendor = "ARM"
        /\ line \in 1 .. 4
    BY <1>4, ScanAt DEF IsPower, IsArm, IsX86, ExpectedVendor
  <2>1. CASE line \in {1, 3}
    <3>1. Current.key = "CPU_implementer"
      BY <1>4, <2>1, LinesOfMachine DEF Current, Line
    <3>2. processor_vendor' = processor_vendor
      BY <1>1, <3>1
    <3>3. ScanInv'
      BY <1>1, <1>2, <1>4, <2>0, <2>1, <3>2 DEF DetectInv, ScanInv
    <3> QED
      BY <1>1, <1>2, <3>2, <3>3 DEF DetectInv, StaticInv, FileInv
  <2>2. CASE line \in {2, 4}
    <3>1. /\ Current.key = "CPU_part"
          /\ line = 2 => Current.val = machine.parts[1]
          /\ line = 4 => Current.val = machine.parts[2]
      BY <1>4, <2>2, LinesOfMachine DEF Current, Line
    <3>2. processor_vendor' = "ARM" /\ KnownPart(Current.val) = UNKNOWN
      BY <1>1, <3>1 DEF Ends
    <3>3. ScanInv'
      BY <1>1, <1>2, <1>4, <2>0, <2>2, <3>1, <3>2 DEF DetectInv, ScanInv
    <3> QED
      BY <1>1, <1>2, <2>0, <3>2, <3>3 DEF DetectInv, StaticInv, FileInv
  <2> QED
    BY <2>0, <2>1, <2>2
<1>5. CASE IsX86
  <2>0. ~IsPower /\ ~IsArm /\ line \in 1 .. 8
    BY <1>5, ScanAt DEF IsX86
  <2>1. /\ line \in {1, 5} => Current = Line("vendor_id", machine.vendor)
        /\ line \in {2, 6} => Current = Line("cpu_family", machine.family)
        /\ line \in {3, 7} => Current = Line("model", machine.model)
        /\ line \in {4, 8} => Current = Line("model_name", 0)
    BY <1>5, LinesOfMachine DEF Current
  <2>2. processor_vendor' \in {processor_vendor, ExpectedVendor}
        /\ (line = 1 => processor_vendor' = ExpectedVendor)
    <3>1. CASE line \in {1, 5}
      <4>1. processor_vendor' = VendorOf(machine.vendor)
        BY <1>1, <2>1, <3>1 DEF Line
      <4>2. VendorOf(machine.vendor) = ExpectedVendor
        BY <2>0
        DEF VendorOf, ExpectedVendor, IsPower, IsArm, DetectInv, StaticInv
      <4> QED
        BY <4>1, <4>2
    <3>2. CASE line \in {2, 3, 4, 6, 7, 8}
      BY <1>1, <2>1, <3>2 DEF Line
    <3> QED
      BY <2>0, <3>1, <3>2
  <2>3. /\ line \in {2, 6} => cpu_family' = machine.family
        /\ line \notin {2, 6} => cpu_family' = cpu_family
        /\ line \in {3, 7} => model' = machine.model
        /\ line \notin {3, 7} => model' = model
    BY <1>1, <2>0, <2>1 DEF Line
  <2>4. ScanInv'
    BY <1>1, <1>2, <1>5, <2>0, <2>2, <2>3 DEF DetectInv, ScanInv
  <2> QED
    BY <1>1, <1>2, <2>2, <2>4 DEF DetectInv, StaticInv, FileInv
<1> QED
  BY <1>3, <1>4, <1>5 DEF IsX86

(* At the end of cpuinfo the numbers of the last lines classify the        *)
(* machine.                                                                *)
LEMMA ScanClassifies ==
    ASSUME DetectInv, pc = "scan", line > Len(Lines)
    PROVE  Classified = Expected /\ processor_vendor = ExpectedVendor
<1>1. line \in Nat /\ Len(Lines) \in Nat
  BY LinesOfMachine DEF DetectInv, ScanInv
<1>2. ~IsPower
  <2>1. IsPower => line = 1 /\ Len(Lines) = 2
    BY LinesOfMachine DEF DetectInv, ScanInv
  <2> QED
    BY <2>1
<1>3. CASE IsArm
  <2>1. Len(Lines) = 4
    BY <1>3, LinesOfMachine
  <2>2. line > 4
    BY <1>1, <2>1
  <2>3. /\ processor_vendor = "ARM"
        /\ KnownPart(machine.parts[1]) = UNKNOWN
        /\ KnownPart(machine.parts[2]) = UNKNOWN
    BY <1>1, <1>3, <2>2 DEF DetectInv, ScanInv
  <2> QED
    BY <1>3, <2>3 DEF IsArm, Classified, Expected, ExpectedVendor
<1>4. CASE IsX86
  <2>1. Len(Lines) = 8
    BY <1>4, LinesOfMachine
  <2>2. line > 8
    BY <1>1, <2>1
  <2>3. /\ processor_vendor = ExpectedVendor
        /\ cpu_family = machine.family /\ model = machine.model
    BY <1>1, <1>4, <2>2 DEF DetectInv, ScanInv
  <2> QED
    BY <1>4, <2>3
    DEF IsX86, IsArm, IsPower, Classified, Expected, ExpectedVendor, Unset
<1> QED
  BY <1>2, <1>3, <1>4 DEF IsX86

(* Every step keeps the invariant.                                         *)
LEMMA DetectStep ==
    ASSUME DetectInv, [Next]_vars
    PROVE  DetectInv'
<1>0. ASSUME machine' = machine
      PROVE  /\ Expected' = Expected /\ ExpectedVendor' = ExpectedVendor
             /\ IsPower' = IsPower /\ IsArm' = IsArm /\ IsX86' = IsX86
  BY <1>0 DEF Expected, ExpectedVendor, IsPower, IsArm, IsX86
<1>1. ASSUME NEW f \in Functions, Call(f) PROVE DetectInv'
  <2>1. Cached(f)' = Cached(f)
    BY <1>1 DEF Call, Cached
  <2> QED
    BY <1>0, <1>1, <2>1
    DEF Call, DetectInv, StaticInv, ScanInv, FileInv
<1>2. CASE OpenFails
  BY <1>0, <1>2
  DEF OpenFails, TypeWithoutCpuinfo, DetectInv, StaticInv, ScanInv, FileInv
<1>3. CASE OpenCpuinfo
  <2>1. /\ pc = "open" /\ pc' = "scan" /\ line' = 1 /\ files' = files + 1
        /\ UNCHANGED <<machine, processor_type, processor_vendor, call>>
    BY <1>3 DEF OpenCpuinfo
  <2>2. files = 0
    BY <2>1 DEF DetectInv, FileInv, Cached
  <2>3. ScanInv'
    BY <2>1 DEF ScanInv
  <2> QED
    BY <1>0, <2>1, <2>2, <2>3 DEF DetectInv, StaticInv, FileInv
<1>4. CASE ScanLine
  <2>1. pc = "scan" /\ line <= Len(Lines) /\ UNCHANGED <<machine, call>>
    BY <1>4 DEF ScanLine
  <2>2. CASE ~Ends(Current)
    BY <1>4, <2>1, <2>2, ScanTakes DEF ScanLine
  <2>3. CASE Ends(Current) /\ Current.key = "cpu"
    BY <1>4, <2>1, <2>3, ScanReturns DEF ScanLine
  <2>4. CASE Ends(Current) /\ Current.key # "cpu"
    BY <1>4, <2>1, <2>4, ScanReturns DEF ScanLine
  <2> QED
    BY <2>2, <2>3, <2>4
<1>5. CASE ScanEnds
  <2>1. /\ pc = "scan" /\ pc' = "return" /\ files' = files - 1
        /\ processor_type' = Classified
        /\ UNCHANGED <<machine, processor_vendor>>
        /\ line > Len(Lines)
    BY <1>5 DEF ScanEnds, FilesAfterScan
  <2>2. Classified = Expected /\ processor_vendor = ExpectedVendor
    BY <2>1, ScanClassifies
  <2>3. files' = 0
    BY <2>1 DEF DetectInv, FileInv
  <2> QED
    BY <1>0, <2>1, <2>2, <2>3 DEF DetectInv, StaticInv, ScanInv, FileInv
<1>6. CASE Return
  BY <1>0, <1>6 DEF Return, DetectInv, StaticInv, ScanInv, FileInv
<1>7. CASE UNCHANGED vars
  <2>1. Cached(call)' = Cached(call)
    BY <1>7 DEF vars, Cached
  <2> QED
    BY <1>0, <1>7, <2>1 DEF vars, DetectInv, StaticInv, ScanInv, FileInv
<1> QED
  BY <1>1, <1>2, <1>3, <1>4, <1>5, <1>6, <1>7 DEF Next

(* What the static variables and the scan hold is right at every step.     *)
THEOREM DetectInvariant == Spec => []DetectInv
<1>1. Init => DetectInv
  BY DEF Init, DetectInv, StaticInv, ScanInv, FileInv
<1> QED
  BY <1>1, DetectStep, PTL DEF Spec

----------------------------------------------------------------------------
(* What follows from it.                                                   *)

(* The processor detected is the one the vendor's numbers stand for.       *)
THEOREM DetectsEveryMachine == Spec => []DetectsMachine
<1>1. DetectInv => DetectsMachine
  BY DEF DetectInv, StaticInv, DetectsMachine, Expected
<1> QED
  BY <1>1, DetectInvariant, PTL

(* At most one file is left open, however often the functions are called.  *)
THEOREM DetectLeavesOneFile == Spec => []OneFileAtMost
<1>1. DetectInv => OneFileAtMost
  BY DEF DetectInv, FileInv, OneFileAtMost
<1> QED
  BY <1>1, DetectInvariant, PTL

(* No step forgets a type or a vendor.                                     *)
LEMMA NothingForgotten ==
    ASSUME DetectInv, [Next]_vars
    PROVE  /\ processor_type # Unset => processor_type' # Unset
           /\ processor_vendor # Unset => processor_vendor' # Unset
<1>1. CASE ScanLine
  <2>1. CASE TakeLine
    BY <2>1 DEF TakeLine, VendorOf, Unset
  <2>2. CASE ReturnFromScan("POWER6", "IBM")
    BY <2>2 DEF ReturnFromScan, Unset
  <2>3. CASE ReturnFromScan(KnownPart(Current.val), "ARM")
    <3>1. KnownPart(Current.val) # Unset
      BY Answers, TableKeys DEF Unset, UNKNOWN
    <3> QED
      BY <2>3, <3>1 DEF ReturnFromScan, Unset
  <2> QED
    BY <1>1, <2>1, <2>2, <2>3 DEF ScanLine
<1>2. CASE ScanEnds
  <2>1. Classified # Unset
    BY <1>2, ScanClassifies, ExpectedFacts DEF ScanEnds
  <2> QED
    BY <1>2, <2>1 DEF ScanEnds
<1>3. CASE \/ \E f \in Functions : Call(f)
           \/ OpenFails \/ OpenCpuinfo \/ Return \/ UNCHANGED vars
  BY <1>3
  DEF Call, OpenFails, TypeWithoutCpuinfo, OpenCpuinfo, Return, vars
<1> QED
  BY <1>1, <1>2, <1>3 DEF Next

(* A type or a vendor that has been detected never changes.                *)
THEOREM DetectAnswersStable == Spec => AnswersStable
<1>1. ASSUME DetectInv, DetectInv', [Next]_vars
      PROVE  [/\ processor_type # Unset => processor_type' = processor_type
              /\ processor_vendor # Unset =>
                    processor_vendor' = processor_vendor]_vars
  <2>1. machine' = machine
    BY <1>1
    DEF Next, Call, OpenFails, OpenCpuinfo, ScanLine, ScanEnds, Return, vars
  <2>2. Expected' = Expected /\ ExpectedVendor' = ExpectedVendor
    BY <2>1 DEF Expected, ExpectedVendor
  <2>3. /\ processor_type # Unset => processor_type' # Unset
        /\ processor_vendor # Unset => processor_vendor' # Unset
    BY <1>1, NothingForgotten
  <2> QED
    BY <1>1, <2>2, <2>3 DEF DetectInv, StaticInv
<1> QED
  BY <1>1, DetectInvariant, PTL DEF Spec, AnswersStable

(* The entries that the tables of events give a processor.                 *)
LEMMA EventTables ==
    ASSUME NEW p \in Types \cup {UNKNOWN, Unset}
    PROVE  /\ LET e == CopyEvents(p) IN
                e # UNKNOWN => e \in DOMAIN TestEvents /\ p \in TestEvents[e]
           /\ LatencyLoad(p) # UNKNOWN =>
                p \in LoadEvents.h100b \cup LoadEvents.h1cd
           /\ LatencyStore(p) # UNKNOWN => p \in StoreEvents.h2cd
           /\ p \in LoadEvents.h1cd => LatencyLoad(p) # UNKNOWN
<1>1. LET e == CopyEvents(p) IN
        e # UNKNOWN => e \in DOMAIN TestEvents /\ p \in TestEvents[e]
  BY DEF CopyEvents, Lookup
<1>2. LatencyLoad(p) # UNKNOWN => p \in LoadEvents.h100b \cup LoadEvents.h1cd
  <2>1. DOMAIN LoadEvents = {"h100b", "h1cd"}
    BY DEF LoadEvents
  <2> QED
    BY <2>1 DEF LatencyLoad, Lookup
<1>3. LatencyStore(p) # UNKNOWN => p \in StoreEvents.h2cd
  <2>1. DOMAIN StoreEvents = {"h2cd"}
    BY DEF StoreEvents
  <2> QED
    BY <2>1 DEF LatencyStore, Lookup
<1>4. p \in LoadEvents.h1cd => LatencyLoad(p) # UNKNOWN
  <2>1. DOMAIN LoadEvents = {"h100b", "h1cd"}
    BY DEF LoadEvents
  <2> QED
    BY <2>1 DEF LatencyLoad, Lookup, UNKNOWN
<1> QED
  BY <1>1, <1>2, <1>3, <1>4

(* Whichever table gives a processor its events, they are of the vendor    *)
(* whose processors the table is for.                                      *)
LEMMA EventsOfVendor ==
    ASSUME NEW p \in Types \cup {UNKNOWN, Unset}, CopyEvents(p) # UNKNOWN
    PROVE  LET e == CopyEvents(p) IN
           CASE e = "amd10h" -> p \in AmdTypes
             [] e = "power6" -> p = "POWER6"
             [] e = "cortexA9" -> p \in ArmTypes
             [] OTHER -> p \in IntelTypes
<1> DEFINE e == CopyEvents(p)
<1>1. e \in DOMAIN TestEvents /\ p \in TestEvents[e]
  BY EventTables
<1>2. DOMAIN TestEvents =
        {"atom", "core2", "nehalem", "ivybridge", "haswell", "broadwell",
         "skylake", "amd10h", "power6", "cortexA9"}
  BY DEF TestEvents
<1>3. /\ TestEvents["amd10h"] = AmdTypes
      /\ TestEvents["power6"] = {"POWER6"}
      /\ TestEvents["cortexA9"] \subseteq ArmTypes
  BY TableKeys DEF TestEvents, AmdTypes
<1>4. \A k \in {"atom", "core2", "nehalem", "ivybridge", "haswell",
                "broadwell", "skylake"} : TestEvents[k] \subseteq IntelTypes
  BY TableKeys DEF TestEvents
<1>5. CASE e \in {"atom", "core2", "nehalem", "ivybridge", "haswell",
                  "broadwell", "skylake"}
  <2>1. p \in IntelTypes
    BY <1>1, <1>4, <1>5
  <2> QED
    BY <1>5, <2>1
<1>6. CASE e \in {"amd10h", "power6", "cortexA9"}
  BY <1>1, <1>3, <1>6
<1> QED
  BY <1>1, <1>2, <1>5, <1>6

(* The two answers agree, and so do the events that hang on them.          *)
THEOREM DetectVendorAgrees == Spec => []VendorAgrees
<1>1. ASSUME DetectInv PROVE VendorAgrees
  <2> DEFINE p == processor_type
             v == processor_vendor
  <2>1. p \in Types \cup {UNKNOWN, Unset}
    BY <1>1, ExpectedFacts DEF DetectInv, StaticInv
  <2>2. /\ p \in IntelTypes => v = "INTEL"
        /\ p \in AmdTypes => v = "AMD"
        /\ p \in ArmTypes => v = "ARM"
        /\ p = "POWER6" => v = "IBM"
    <3>1. CASE p = Unset
      BY <3>1, TableKeys DEF Unset
    <3>2. CASE p # Unset
      <4>1. p = Expected /\ v = ExpectedVendor
        BY <1>1, <3>2 DEF DetectInv, StaticInv
      <4>2. CASE machine.vendor = "GenuineIntel"
        <5>1. p \in IntelTypes \cup {UNKNOWN} /\ v = "INTEL"
          BY <4>1, <4>2, Answers DEF Expected, ExpectedVendor
        <5> QED
          BY <5>1, TableKeys DEF UNKNOWN
      <4>3. CASE machine.vendor = "AuthenticAMD"
        <5>1. p \in AmdTypes \cup {UNKNOWN} /\ v = "AMD"
          BY <4>1, <4>3, Answers DEF Expected, ExpectedVendor
        <5> QED
          BY <5>1, TableKeys DEF UNKNOWN
      <4>4. CASE machine.vendor = "ARM"
        <5>1. p \in ArmTypes \cup {UNKNOWN} /\ v = "ARM"
          BY <4>1, <4>4, Answers DEF Expected, ExpectedVendor
        <5> QED
          BY <5>1, TableKeys DEF UNKNOWN
      <4>5. CASE machine.vendor = "POWER6"
        <5>1. p = "POWER6" /\ v = "IBM"
          BY <4>1, <4>5 DEF Expected, ExpectedVendor
        <5> QED
          BY <5>1, TableKeys
      <4>6. CASE machine.vendor \notin {"GenuineIntel", "AuthenticAMD", "ARM",
                                        "POWER6"}
        <5>1. p = UNKNOWN
          BY <4>1, <4>6 DEF Expected
        <5> QED
          BY <5>1, TableKeys DEF UNKNOWN
      <4> QED
        BY <4>2, <4>3, <4>4, <4>5, <4>6
    <3> QED
      BY <3>1, <3>2
  <2>3. LET events == CopyEvents(p) IN
          events # UNKNOWN => v =
              CASE events = "amd10h" -> "AMD"
                [] events = "power6" -> "IBM"
                [] events = "cortexA9" -> "ARM"
                [] OTHER -> "INTEL"
    BY <2>1, <2>2, EventsOfVendor
  <2>4. LatencyStore(p) # UNKNOWN => LatencyLoad(p) # UNKNOWN
    <3>1. StoreEvents.h2cd = LoadEvents.h1cd
      BY DEF StoreEvents, LoadEvents
    <3> QED
      BY <2>1, <3>1, EventTables
  <2>5. LatencyLoad(p) # UNKNOWN => v = "INTEL"
    <3>1. LoadEvents.h100b \cup LoadEvents.h1cd \subseteq IntelTypes
      BY TableKeys DEF LoadEvents
    <3> QED
      BY <2>1, <2>2, <3>1, EventTables
  <2> QED
    BY <2>2, <2>3, <2>4, <2>5 DEF VendorAgrees, AmdTypes, ArmTypes
<1> QED
  BY <1>1, DetectInvariant, PTL

(* The variables have their types.                                         *)
THEOREM DetectTypeCorrect == Spec => []TypeOK
<1>1. Init => TypeOK
  BY LinesOfMachine, MachinesAssumption DEF Init, TypeOK, Unset
<1>2. ASSUME TypeOK, DetectInv, DetectInv', [Next]_vars PROVE TypeOK'
  <2>1. /\ machine \in Machines /\ machine' = machine
        /\ Lines' = Lines /\ Len(Lines) \in Nat
    BY <1>2, LinesOfMachine
    DEF TypeOK, Next, Call, OpenFails, OpenCpuinfo, ScanLine, ScanEnds, Return,
       vars, Lines
  <2>2. /\ processor_type' \in Types \cup {UNKNOWN, Unset}
        /\ processor_vendor' \in {"INTEL", "AMD", "IBM", "ARM", Unset}
        /\ files' \in Nat
    <3>1. Expected' = Expected /\ ExpectedVendor' = ExpectedVendor
      BY <2>1 DEF Expected, ExpectedVendor
    <3> QED
      BY <1>2, <3>1, ExpectedFacts DEF DetectInv, StaticInv, FileInv
  <2>3. ASSUME TakeLine, line <= Len(Lines), pc = "scan"
        PROVE  cpu_family' \in Nat /\ model' \in Nat
               /\ line' \in 0 .. Len(Lines) + 1
    <3>1. machine.family \in Nat /\ machine.model \in Nat
      BY <2>1, MachinesAssumption
    <3>2. /\ Current.key = "cpu_family" => Current.val = machine.family
          /\ Current.key = "model" => Current.val = machine.model
      <4>1. line \in 1 .. 8 /\ (IsPower => line = 1) /\ (IsArm => line \in 1 .. 4)
        BY <1>2, <2>3, ScanAt DEF IsX86
      <4> QED
        BY <4>1, LinesOfMachine DEF IsX86, Current, Line
    <3> QED
      BY <1>2, <2>1, <2>3, <3>1, <3>2 DEF TakeLine, IsModel, TypeOK
  <2>4. /\ pc' \in {"idle", "open", "scan", "return"}
        /\ call' \in Functions \cup {"none"}
        /\ cpu_family' \in Nat /\ model' \in Nat
        /\ line' \in 0 .. Len(Lines) + 1
    BY <1>2, <2>1, <2>3
    DEF TypeOK, Next, Call, OpenFails, OpenCpuinfo, ScanLine, ScanEnds, Return,
       ReturnFromScan, vars, TakeLine
  <2> QED
    BY <2>1, <2>2, <2>4 DEF TypeOK
<1> QED
  BY <1>1, <1>2, DetectInvariant, PTL DEF Spec
=============================================================================
