-------------------------- MODULE ParseRecordProofs --------------------------
(***************************************************************************)
(* Theorems about ParseRecord.                                             *)
(*                                                                         *)
(* ParseTypeCorrect holds whatever is asked for. The rest is for sample    *)
(* types and kinds of record on which the parser and perf_event.h agree    *)
(* (Agreement), which TypesInOrder and WithoutSampleId are enough for.     *)
(***************************************************************************)
EXTENDS ParseRecord, SequenceTheorems, WellFoundedInduction, TLAPS

----------------------------------------------------------------------------
(* The cells of a field.                                                   *)

(* What is written first stays first.                                      *)
LEMMA FirstOfConcat ==
    ASSUME NEW S, NEW s \in Seq(S), NEW t \in Seq(S), Len(s) > 0
    PROVE  /\ s \o t \in Seq(S) /\ Len(s \o t) > 0
           /\ (s \o t)[1] = s[1]
<1>1. Len(s) \in Nat /\ Len(t) \in Nat
  BY LenProperties
<1>2. 1 \in 1 .. Len(s) + Len(t)
  BY <1>1
<1> QED
  BY <1>1, <1>2, ConcatProperties

(* A cell is a cell.                                                       *)
LEMMA CellType ==
    ASSUME NEW f \in FieldNames \cup Kinds, NEW n \in Lengths \cup {0},
           NEW part \in {"header", "length", "enabled", "running", "abi",
                         "item", "dyn_size", "value"}
    PROVE  /\ Cell(f, part, n) \in Cells
           /\ Cell(f, part, n).field = f
           /\ Cell(f, part, n).part = part
           /\ Cell(f, part, n).n = n
BY DEF Cell, Cells

(* A field is at least one cell; the first holds the length of the field   *)
(* if it has one, so that a reader that takes it from there takes as many  *)
(* cells as were written.                                                  *)
LEMMA CellsOfType ==
    ASSUME NEW f \in FieldNames, NEW n \in Lengths \cup {0}
    PROVE  /\ CellsOf(f, n) \in Seq(Cells) /\ Len(CellsOf(f, n)) > 0
           /\ CellsOf(f, CellsOf(f, n)[1].n) = CellsOf(f, n)
<1>a. n \in Nat /\ Regs \in Nat
  BY ParseAssumption
<1>i. \A m \in Nat : Items(f, m) \in Seq(Cells)
  BY CellType DEF Items
<1>1. CASE f = "READ"
  <2>1. PICK fixed : fixed = <<Cell(f, "length", n), Cell(f, "enabled", 0),
                               Cell(f, "running", 0)>>
    OBVIOUS
  <2>2. CellsOf(f, n) = fixed \o Items(f, n)
    BY <1>1, <2>1 DEF CellsOf, Counted, ReadFormatCells
  <2>3. fixed \in Seq(Cells) /\ Len(fixed) > 0
    BY <2>1, CellType
  <2>4. fixed[1].n = n
    BY <2>1, CellType
  <2>5. /\ CellsOf(f, n) \in Seq(Cells) /\ Len(CellsOf(f, n)) > 0
        /\ CellsOf(f, n)[1] = fixed[1]
    BY <1>a, <1>i, <2>2, <2>3, FirstOfConcat
  <2> QED
    BY <2>4, <2>5
<1>2. CASE f \in {"REGS_USER", "REGS_INTR"}
  <2>1. PICK abi : abi = <<Cell(f, "abi", 0)>>
    OBVIOUS
  <2>2. \A l : CellsOf(f, l) = abi \o Items(f, Regs)
    BY <1>2, <2>1 DEF CellsOf, Counted, RegsCells
  <2>3. abi \in Seq(Cells) /\ Len(abi) > 0
    BY <2>1, CellType
  <2>4. /\ abi \o Items(f, Regs) \in Seq(Cells)
        /\ Len(abi \o Items(f, Regs)) > 0
    BY <1>a, <1>i, <2>3, FirstOfConcat
  <2> QED
    BY <2>2, <2>4, Zenon
<1>3. CASE f = "STACK_USER"
  <2>1. PICK size, dyn : /\ size = <<Cell(f, "length", n)>>
                         /\ dyn = <<Cell(f, "dyn_size", 0)>>
    OBVIOUS
  <2>2. CellsOf(f, n) = (size \o Items(f, n)) \o dyn
    BY <1>3, <2>1 DEF CellsOf, Counted
  <2>3. size \in Seq(Cells) /\ Len(size) > 0 /\ dyn \in Seq(Cells)
    BY <2>1, CellType
  <2>4. size[1].n = n
    BY <2>1, CellType
  <2>5. /\ size \o Items(f, n) \in Seq(Cells)
        /\ Len(size \o Items(f, n)) > 0
        /\ (size \o Items(f, n))[1] = size[1]
    BY <1>a, <1>i, <2>3, FirstOfConcat
  <2>6. /\ CellsOf(f, n) \in Seq(Cells) /\ Len(CellsOf(f, n)) > 0
        /\ CellsOf(f, n)[1] = size[1]
    BY <2>2, <2>3, <2>5, FirstOfConcat
  <2> QED
    BY <2>4, <2>6
<1>4. CASE f \in Counted
  <2>1. PICK size : size = <<Cell(f, "length", n)>>
    OBVIOUS
  <2>2. CellsOf(f, n) = size \o Items(f, n)
    BY <1>4, <2>1 DEF CellsOf, Counted
  <2>3. size \in Seq(Cells) /\ Len(size) > 0
    BY <2>1, CellType
  <2>4. size[1].n = n
    BY <2>1, CellType
  <2>5. /\ CellsOf(f, n) \in Seq(Cells) /\ Len(CellsOf(f, n)) > 0
        /\ CellsOf(f, n)[1] = size[1]
    BY <1>a, <1>i, <2>2, <2>3, FirstOfConcat
  <2> QED
    BY <2>4, <2>5
<1>5. CASE /\ f \notin {"READ", "REGS_USER", "REGS_INTR", "STACK_USER"}
           /\ f \notin Counted
  <2>1. \A l : CellsOf(f, l) = <<Cell(f, "value", 0)>>
    BY <1>5 DEF CellsOf
  <2>2. <<Cell(f, "value", 0)>> \in Seq(Cells)
    BY CellType
  <2>3. CellsOf(f, CellsOf(f, n)[1].n) = CellsOf(f, n)
    BY <2>1, Zenon
  <2> QED
    BY <2>1, <2>2, <2>3
<1> QED
  BY <1>1, <1>2, <1>3, <1>4, <1>5

----------------------------------------------------------------------------
(* Layouts.                                                                *)

(* The least of a set of places is one of them.                            *)
LEMMA LeastPlace ==
    ASSUME NEW S \in SUBSET Nat, S # {}
    PROVE  Min(S) \in S /\ \A s \in S : Min(S) <= s
<1> DEFINE Less == {ss \in Nat \X Nat : ss[1] < ss[2]}
<1>1. IsWellFoundedOn(Less, Nat)
  BY NatLessThanWellFounded DEF OpToRel
<1>2. \A x, y \in Nat : <<y, x>> \in Less <=> y < x
  OBVIOUS
<1> HIDE DEF Less
<1>3. \E x \in S : \A y \in S : ~(<<y, x>> \in Less)
  BY <1>1, WFMin, Zenon
<1>4. PICK x \in S : \A y \in S : ~(<<y, x>> \in Less)
  BY <1>3, Zenon
<1>5. \A y \in S : ~(y < x)
  BY <1>2, <1>4, Zenon
<1>6. \A y \in S : x <= y
  BY <1>5
<1> QED
  BY <1>6 DEF Min

(* The places after another one are places.                                *)
LEMMA PlacesType ==
    ASSUME NEW S, NEW layout \in Seq(S), NEW k, NEW type, NEW p \in Nat
    PROVE  /\ PlacesAfter(p, layout, k, type) \in SUBSET Nat
           /\ \A q \in PlacesAfter(p, layout, k, type) :
                 q \in 1 .. Len(layout) /\ layout[q] \in S /\ q > p
BY ElementOfSeq, LenProperties DEF PlacesAfter

(* The fields of a sample are fields.                                      *)
LEMMA SampleOrderType == AbiSampleOrder \in Seq(AllFields)
<1>1. \A q \in 1 .. 20 : AbiSampleOrder[q] \in AllFields
  BY DEF AbiSampleOrder, AllFields
<1>2. AbiSampleOrder = [q \in 1 .. 20 |-> AbiSampleOrder[q]]
  BY DEF AbiSampleOrder
<1> QED
  BY <1>1, <1>2

(* The names of the fields that the parser looks for in a sample.          *)
LEMMA ParserFieldsExist ==
    \A q \in 1 .. Len(ParserSampleOrder) : ParserSampleOrder[q] \in AllFields
BY DEF AbiSampleOrder, AllFields, ParserSampleOrder, ParserIdentity,
       ParserContext, ParserAttributes

(* The body of a record that is no sample is a sequence of fields in       *)
(* perf_event.h.                                                           *)
LEMMA AbiBodyType ==
    ASSUME NEW k \in AbiKinds \ {"SAMPLE"}
    PROVE  AbiBody(k) \in Seq(FieldNames)
<1>1. {"id", "lost", "pid_tid", "comm", "pid_ppid", "tid_ptid", "time",
       "stream_id", "addr", "len", "pgoff", "filename", "maj_min", "ino",
       "ino_generation", "prot_flags", "aux_offset", "aux_size", "flags"}
         \subseteq FieldNames
  BY DEF FieldNames
<1>2. "READ" \in FieldNames
  BY DEF FieldNames, AllFields, AbiSampleOrder
<1> QED
  BY <1>1, <1>2
  DEF AbiBody, AbiKinds, KnownKinds, TaskKinds, MmapKinds, TraceKinds

(* What the parser looks for in a record of any type that the kernel may   *)
(* write, and before the first one, is a sequence of fields.               *)
LEMMA ParserLayoutType ==
    ASSUME NEW k \in AbiKinds \cup {"none"}
    PROVE  ParserLayout(k) \in Seq(FieldNames)
<1>1. {"id", "lost", "pid_tid", "comm", "pid_ppid", "tid_ptid", "time",
       "stream_id", "addr", "len", "pgoff", "filename", "maj_min", "ino",
       "ino_generation", "prot_flags", "aux_offset", "aux_size", "flags",
       "sample_id"} \subseteq FieldNames
  BY DEF FieldNames
<1> USE DEF ParserLayout, AbiKinds, KnownKinds, TaskKinds, MmapKinds, TraceKinds
<1>2. CASE k = "SAMPLE"
  <2>1. ParserSampleOrder = [q \in 1 .. 19 |-> ParserSampleOrder[q]]
    BY DEF ParserSampleOrder, ParserIdentity, ParserContext, ParserAttributes
  <2>2. \A q \in 1 .. 19 : ParserSampleOrder[q] \in FieldNames
    BY ParserFieldsExist DEF ParserSampleOrder, ParserIdentity, ParserContext,
       ParserAttributes, FieldNames
  <2> QED
    BY <1>2, <2>1, <2>2
<1>3. CASE k \in TaskKinds
  BY <1>1, <1>3 DEF ParserTaskBody
<1>4. CASE k \in MmapKinds
  BY <1>1, <1>4 DEF ParserMmapBody
<1>5. CASE k \in TraceKinds
  BY <1>1, <1>5 DEF ParserTraceBody
<1>6. CASE k \in {"READ", "none"}
  BY <1>6
<1> QED
  BY <1>2, <1>3, <1>4, <1>5, <1>6

(* So is every layout of perf_event.h.                                     *)
LEMMA AbiLayoutType ==
    ASSUME NEW k \in AbiKinds
    PROVE  AbiLayout(k) \in Seq(FieldNames)
BY SampleOrderType, AbiBodyType, SeqMonotonic DEF AbiLayout, FieldNames

----------------------------------------------------------------------------
(* Types.                                                                  *)

(* While the kernel writes, the current record is one that it writes.      *)
TypeInv == TypeOK /\ (phase = "write" => kind \in Kinds)

(* The kernel's next place is in the layout of the record, so what is      *)
(* written is a field.                                                     *)
LEMMA NextWritten ==
    ASSUME TypeInv, phase = "write", AbiPlaces # {}
    PROVE  /\ Min(AbiPlaces) \in Nat /\ Min(AbiPlaces) \in AbiPlaces
           /\ AbiLayout(kind)[Min(AbiPlaces)] \in FieldNames
<1>1. kind \in AbiKinds /\ at \in Nat
  BY ParseAssumption DEF TypeInv, TypeOK
<1>2. /\ AbiPlaces \in SUBSET Nat
      /\ \A q \in AbiPlaces : AbiLayout(kind)[q] \in FieldNames
  BY <1>1, AbiLayoutType, PlacesType DEF AbiPlaces
<1>3. Min(AbiPlaces) \in AbiPlaces
  BY <1>2, LeastPlace
<1> QED
  BY <1>2, <1>3

(* So is what the parser looks for next, and it goes over cells.           *)
LEMMA NextParsed ==
    ASSUME TypeInv, ParserPlaces # {}
    PROVE  /\ Min(ParserPlaces) \in Nat /\ Min(ParserPlaces) \in ParserPlaces
           /\ ParserLayout(kind)[Min(ParserPlaces)] \in FieldNames
           /\ Len(Expected(ParserLayout(kind)[Min(ParserPlaces)])) \in Nat
<1>1. kind \in AbiKinds \cup {"none"} /\ at \in Nat
  BY ParseAssumption DEF TypeInv, TypeOK, AbiKinds
<1>2. /\ ParserPlaces \in SUBSET Nat
      /\ \A q \in ParserPlaces : ParserLayout(kind)[q] \in FieldNames
  BY <1>1, ParserLayoutType, PlacesType DEF ParserPlaces
<1>3. Min(ParserPlaces) \in ParserPlaces
  BY <1>2, LeastPlace
<1> DEFINE f == ParserLayout(kind)[Min(ParserPlaces)]
<1>4. f \in FieldNames
  BY <1>2, <1>3
<1>5. offset < Len(cells) => event \in Cells
  BY ElementOfSeq, LenProperties DEF TypeInv, TypeOK, event
<1>6. (IF offset < Len(cells) THEN event.n ELSE 0) \in Lengths \cup {0}
  BY <1>5 DEF Cells
<1>7. Expected(f) \in Seq(Cells)
  BY <1>4, <1>6, CellsOfType DEF Expected
<1>8. Len(Expected(f)) \in Nat
  BY <1>7, LenProperties
<1> QED
  BY <1>2, <1>3, <1>4, <1>8

(* The variables have their types at first.                                *)
LEMMA TypeInit == Init => TypeInv
<1> SUFFICES ASSUME Init PROVE TypeInv
  OBVIOUS
<1>1. /\ records \in Seq(Kinds) /\ Len(records) <= MaxRecords
      /\ cells \in Seq(Cells) /\ decoded \in Seq(KnownKinds)
  BY ParseAssumption DEF Init
<1> QED
  BY <1>1, ParseAssumption DEF Init, TypeInv, TypeOK

(* Every step keeps the types: each of the kernel, which writes cells, and *)
(* each of the parser, which moves offset by the length of a field.        *)
LEMMA TypeStep == TypeInv /\ [Next]_vars => TypeInv'
<1> SUFFICES ASSUME TypeInv, [Next]_vars PROVE TypeInv'
  OBVIOUS
<1> USE DEF TypeInv, TypeOK
<1>1. CASE OpenEvent
  BY <1>1 DEF OpenEvent
<1>2. CASE OpenEventFallback
  BY <1>2 DEF OpenEventFallback, WithoutBranches, HandleAfterFallback
<1>3. ASSUME NEW k \in Kinds, WriteHeader(k) PROVE TypeInv'
  <2>1. Cell(k, "header", 0) \in Cells
    BY CellType
  <2>2. cells' \in Seq(Cells)
    BY <1>3, <2>1, AppendProperties DEF WriteHeader
  <2>3. records' \in Seq(Kinds) /\ Len(records') <= MaxRecords
    <3>1. /\ Append(records, k) \in Seq(Kinds)
          /\ Len(Append(records, k)) = Len(records) + 1
      BY AppendProperties
    <3>2. Len(records) \in Nat
      BY LenProperties
    <3> QED
      BY <1>3, <3>1, <3>2, ParseAssumption DEF WriteHeader
  <2> QED
    BY <1>3, <2>2, <2>3 DEF WriteHeader
<1>4. ASSUME NEW n \in Lengths, WriteField(n) PROVE TypeInv'
  <2>1. /\ Min(AbiPlaces) \in Nat
        /\ AbiLayout(kind)[Min(AbiPlaces)] \in FieldNames
    BY <1>4, NextWritten DEF WriteField
  <2>2. CellsOf(AbiLayout(kind)[Min(AbiPlaces)], n) \in Seq(Cells)
    BY <2>1, CellsOfType
  <2>3. cells' \in Seq(Cells)
    BY <1>4, <2>2, ConcatProperties DEF WriteField
  <2> QED
    BY <1>4, <2>1, <2>3 DEF WriteField
<1>5. CASE WriteEnd
  BY <1>5 DEF WriteEnd
<1>6. CASE CallParser
  BY <1>6 DEF CallParser
<1>7. CASE ParseHeader
  <2>1. event.field \in KnownKinds
    BY <1>7 DEF ParseHeader, Unknown
  <2>2. decoded' \in Seq(KnownKinds)
    BY <1>7, <2>1, AppendProperties DEF ParseHeader
  <2> QED
    BY <1>7, <2>1, <2>2 DEF ParseHeader, AtRecord, BetweenRecords
<1>8. CASE ParseUnknown
  <2>1. Len(cells) \in Nat
    BY LenProperties
  <2> QED
    BY <1>8, <2>1 DEF ParseUnknown, AtRecord, BetweenRecords
<1>9. CASE ParseField
  <2>1. /\ Min(ParserPlaces) \in Nat
        /\ Len(Expected(ParserLayout(kind)[Min(ParserPlaces)])) \in Nat
    BY <1>9, NextParsed DEF ParseField
  <2>2. garbled' \in BOOLEAN
    BY <1>9 DEF ParseField, Fits
  <2>3. offset' \in Nat /\ at' \in Nat
    BY <1>9, <2>1 DEF ParseField
  <2> QED
    BY <1>9, <2>2, <2>3 DEF ParseField
<1>10. CASE ReturnHead
  <2>1. /\ records' \in Seq(Kinds) /\ Len(records') <= MaxRecords
        /\ cells' \in Seq(Cells) /\ decoded' \in Seq(KnownKinds)
    BY <1>10, ParseAssumption DEF ReturnHead
  <2> QED
    BY <1>10, <2>1 DEF ReturnHead
<1>11. CASE UNCHANGED vars
  BY <1>11 DEF vars
<1> QED
  BY <1>1, <1>2, <1>3, <1>4, <1>5, <1>6, <1>7, <1>8, <1>9, <1>10, <1>11
  DEF Next, Parser

(* The variables have their types, whatever the caller asks for and        *)
(* whatever the kernel writes, also when the parser has gone astray.       *)
THEOREM ParseTypeCorrect == Spec => []TypeOK
<1>1. Spec => []TypeInv
  BY TypeInit, TypeStep, PTL DEF Spec
<1>2. TypeInv => TypeOK
  BY DEF TypeInv
<1> QED
  BY <1>1, <1>2, PTL

----------------------------------------------------------------------------
(* Layouts that agree.                                                     *)

(* A place of the kernel's layout and one of the parser's are of the same  *)
(* field, or both are the header.                                          *)
SamePlace(k, type, q, s) ==
    \/ q = 0 /\ s = 0
    \/ /\ q \in PlacesAfter(0, AbiLayout(k), k, type)
       /\ s \in PlacesAfter(0, ParserLayout(k), k, type)
       /\ AbiLayout(k)[q] = ParserLayout(k)[s]

(* The parser looks for the fields that the kernel writes, and in the same *)
(* order.                                                                  *)
Agree(k, type) ==
    LET abi == PlacesAfter(0, AbiLayout(k), k, type)
        parser == PlacesAfter(0, ParserLayout(k), k, type)
    IN  /\ \A q \in abi : \E s \in parser : SamePlace(k, type, q, s)
        /\ \A s \in parser : \E q \in abi : SamePlace(k, type, q, s)
        /\ \A q1, q2 \in abi, s1, s2 \in parser :
              SamePlace(k, type, q1, s1) /\ SamePlace(k, type, q2, s2) =>
                  (q1 < q2 <=> s1 < s2)

(* Both come from one place to the next together.                          *)
LEMMA NextTogether ==
    ASSUME NEW k \in AbiKinds, NEW type, Agree(k, type),
           NEW q, NEW s, SamePlace(k, type, q, s)
    PROVE  LET abi == PlacesAfter(q, AbiLayout(k), k, type)
               parser == PlacesAfter(s, ParserLayout(k), k, type)
           IN  /\ abi = {} <=> parser = {}
               /\ abi # {} => SamePlace(k, type, Min(abi), Min(parser))
<1> DEFINE abi0 == PlacesAfter(0, AbiLayout(k), k, type)
           parser0 == PlacesAfter(0, ParserLayout(k), k, type)
           abi == PlacesAfter(q, AbiLayout(k), k, type)
           parser == PlacesAfter(s, ParserLayout(k), k, type)
<1>1. /\ AbiLayout(k) \in Seq(FieldNames)
      /\ ParserLayout(k) \in Seq(FieldNames)
  BY AbiLayoutType, ParserLayoutType
<1>2. /\ abi0 \in SUBSET Nat /\ parser0 \in SUBSET Nat
      /\ \A x \in abi0 : x > 0
      /\ \A y \in parser0 : y > 0
  BY <1>1, PlacesType
<1>3. /\ q \in Nat /\ (q = 0 \/ q \in abi0)
      /\ s \in Nat /\ (s = 0 \/ s \in parser0)
      /\ q = 0 <=> s = 0
  BY <1>2 DEF SamePlace
<1>4. /\ abi = {x \in abi0 : q < x}
      /\ parser = {y \in parser0 : s < y}
  <2>1. Len(AbiLayout(k)) \in Nat /\ Len(ParserLayout(k)) \in Nat
    BY <1>1, LenProperties
  <2> QED
    BY <1>3, <2>1 DEF PlacesAfter
<1>5. \A x \in abi0, y \in parser0 :
         SamePlace(k, type, x, y) => (q < x <=> s < y)
  <2>1. CASE q = 0
    BY <2>1, <1>2, <1>3
  <2>2. CASE q # 0
    BY <2>2, <1>3 DEF Agree
  <2> QED
    BY <2>1, <2>2
<1>6. \A x \in abi : \E y \in parser : SamePlace(k, type, x, y)
  BY <1>4, <1>5 DEF Agree
<1>7. \A y \in parser : \E x \in abi : SamePlace(k, type, x, y)
  BY <1>4, <1>5 DEF Agree
<1>8. ASSUME abi # {} PROVE SamePlace(k, type, Min(abi), Min(parser))
  <2>1. abi \in SUBSET Nat /\ parser \in SUBSET Nat /\ parser # {}
    BY <1>2, <1>4, <1>6, <1>8
  <2>2. /\ Min(abi) \in abi /\ \A x \in abi : Min(abi) <= x
        /\ Min(parser) \in parser /\ \A y \in parser : Min(parser) <= y
    BY <1>8, <2>1, LeastPlace
  <2>3. PICK y \in parser : SamePlace(k, type, Min(abi), y)
    BY <1>6, <2>2
  <2>4. PICK x \in abi : SamePlace(k, type, x, Min(parser))
    BY <1>7, <2>2
  <2>5. Min(abi) < x <=> y < Min(parser)
    BY <1>4, <2>2, <2>3, <2>4 DEF Agree
  <2>6. Min(parser) <= y /\ Min(abi) <= x
    BY <2>2, <2>3, <2>4
  <2>7. x = Min(abi)
    BY <2>1, <2>2, <2>5, <2>6
  <2> QED
    BY <2>4, <2>7
<1> QED
  BY <1>6, <1>7, <1>8

(* What the parser is told and what the kernel writes, for every type that *)
(* is asked for: the layouts agree, and branches are asked for only where  *)
(* they can be had.                                                        *)
Agreement ==
    \A type \in SampleTypes :
        /\ \A k \in Kinds \cap KnownKinds : Agree(k, type)
        /\ "BRANCH_STACK" \in type => BranchSupported

----------------------------------------------------------------------------
(* What is written.                                                        *)
(*                                                                         *)
(* The buffer is cut into pieces, a header or a field each: piece i is at  *)
(* place p[i] of record r[i] and ends with cell b[i], where b[0] = 0.      *)

(* The cells from + 1 .. to are what the kernel writes at place q of a     *)
(* record of kind k.                                                       *)
Piece(k, q, from, to) ==
    /\ from < to /\ to <= Len(cells)
    /\ \/ q = 0 /\ to = from + 1 /\ cells[to] = Cell(k, "header", 0)
       \/ /\ q \in PlacesAfter(0, AbiLayout(k), k, attr)
          /\ \E n \in Lengths :
                /\ to = from + Len(CellsOf(AbiLayout(k)[q], n))
                /\ \A j \in 1 .. Len(CellsOf(AbiLayout(k)[q], n)) :
                      cells[from + j] = CellsOf(AbiLayout(k)[q], n)[j]

(* The places behind place q of record x.                                  *)
Rest(x, q) == PlacesAfter(q, AbiLayout(records[x]), records[x], attr)

(* Place q2 of record x2 comes next after place q1 of record x1.           *)
Follows(x1, q1, x2, q2) ==
    \/ Rest(x1, q1) # {} /\ x2 = x1 /\ q2 = Min(Rest(x1, q1))
    \/ Rest(x1, q1) = {} /\ x2 = x1 + 1 /\ q2 = 0

Covers(m, r, p, b) ==
    /\ r \in [1 .. m -> Nat] /\ p \in [1 .. m -> Nat] /\ b \in [0 .. m -> Nat]
    /\ b[0] = 0 /\ b[m] = Len(cells)
    /\ m = 0 => Len(records) = 0
    /\ m > 0 => r[1] = 1 /\ p[1] = 0 /\ r[m] = Len(records)
    /\ \A i \in 1 .. m : /\ r[i] \in 1 .. Len(records)
                         /\ Piece(records[r[i]], p[i], b[i - 1], b[i])
    /\ \A i \in 1 .. m - 1 : Follows(r[i], p[i], r[i + 1], p[i + 1])

(* The kernel has written the last piece.                                  *)
Writing(m, r, p) == m > 0 /\ kind = records[r[m]] /\ at = p[m]

(* The last record is whole.                                               *)
Whole(m, r, p) == m > 0 => Rest(r[m], p[m]) = {}

(* The parser has gone over pieces 1 .. i, or has skipped what is left     *)
(* from a record that it does not know.                                    *)
Parsed(i, r, p, b) ==
    /\ offset = b[i]
    /\ i = 0 => kind = "none" /\ Len(decoded) = 0
    /\ i > 0 => /\ Len(decoded) = r[i] /\ kind = records[r[i]]
                /\ SamePlace(kind, attr, p[i], at)

Skipped ==
    /\ offset = Len(cells) /\ ParserPlaces = {}
    /\ Len(decoded) < Len(records)
    /\ Unknown(records[Len(decoded) + 1])

(* The records of the call that are decoded.                               *)
DecodedInv ==
    /\ Len(decoded) <= Len(records)
    /\ \A k \in 1 .. Len(decoded) :
          decoded[k] = records[k] /\ records[k] \in KnownKinds

(* Outside of a call the parser is at the start.                           *)
IdleInv ==
    /\ phase = "setup" => records = <<>> /\ cells = <<>>
    /\ phase # "setup" => attr = handle
    /\ phase # "parse" => offset = 0 /\ decoded = <<>>
    /\ phase \in {"setup", "count"} => kind = "none"

PiecesInv ==
    \E m \in Nat : \E r, p \in [1 .. m -> Nat], b \in [0 .. m -> Nat] :
        /\ Covers(m, r, p, b)
        /\ phase = "write" => Writing(m, r, p)
        /\ phase # "write" => Whole(m, r, p)
        /\ phase = "parse" => Skipped \/ \E i \in 0 .. m : Parsed(i, r, p, b)

ParseInv ==
    /\ TypeInv /\ ~garbled /\ handle \in SampleTypes
    /\ IdleInv /\ DecodedInv /\ PiecesInv

----------------------------------------------------------------------------
(* The kernel's steps.                                                     *)

(* One more piece.                                                         *)
Ext(f, m, v) == [i \in 1 .. m + 1 |-> IF i = m + 1 THEN v ELSE f[i]]
ExtEnd(b, m, v) == [i \in 0 .. m + 1 |-> IF i = m + 1 THEN v ELSE b[i]]

(* What is appended leaves the pieces alone.                               *)
LEMMA PieceKept ==
    ASSUME cells \in Seq(Cells), NEW E \in Seq(Cells), cells' = cells \o E,
           attr' = attr, NEW k, NEW q,
           NEW from \in Nat, NEW to \in Nat, Piece(k, q, from, to)
    PROVE  Piece(k, q, from, to)'
<1>1. /\ Len(cells) \in Nat /\ Len(E) \in Nat
      /\ Len(cells') = Len(cells) + Len(E)
  BY LenProperties, ConcatProperties
<1>2. \A x \in 1 .. Len(cells) : cells'[x] = cells[x]
  BY <1>1, ConcatProperties
<1>3. from < to /\ to <= Len(cells')
  BY <1>1 DEF Piece
<1>4. CASE q = 0 /\ to = from + 1 /\ cells[to] = Cell(k, "header", 0)
  <2>1. to \in 1 .. Len(cells)
    BY <1>1, <1>4 DEF Piece
  <2> QED
    BY <1>2, <1>3, <1>4, <2>1 DEF Piece
<1>5. CASE /\ q \in PlacesAfter(0, AbiLayout(k), k, attr)
           /\ \E n \in Lengths :
                /\ to = from + Len(CellsOf(AbiLayout(k)[q], n))
                /\ \A j \in 1 .. Len(CellsOf(AbiLayout(k)[q], n)) :
                      cells[from + j] = CellsOf(AbiLayout(k)[q], n)[j]
  <2>1. PICK n \in Lengths :
                /\ to = from + Len(CellsOf(AbiLayout(k)[q], n))
                /\ \A j \in 1 .. Len(CellsOf(AbiLayout(k)[q], n)) :
                      cells[from + j] = CellsOf(AbiLayout(k)[q], n)[j]
    BY <1>5
  <2> DEFINE C == CellsOf(AbiLayout(k)[q], n)
  <2>2. \A j \in 1 .. Len(C) : cells'[from + j] = C[j]
    <3> SUFFICES ASSUME NEW j \in 1 .. Len(C) PROVE cells'[from + j] = C[j]
      OBVIOUS
    <3>1. from + j \in 1 .. Len(cells)
      BY <1>1, <2>1 DEF Piece
    <3> QED
      BY <1>2, <2>1, <3>1
  <2> QED
    BY <1>3, <1>5, <2>1, <2>2 DEF Piece
<1> QED
  BY <1>4, <1>5 DEF Piece

(* A step appends place q of record x, up to cell end, after m pieces.     *)
Appends(m, r, p, b, x, q, end) ==
    /\ attr' = attr
    /\ \E E \in Seq(Cells) : cells' = cells \o E
    /\ x = Len(records') /\ x > 0 /\ Len(records) <= x
    /\ \A y \in 1 .. Len(records) : records'[y] = records[y]
    /\ end = Len(cells')
    /\ Piece(records[x], q, b[m], end)'
    /\ m = 0 => x = 1 /\ q = 0
    /\ m > 0 => Follows(r[m], p[m], x, q)

(* What is covered and a piece that comes next are covered.                *)
LEMMA CoversMore ==
    ASSUME TypeInv, TypeInv',
           NEW m \in Nat, NEW r \in [1 .. m -> Nat], NEW p \in [1 .. m -> Nat],
           NEW b \in [0 .. m -> Nat], Covers(m, r, p, b),
           NEW x \in Nat, NEW q \in Nat, NEW end \in Nat,
           Appends(m, r, p, b, x, q, end)
    PROVE  /\ Ext(r, m, x) \in [1 .. m + 1 -> Nat]
           /\ Ext(p, m, q) \in [1 .. m + 1 -> Nat]
           /\ ExtEnd(b, m, end) \in [0 .. m + 1 -> Nat]
           /\ Covers(m + 1, Ext(r, m, x), Ext(p, m, q), ExtEnd(b, m, end))'
<1>0. PICK R, P, B : R = Ext(r, m, x) /\ P = Ext(p, m, q)
                     /\ B = ExtEnd(b, m, end)
  OBVIOUS
<1>1. /\ Len(cells) \in Nat /\ Len(cells') \in Nat
      /\ Len(records) \in Nat /\ Len(records') \in Nat
  BY LenProperties DEF TypeInv, TypeOK
<1>2. /\ R \in [1 .. m + 1 -> Nat] /\ P \in [1 .. m + 1 -> Nat]
      /\ B \in [0 .. m + 1 -> Nat]
      /\ \A i \in 1 .. m : R[i] = r[i] /\ P[i] = p[i]
      /\ \A i \in 0 .. m : B[i] = b[i]
      /\ R[m + 1] = x /\ P[m + 1] = q /\ B[m + 1] = end
  BY <1>0, <1>1 DEF Ext, ExtEnd
<1>3. \A i \in 1 .. m + 1 :
         /\ R[i] \in 1 .. Len(records')
         /\ Piece(records[R[i]], P[i], B[i - 1], B[i])'
  <2> SUFFICES ASSUME NEW i \in 1 .. m + 1
               PROVE  /\ R[i] \in 1 .. Len(records')
                      /\ Piece(records[R[i]], P[i], B[i - 1], B[i])'
    OBVIOUS
  <2>1. CASE i = m + 1
    <3>1. i - 1 = m /\ B[i - 1] = b[m] /\ B[i] = end /\ R[i] = x /\ P[i] = q
      BY <1>2, <2>1
    <3>2. Piece(records[x], q, b[m], end)' /\ x \in 1 .. Len(records')
      BY DEF Appends
    <3> QED
      BY <3>1, <3>2
  <2>2. CASE i \in 1 .. m
    <3>1. /\ r[i] \in 1 .. Len(records)
          /\ Piece(records[r[i]], p[i], b[i - 1], b[i])
      BY <2>2 DEF Covers
    <3>2. /\ i - 1 \in 0 .. m /\ i \in 0 .. m
          /\ b[i - 1] \in Nat /\ b[i] \in Nat
      BY <2>2
    <3>3. Piece(records[r[i]], p[i], b[i - 1], b[i])'
      <4>1. \A k : Piece(k, p[i], b[i - 1], b[i]) =>
                   Piece(k, p[i], b[i - 1], b[i])'
        BY <3>2, PieceKept DEF TypeInv, TypeOK, Appends
      <4>2. records'[r[i]] = records[r[i]]
        BY <3>1 DEF Appends
      <4>3. Piece(records[r[i]], p[i], b[i - 1], b[i])
        BY <3>1
      <4> QED
        BY <4>1, <4>2, <4>3
    <3>4. R[i] = r[i] /\ P[i] = p[i] /\ B[i - 1] = b[i - 1] /\ B[i] = b[i]
      BY <1>2, <2>2, <3>2
    <3>5. r[i] \in 1 .. Len(records')
      BY <1>1, <3>1 DEF Appends
    <3> QED
      BY <3>3, <3>4, <3>5
  <2> QED
    BY <2>1, <2>2
<1>4. \A i \in 1 .. m : Follows(R[i], P[i], R[i + 1], P[i + 1])'
  <2> SUFFICES ASSUME NEW i \in 1 .. m
               PROVE  Follows(R[i], P[i], R[i + 1], P[i + 1])'
    OBVIOUS
  <2>1. r[i] \in 1 .. Len(records)
    BY DEF Covers
  <2>2. Follows(r[i], p[i], R[i + 1], P[i + 1])
    <3>1. CASE i = m
      BY <1>2, <3>1 DEF Appends
    <3>2. CASE i \in 1 .. m - 1
      <4>1. i + 1 \in 1 .. m
        BY <3>2
      <4> QED
        BY <1>2, <3>2, <4>1 DEF Covers
    <3> QED
      BY <3>1, <3>2
  <2>3. \A y1, y2 : Rest(r[i], y1)' = Rest(r[i], y1)
    BY <2>1 DEF Rest, Appends
  <2> QED
    BY <1>2, <2>2, <2>3 DEF Follows
<1>5. B[0] = 0 /\ B[m + 1] = Len(cells') /\ R[m + 1] = Len(records')
  BY <1>2 DEF Covers, Appends
<1>6. R[1] = 1 /\ P[1] = 0
  <2>1. CASE m = 0
    BY <1>2, <2>1 DEF Appends
  <2>2. CASE m > 0
    BY <1>2, <2>2 DEF Covers
  <2> QED
    BY <2>1, <2>2
<1>7. Covers(m + 1, R, P, B)'
  <2>1. m + 1 # 0 /\ 1 .. (m + 1) - 1 = 1 .. m
    OBVIOUS
  <2> QED
    BY <1>2, <1>3, <1>4, <1>5, <1>6, <2>1, Zenon DEF Covers
<1> QED
  BY <1>0, <1>2, <1>7

----------------------------------------------------------------------------
(* The invariant.                                                          *)

(* Nothing is written at first.                                            *)
LEMMA NothingWritten ==
    ASSUME records = <<>>, cells = <<>>, phase \in {"setup", "count"}
    PROVE  PiecesInv
<1>1. PICK f, e : f = [i \in 1 .. 0 |-> 0] /\ e = [i \in 0 .. 0 |-> 0]
  OBVIOUS
<1>2. /\ f \in [1 .. 0 -> Nat] /\ e \in [0 .. 0 -> Nat] /\ e[0] = 0
      /\ Len(records) = 0 /\ Len(cells) = 0
  BY <1>1
<1>3. \A i : i \notin 1 .. 0 /\ i \notin 1 .. 0 - 1
  OBVIOUS
<1>4. Covers(0, f, f, e) /\ Whole(0, f, f)
  BY <1>2, <1>3 DEF Covers, Whole
<1> QED
  BY <1>2, <1>4 DEF PiecesInv

(* Nor is anything left when a call returns.                               *)
LEMMA NothingLeft ==
    ASSUME records' = <<>>, cells' = <<>>, phase' \in {"setup", "count"}
    PROVE  PiecesInv'
<1>1. PICK f, e : f = [i \in 1 .. 0 |-> 0] /\ e = [i \in 0 .. 0 |-> 0]
  OBVIOUS
<1>2. /\ f \in [1 .. 0 -> Nat] /\ e \in [0 .. 0 -> Nat] /\ e[0] = 0
      /\ Len(records') = 0 /\ Len(cells') = 0
  BY <1>1
<1>3. \A i : i \notin 1 .. 0 /\ i \notin 1 .. 0 - 1
  OBVIOUS
<1>4. Covers(0, f, f, e)' /\ Whole(0, f, f)'
  BY <1>2, <1>3 DEF Covers, Whole
<1> QED
  BY <1>2, <1>4 DEF PiecesInv

(* PAPI_sample_init starts with an empty ring.                             *)
LEMMA ParseInit == Init => ParseInv
<1> SUFFICES ASSUME Init PROVE ParseInv
  OBVIOUS
<1>1. TypeInv
  BY TypeInit
<1>2. PiecesInv
  BY NothingWritten DEF Init
<1> QED
  BY <1>1, <1>2 DEF Init, ParseInv, IdleInv, DecodedInv

(* The event that is opened is the one that the handler parses for.        *)
LEMMA OpenStep ==
    ASSUME Agreement, ParseInv, TypeInv', OpenEvent \/ OpenEventFallback
    PROVE  ParseInv'
<1>1. PiecesInv'
  BY NothingLeft DEF OpenEvent, OpenEventFallback, ParseInv, IdleInv
<1>2. attr' = handle' /\ handle' \in SampleTypes
  BY DEF OpenEvent, OpenEventFallback, ParseInv, Agreement, WithoutBranches,
         HandleAfterFallback
<1> QED
  BY <1>1, <1>2
  DEF OpenEvent, OpenEventFallback, ParseInv, IdleInv, DecodedInv

(* The header of a record begins a new piece behind the whole ones.        *)
LEMMA WriteHeaderStep ==
    ASSUME ParseInv, TypeInv', NEW k \in Kinds, WriteHeader(k)
    PROVE  ParseInv'
<1>1. PICK m \in Nat : \E r, p \in [1 .. m -> Nat], b \in [0 .. m -> Nat] :
         Covers(m, r, p, b) /\ Whole(m, r, p)
  BY DEF WriteHeader, ParseInv, PiecesInv
<1>2. PICK r \in [1 .. m -> Nat], p \in [1 .. m -> Nat],
           b \in [0 .. m -> Nat] :
         Covers(m, r, p, b) /\ Whole(m, r, p)
  BY <1>1
<1>3. PICK x, end : x = Len(records') /\ end = Len(cells')
  OBVIOUS
<1>4. /\ x \in Nat /\ x = Len(records) + 1 /\ records'[x] = k
      /\ \A y \in 1 .. Len(records) : records'[y] = records[y]
      /\ Len(records) \in Nat
  BY <1>3, AppendProperties, LenProperties
  DEF WriteHeader, ParseInv, TypeInv, TypeOK
<1>5. /\ end \in Nat /\ end = Len(cells) + 1
      /\ cells'[end] = Cell(k, "header", 0)
      /\ Len(cells) \in Nat
  BY <1>3, CellType, AppendProperties, LenProperties
  DEF WriteHeader, ParseInv, TypeInv, TypeOK
<1>6. \E E \in Seq(Cells) : cells' = cells \o E
  <2>1. <<Cell(k, "header", 0)>> \in Seq(Cells)
    BY CellType
  <2>2. cells' = cells \o <<Cell(k, "header", 0)>>
    BY CellType, AppendIsConcat DEF WriteHeader, ParseInv, TypeInv, TypeOK
  <2> QED
    BY <2>1, <2>2
<1>7. Piece(records[x], 0, b[m], end)'
  BY <1>2, <1>3, <1>4, <1>5 DEF Piece, Covers
<1>8. m > 0 => Follows(r[m], p[m], x, 0)
  BY <1>2, <1>4 DEF Follows, Whole, Covers
<1>9. m = 0 => x = 1
  BY <1>2, <1>4 DEF Covers
<1>10. Appends(m, r, p, b, x, 0, end)
  <2>1. attr' = attr /\ x > 0 /\ Len(records) <= x
    BY <1>4 DEF WriteHeader
  <2> QED
    BY <1>3, <1>4, <1>6, <1>7, <1>8, <1>9, <2>1, Zenon DEF Appends
<1>11. PICK R, P, B : R = Ext(r, m, x) /\ P = Ext(p, m, 0)
                      /\ B = ExtEnd(b, m, end)
  OBVIOUS
<1>12. /\ R \in [1 .. m + 1 -> Nat] /\ P \in [1 .. m + 1 -> Nat]
       /\ B \in [0 .. m + 1 -> Nat]
       /\ Covers(m + 1, R, P, B)'
  BY <1>2, <1>4, <1>5, <1>10, <1>11, CoversMore DEF ParseInv
<1>13. Writing(m + 1, R, P)'
  BY <1>4, <1>11 DEF Writing, Ext, WriteHeader
<1>14. PiecesInv'
  <2>1. phase' = "write" /\ m + 1 \in Nat
    BY DEF WriteHeader
  <2> QED
    BY <1>12, <1>13, <2>1 DEF PiecesInv
<1>15. DecodedInv'
  BY <1>4 DEF WriteHeader, ParseInv, DecodedInv, IdleInv
<1> QED
  BY <1>14, <1>15 DEF WriteHeader, ParseInv, IdleInv

(* A field that the kernel writes is one more piece, and follows the one   *)
(* before it in the layout of the record.                                  *)
LEMMA WriteFieldStep ==
    ASSUME ParseInv, TypeInv', NEW n \in Lengths, WriteField(n)
    PROVE  ParseInv'
<1>1. PICK m \in Nat : \E r, p \in [1 .. m -> Nat], b \in [0 .. m -> Nat] :
         Covers(m, r, p, b) /\ Writing(m, r, p)
  BY DEF WriteField, ParseInv, PiecesInv
<1>2. PICK r \in [1 .. m -> Nat], p \in [1 .. m -> Nat],
           b \in [0 .. m -> Nat] :
         Covers(m, r, p, b) /\ Writing(m, r, p)
  BY <1>1
<1>3. PICK x, end, q, E : /\ x = Len(records') /\ end = Len(cells')
                          /\ q = Min(AbiPlaces)
                          /\ E = CellsOf(AbiLayout(kind)[Min(AbiPlaces)], n)
  OBVIOUS
<1>4. /\ q \in Nat /\ q \in AbiPlaces /\ E \in Seq(Cells) /\ Len(E) > 0
      /\ E = CellsOf(AbiLayout(kind)[q], n)
  BY <1>3, NextWritten, CellsOfType DEF WriteField, ParseInv
<1>5. cells' = cells \o E /\ records' = records /\ kind' = kind /\ at' = q
  BY <1>3 DEF WriteField
<1>6. /\ Len(cells) \in Nat /\ Len(E) \in Nat /\ end \in Nat
      /\ end = Len(cells) + Len(E)
      /\ \A j \in 1 .. Len(E) : cells'[Len(cells) + j] = E[j]
  BY <1>3, <1>4, <1>5, ConcatProperties, LenProperties
  DEF ParseInv, TypeInv, TypeOK
<1>7. m > 0 /\ x = Len(records) /\ x \in Nat /\ x > 0
      /\ records[x] = kind /\ r[m] = x /\ at = p[m]
  BY <1>2, <1>3, <1>5 DEF Writing, Covers
<1>8. AbiPlaces = Rest(x, p[m])
  BY <1>7 DEF AbiPlaces, Rest
<1>9. Piece(records[x], q, b[m], end)'
  <2>1. b[m] = Len(cells) /\ records'[x] = kind /\ attr' = attr
    BY <1>2, <1>5, <1>7 DEF Covers, WriteField
  <2>2. q \in PlacesAfter(0, AbiLayout(kind), kind, attr)
    <3>1. at \in Nat
      BY DEF ParseInv, TypeInv, TypeOK
    <3> QED
      BY <1>4, <3>1 DEF AbiPlaces, PlacesAfter
  <2>3. b[m] < end /\ end <= Len(cells')
    BY <1>3, <1>4, <1>6, <2>1
  <2> QED
    BY <1>4, <1>6, <2>1, <2>2, <2>3 DEF Piece
<1>10. Appends(m, r, p, b, x, q, end)
  <2>1. attr' = attr /\ x > 0 /\ Len(records) <= x /\ m # 0
    BY <1>7 DEF WriteField
  <2>2. Follows(r[m], p[m], x, q)
    BY <1>3, <1>4, <1>7, <1>8 DEF Follows
  <2>3. \A y \in 1 .. Len(records) : records'[y] = records[y]
    BY <1>5
  <2> QED
    BY <1>3, <1>4, <1>5, <1>9, <2>1, <2>2, <2>3, Zenon DEF Appends
<1>11. PICK R, P, B : R = Ext(r, m, x) /\ P = Ext(p, m, q)
                      /\ B = ExtEnd(b, m, end)
  OBVIOUS
<1>12. /\ R \in [1 .. m + 1 -> Nat] /\ P \in [1 .. m + 1 -> Nat]
       /\ B \in [0 .. m + 1 -> Nat]
       /\ Covers(m + 1, R, P, B)'
  BY <1>2, <1>4, <1>6, <1>7, <1>10, <1>11, CoversMore DEF ParseInv
<1>13. Writing(m + 1, R, P)'
  BY <1>5, <1>7, <1>11 DEF Writing, Ext
<1>14. PiecesInv'
  <2>1. phase' = "write" /\ m + 1 \in Nat
    BY DEF WriteField
  <2> QED
    BY <1>12, <1>13, <2>1 DEF PiecesInv
<1> QED
  BY <1>14 DEF WriteField, ParseInv, IdleInv, DecodedInv

(* What is written stays while nothing is.                                 *)
LEMMA CoversSame ==
    ASSUME UNCHANGED <<attr, records, cells>>, NEW m, NEW r, NEW p, NEW b
    PROVE  /\ Covers(m, r, p, b) => Covers(m, r, p, b)'
           /\ Whole(m, r, p) => Whole(m, r, p)'
BY DEF Covers, Whole, Piece, Follows, Rest

(* When the layout has no field left, the record is whole.                 *)
LEMMA WriteEndStep ==
    ASSUME ParseInv, TypeInv', WriteEnd
    PROVE  ParseInv'
<1>1. PICK m \in Nat : \E r, p \in [1 .. m -> Nat], b \in [0 .. m -> Nat] :
         Covers(m, r, p, b) /\ Writing(m, r, p)
  BY DEF WriteEnd, ParseInv, PiecesInv
<1>2. PICK r \in [1 .. m -> Nat], p \in [1 .. m -> Nat],
           b \in [0 .. m -> Nat] :
         Covers(m, r, p, b) /\ Writing(m, r, p)
  BY <1>1
<1>3. Whole(m, r, p)
  BY <1>2 DEF Whole, Writing, Rest, WriteEnd, AbiPlaces
<1>4. UNCHANGED <<attr, records, cells>> /\ phase' = "count"
  BY DEF WriteEnd
<1>5. Covers(m, r, p, b)' /\ Whole(m, r, p)'
  BY <1>2, <1>3, <1>4, CoversSame
<1>6. PiecesInv'
  BY <1>4, <1>5 DEF PiecesInv
<1> QED
  BY <1>6 DEF WriteEnd, ParseInv, IdleInv, DecodedInv

(* A call of perf_mmap_read begins before the first piece.                 *)
LEMMA CallParserStep ==
    ASSUME ParseInv, TypeInv', CallParser
    PROVE  ParseInv'
<1>1. PICK m \in Nat : \E r, p \in [1 .. m -> Nat], b \in [0 .. m -> Nat] :
         Covers(m, r, p, b) /\ Whole(m, r, p)
  BY DEF CallParser, ParseInv, PiecesInv
<1>2. PICK r \in [1 .. m -> Nat], p \in [1 .. m -> Nat],
           b \in [0 .. m -> Nat] :
         Covers(m, r, p, b) /\ Whole(m, r, p)
  BY <1>1
<1>3. UNCHANGED <<attr, records, cells>> /\ phase' = "parse"
  BY DEF CallParser
<1>4. Covers(m, r, p, b)' /\ Whole(m, r, p)'
  BY <1>2, <1>3, CoversSame
<1>5. Parsed(0, r, p, b)' /\ 0 \in 0 .. m
  BY <1>2 DEF Covers, Parsed, CallParser, ParseInv, IdleInv
<1>6. PiecesInv'
  BY <1>3, <1>4, <1>5 DEF PiecesInv
<1> QED
  BY <1>6 DEF CallParser, ParseInv, IdleInv, DecodedInv

----------------------------------------------------------------------------
(* The parser's steps.                                                     *)

(* In a call: what is written, whole, and how far the parser is.           *)
AtPiece(m, r, p, b, i) ==
    /\ m \in Nat /\ r \in [1 .. m -> Nat] /\ p \in [1 .. m -> Nat]
    /\ b \in [0 .. m -> Nat] /\ i \in 0 .. m
    /\ Covers(m, r, p, b) /\ Whole(m, r, p) /\ Parsed(i, r, p, b)

(* A call that has not skipped is somewhere.                               *)
LEMMA SomePiece ==
    ASSUME ParseInv, phase = "parse"
    PROVE  \/ Skipped
           \/ \E m, r, p, b, i : AtPiece(m, r, p, b, i)
BY DEF ParseInv, PiecesInv, AtPiece

(* The step to piece i goes there.                                         *)
LEMMA NextPiece ==
    ASSUME TypeInv', IdleInv', DecodedInv', ~garbled', phase' = "parse",
           ParseInv, UNCHANGED <<handle, attr, records, cells>>,
           NEW m, NEW r, NEW p, NEW b, NEW i, AtPiece(m, r, p, b, i),
           i + 1 \in 0 .. m, Parsed(i + 1, r, p, b)'
    PROVE  ParseInv'
<1>1. Covers(m, r, p, b)' /\ Whole(m, r, p)'
  BY CoversSame DEF AtPiece
<1>2. PiecesInv'
  BY <1>1 DEF PiecesInv, AtPiece
<1> QED
  BY <1>2 DEF ParseInv

(* The parser has something to look for when the kernel has written more   *)
(* of the record, and looks for the same.                                  *)
LEMMA AheadTogether ==
    ASSUME Agreement, ParseInv, phase = "parse",
           NEW m, NEW r, NEW p, NEW b, NEW i, AtPiece(m, r, p, b, i)
    PROVE  /\ i = 0 => ParserPlaces = {}
           /\ i > 0 => /\ kind \in AbiKinds
                       /\ ParserPlaces = {} <=> Rest(r[i], p[i]) = {}
                       /\ ParserPlaces # {} =>
                            SamePlace(kind, attr, Min(Rest(r[i], p[i])),
                                      Min(ParserPlaces))
<1>1. i = 0 => ParserPlaces = {}
  <2>1. Len(ParserLayout("none")) = 0
    BY DEF ParserLayout, TaskKinds, MmapKinds, TraceKinds
  <2>2. at \in Nat
    BY DEF ParseInv, TypeInv, TypeOK
  <2>3. kind = "none" => ParserPlaces = {}
    BY <2>1, <2>2 DEF ParserPlaces, PlacesAfter
  <2> QED
    BY <2>3 DEF AtPiece, Parsed
<1>2. ASSUME i > 0
      PROVE  /\ kind \in AbiKinds
             /\ ParserPlaces = {} <=> Rest(r[i], p[i]) = {}
             /\ ParserPlaces # {} =>
                            SamePlace(kind, attr, Min(Rest(r[i], p[i])),
                                      Min(ParserPlaces))
  <2>1. /\ kind = records[r[i]] /\ Len(decoded) = r[i]
        /\ SamePlace(kind, attr, p[i], at)
    BY <1>2 DEF AtPiece, Parsed
  <2>2. r[i] \in 1 .. Len(records) /\ r[i] \in 1 .. Len(decoded)
    BY <1>2, <2>1 DEF AtPiece, Covers
  <2>3. kind \in Kinds \cap KnownKinds
    BY <2>1, <2>2, ElementOfSeq
    DEF ParseInv, TypeInv, TypeOK, DecodedInv
  <2>4. attr = handle /\ attr \in SampleTypes
    BY DEF ParseInv, IdleInv
  <2>5. Agree(kind, attr) /\ kind \in AbiKinds
    BY <2>3, <2>4 DEF Agreement, AbiKinds
  <2>6. /\ ParserPlaces = PlacesAfter(at, ParserLayout(kind), kind, attr)
        /\ Rest(r[i], p[i]) = PlacesAfter(p[i], AbiLayout(kind), kind, attr)
    BY <2>1, <2>4 DEF ParserPlaces, Rest
  <2> QED
    BY <2>1, <2>5, <2>6, NextTogether
<1> QED
  BY <1>1, <1>2

(* At the end of a record the next cell is the header of the next one, if  *)
(* there is one.                                                           *)
LEMMA HeaderAhead ==
    ASSUME Agreement, ParseInv, phase = "parse", ParserPlaces = {},
           NEW m, NEW r, NEW p, NEW b, NEW i, AtPiece(m, r, p, b, i)
    PROVE  \/ i = m /\ offset = Len(cells) /\ Len(decoded) = Len(records)
           \/ /\ i + 1 \in 1 .. m /\ offset < Len(cells)
              /\ b[i + 1] = offset + 1
              /\ r[i + 1] = Len(decoded) + 1 /\ p[i + 1] = 0
              /\ Len(decoded) < Len(records)
              /\ event = Cell(records[Len(decoded) + 1], "header", 0)
<1>1. /\ Len(cells) \in Nat /\ Len(records) \in Nat /\ Len(decoded) \in Nat
  BY LenProperties DEF ParseInv, TypeInv, TypeOK
<1>2. CASE i = m
  BY <1>1, <1>2 DEF AtPiece, Parsed, Covers
<1>3. CASE i # m
  <2>1. i \in Nat /\ i + 1 \in 1 .. m /\ m > 0 /\ (i + 1) - 1 = i
    BY <1>3 DEF AtPiece
  <2>2. r[i + 1] = Len(decoded) + 1 /\ p[i + 1] = 0
    <3>1. CASE i = 0
      BY <1>1, <2>1, <3>1 DEF AtPiece, Parsed, Covers
    <3>2. CASE i > 0
      <4>1. i \in 1 .. m - 1
        BY <2>1, <3>2 DEF AtPiece
      <4>2. Follows(r[i], p[i], r[i + 1], p[i + 1])
        BY <4>1 DEF AtPiece, Covers
      <4>3. Rest(r[i], p[i]) = {}
        BY <3>2, AheadTogether
      <4>4. Len(decoded) = r[i]
        BY <3>2 DEF AtPiece, Parsed
      <4> QED
        BY <4>2, <4>3, <4>4 DEF Follows
    <3> QED
      BY <2>1, <3>1, <3>2
  <2>3. /\ r[i + 1] \in 1 .. Len(records)
        /\ Piece(records[r[i + 1]], p[i + 1], b[i], b[i + 1])
    BY <2>1 DEF AtPiece, Covers
  <2>4. b[i] = offset /\ b[i] \in Nat
    BY <2>1 DEF AtPiece, Parsed
  <2>5. 0 \notin PlacesAfter(0, AbiLayout(records[r[i + 1]]),
                             records[r[i + 1]], attr)
    BY DEF PlacesAfter
  <2>6. /\ b[i + 1] = b[i] + 1 /\ b[i + 1] <= Len(cells)
        /\ cells[b[i + 1]] = Cell(records[r[i + 1]], "header", 0)
    BY <2>2, <2>3, <2>5 DEF Piece
  <2>7. event = Cell(records[Len(decoded) + 1], "header", 0)
    BY <2>2, <2>4, <2>6 DEF event
  <2> QED
    BY <1>1, <2>1, <2>2, <2>3, <2>4, <2>6, <2>7
<1> QED
  BY <1>2, <1>3

(* The cell that the loop of perf_mmap_read takes for a header is one.     *)
LEMMA ParseHeaderStep ==
    ASSUME Agreement, ParseInv, TypeInv', ParseHeader
    PROVE  ParseInv'
<1>1. /\ phase = "parse" /\ ParserPlaces = {} /\ offset < Len(cells)
      /\ ~Unknown(event.field)
  BY DEF ParseHeader, AtRecord, BetweenRecords
<1>2. Len(cells) \in Nat /\ offset \in Nat /\ Len(decoded) \in Nat
  BY LenProperties DEF ParseInv, TypeInv, TypeOK
<1>3. ~Skipped
  BY <1>1, <1>2 DEF Skipped
<1>4. PICK m, r, p, b, i : AtPiece(m, r, p, b, i)
  BY <1>1, <1>3, SomePiece
<1>5. /\ i + 1 \in 1 .. m /\ b[i + 1] = offset + 1
      /\ r[i + 1] = Len(decoded) + 1 /\ p[i + 1] = 0
      /\ Len(decoded) < Len(records)
      /\ event = Cell(records[Len(decoded) + 1], "header", 0)
  BY <1>1, <1>2, <1>4, HeaderAhead
<1>6. event.field = records[r[i + 1]] /\ event.part = "header"
  BY <1>5 DEF Cell
<1>7. decoded' = Append(decoded, event.field)
  BY DEF ParseHeader
<1>8. /\ Len(decoded') = Len(decoded) + 1
      /\ decoded'[Len(decoded) + 1] = event.field
      /\ \A k \in 1 .. Len(decoded) : decoded'[k] = decoded[k]
  <2>1. event.field \in KnownKinds
    BY <1>1 DEF Unknown
  <2> QED
    BY <1>7, <2>1, AppendProperties DEF ParseInv, TypeInv, TypeOK
<1>9. DecodedInv'
  <2>1. /\ UNCHANGED records /\ Len(decoded') <= Len(records)
    BY <1>2, <1>5, <1>8 DEF ParseHeader
  <2>2. event.field \in KnownKinds /\ event.field = records[Len(decoded) + 1]
    BY <1>1, <1>5, <1>6 DEF Unknown
  <2>3. ASSUME NEW k \in 1 .. Len(decoded')
        PROVE  decoded'[k] = records[k] /\ records[k] \in KnownKinds
    <3>1. CASE k = Len(decoded) + 1
      BY <1>8, <2>2, <3>1
    <3>2. CASE k \in 1 .. Len(decoded)
      BY <1>8, <3>2 DEF ParseInv, DecodedInv
    <3> QED
      BY <1>2, <1>8, <3>1, <3>2
  <2> QED
    BY <2>1, <2>3 DEF DecodedInv
<1>10. Parsed(i + 1, r, p, b)'
  <2>1. i + 1 # 0
    BY <1>5
  <2>2. /\ offset' = b[i + 1] /\ Len(decoded') = r[i + 1]
        /\ kind' = records'[r[i + 1]] /\ at' = 0
    BY <1>5, <1>6, <1>8 DEF ParseHeader
  <2>3. SamePlace(kind, attr, p[i + 1], at)'
    BY <1>5, <2>2 DEF SamePlace
  <2> QED
    BY <2>1, <2>2, <2>3 DEF Parsed
<1>11. i + 1 \in 0 .. m
  BY <1>5
<1>12. /\ ~garbled' /\ phase' = "parse"
       /\ UNCHANGED <<handle, attr, records, cells>>
       /\ IdleInv'
  BY <1>1, <1>6 DEF ParseHeader, ParseInv, IdleInv
<1> QED
  BY <1>4, <1>9, <1>10, <1>11, <1>12, NextPiece

(* The default case is taken for a record of an unknown type only, and     *)
(* leaves nothing to parse.                                                *)
LEMMA ParseUnknownStep ==
    ASSUME Agreement, ParseInv, TypeInv', ParseUnknown
    PROVE  ParseInv'
<1>1. /\ phase = "parse" /\ ParserPlaces = {} /\ offset < Len(cells)
      /\ Unknown(event.field)
  BY DEF ParseUnknown, AtRecord, BetweenRecords
<1>2. Len(cells) \in Nat /\ offset \in Nat /\ Len(decoded) \in Nat
  BY LenProperties DEF ParseInv, TypeInv, TypeOK
<1>3. ~Skipped
  BY <1>1, <1>2 DEF Skipped
<1>4. PICK m, r, p, b, i : AtPiece(m, r, p, b, i)
  BY <1>1, <1>3, SomePiece
<1>5. /\ Len(decoded) < Len(records)
      /\ event = Cell(records[Len(decoded) + 1], "header", 0)
  BY <1>1, <1>2, <1>4, HeaderAhead
<1>6. event.field = records[Len(decoded) + 1] /\ event.part = "header"
  BY <1>5 DEF Cell
<1>7. Skipped'
  BY <1>1, <1>5, <1>6 DEF ParseUnknown, Skipped, ParserPlaces, Unknown
<1>8. Covers(m, r, p, b)' /\ Whole(m, r, p)'
  BY <1>4, CoversSame DEF AtPiece, ParseUnknown
<1>9. PiecesInv'
  BY <1>1, <1>4, <1>7, <1>8 DEF PiecesInv, AtPiece, ParseUnknown
<1> QED
  BY <1>1, <1>6, <1>9 DEF ParseUnknown, ParseInv, IdleInv, DecodedInv

(* The field that the parser reads is the next one that was written, and   *)
(* it goes over as many cells as the kernel wrote for it.                  *)
LEMMA ParseFieldStep ==
    ASSUME Agreement, ParseInv, TypeInv', ParseField
    PROVE  ParseInv'
<1>1. phase = "parse" /\ ParserPlaces # {}
  BY DEF ParseField
<1>2. Len(cells) \in Nat /\ offset \in Nat
  BY LenProperties DEF ParseInv, TypeInv, TypeOK
<1>3. PICK m, r, p, b, i : AtPiece(m, r, p, b, i)
  BY <1>1, SomePiece DEF Skipped
<1>4. /\ i > 0 /\ i \in 0 .. m /\ kind \in AbiKinds /\ Rest(r[i], p[i]) # {}
      /\ SamePlace(kind, attr, Min(Rest(r[i], p[i])), Min(ParserPlaces))
  <2>1. i \in 0 .. m /\ m \in Nat
    BY <1>3 DEF AtPiece
  <2> QED
    BY <1>1, <1>3, <2>1, AheadTogether
<1>5. i + 1 \in 1 .. m /\ (i + 1) - 1 = i /\ i \in 1 .. m - 1
  BY <1>3, <1>4 DEF AtPiece, Whole
<1>6. r[i + 1] = r[i] /\ p[i + 1] = Min(Rest(r[i], p[i]))
  BY <1>3, <1>4, <1>5 DEF AtPiece, Covers, Follows
<1>7. kind = records[r[i]] /\ Len(decoded) = r[i] /\ offset = b[i]
  BY <1>3, <1>4 DEF AtPiece, Parsed
<1>8. Piece(kind, p[i + 1], offset, b[i + 1])
  BY <1>3, <1>5, <1>6, <1>7 DEF AtPiece, Covers
<1>9. PICK f : f = ParserLayout(kind)[Min(ParserPlaces)]
  OBVIOUS
<1>10. f \in FieldNames /\ Min(ParserPlaces) > 0
  <2>1. at \in Nat
    BY DEF ParseInv, TypeInv, TypeOK
  <2> QED
    BY <1>1, <1>9, <2>1, NextParsed DEF ParseInv, ParserPlaces, PlacesAfter
<1>11. p[i + 1] # 0 /\ f = AbiLayout(kind)[p[i + 1]]
  <2>1. 0 \notin PlacesAfter(0, AbiLayout(kind), kind, attr)
    BY DEF PlacesAfter
  <2> QED
    BY <1>4, <1>6, <1>9, <1>10, <2>1 DEF SamePlace
<1>12. PICK n \in Lengths :
         /\ b[i + 1] = offset + Len(CellsOf(f, n))
         /\ \A j \in 1 .. Len(CellsOf(f, n)) :
               cells[offset + j] = CellsOf(f, n)[j]
  BY <1>8, <1>11 DEF Piece
<1>13. offset < Len(cells) /\ b[i + 1] <= Len(cells)
  BY <1>2, <1>3, <1>5, <1>8 DEF Piece, AtPiece
<1>14. Expected(f) = CellsOf(f, n)
  <2>1. /\ CellsOf(f, n) \in Seq(Cells) /\ Len(CellsOf(f, n)) > 0
        /\ CellsOf(f, CellsOf(f, n)[1].n) = CellsOf(f, n)
    BY <1>10, CellsOfType
  <2>2. 1 \in 1 .. Len(CellsOf(f, n))
    BY <2>1, LenProperties
  <2>3. event = CellsOf(f, n)[1]
    BY <1>12, <2>2 DEF event
  <2> QED
    BY <1>13, <2>1, <2>3 DEF Expected
<1>15. Fits(f)
  BY <1>12, <1>13, <1>14 DEF Fits
<1>16. /\ ~garbled' /\ offset' = b[i + 1] /\ at' = Min(ParserPlaces)
       /\ phase' = "parse"
       /\ UNCHANGED <<handle, attr, records, cells, kind, decoded>>
  BY <1>1, <1>9, <1>12, <1>14, <1>15 DEF ParseField
<1>17. Parsed(i + 1, r, p, b)'
  <2>1. i + 1 # 0
    BY <1>5
  <2>2. SamePlace(kind, attr, p[i + 1], at)'
    BY <1>4, <1>6, <1>16 DEF SamePlace
  <2> QED
    BY <1>6, <1>7, <1>16, <2>1, <2>2 DEF Parsed
<1>18. IdleInv' /\ DecodedInv'
  BY <1>1, <1>16 DEF ParseInv, IdleInv, DecodedInv
<1>19. i + 1 \in 0 .. m
  BY <1>5
<1> QED
  BY <1>3, <1>16, <1>17, <1>18, <1>19, NextPiece

(* With data_tail at head the ring is empty again.                         *)
LEMMA ReturnHeadStep ==
    ASSUME ParseInv, TypeInv', ReturnHead
    PROVE  ParseInv'
<1>1. PiecesInv'
  BY NothingLeft DEF ReturnHead
<1> QED
  BY <1>1 DEF ReturnHead, BetweenRecords, ParseInv, IdleInv, DecodedInv

(* A step keeps the parser where the kernel has been.                      *)
LEMMA ParseStep ==
    ASSUME Agreement, ParseInv, [Next]_vars
    PROVE  ParseInv'
<1>1. TypeInv'
  BY TypeStep DEF ParseInv
<1>2. CASE OpenEvent \/ OpenEventFallback
  BY <1>1, <1>2, OpenStep
<1>3. CASE \E k \in Kinds : WriteHeader(k)
  BY <1>1, <1>3, WriteHeaderStep
<1>4. CASE \E n \in Lengths : WriteField(n)
  BY <1>1, <1>4, WriteFieldStep
<1>5. CASE WriteEnd
  BY <1>1, <1>5, WriteEndStep
<1>6. CASE CallParser
  BY <1>1, <1>6, CallParserStep
<1>7. CASE ParseHeader
  BY <1>1, <1>7, ParseHeaderStep
<1>8. CASE ParseUnknown
  BY <1>1, <1>8, ParseUnknownStep
<1>9. CASE ParseField
  BY <1>1, <1>9, ParseFieldStep
<1>10. CASE ReturnHead
  BY <1>1, <1>10, ReturnHeadStep
<1>11. CASE UNCHANGED vars
  <2>1. UNCHANGED <<attr, records, cells>>
    BY <1>11 DEF vars
  <2>2. PICK m \in Nat : \E r, p \in [1 .. m -> Nat], b \in [0 .. m -> Nat] :
        /\ Covers(m, r, p, b)
        /\ phase = "write" => Writing(m, r, p)
        /\ phase # "write" => Whole(m, r, p)
        /\ phase = "parse" => Skipped \/ \E i \in 0 .. m : Parsed(i, r, p, b)
    BY DEF ParseInv, PiecesInv
  <2>3. PICK r \in [1 .. m -> Nat], p \in [1 .. m -> Nat],
             b \in [0 .. m -> Nat] :
        /\ Covers(m, r, p, b)
        /\ phase = "write" => Writing(m, r, p)
        /\ phase # "write" => Whole(m, r, p)
        /\ phase = "parse" => Skipped \/ \E i \in 0 .. m : Parsed(i, r, p, b)
    BY <2>2
  <2>4. /\ Covers(m, r, p, b)'
        /\ Whole(m, r, p) => Whole(m, r, p)'
    BY <2>1, <2>3, CoversSame
  <2>5. /\ Writing(m, r, p)' <=> Writing(m, r, p)
        /\ \A i : Parsed(i, r, p, b)' <=> Parsed(i, r, p, b)
        /\ Skipped' <=> Skipped
        /\ phase' = phase
    BY <1>11 DEF vars, Writing, Parsed, SamePlace, Skipped, ParserPlaces
  <2>6. PiecesInv'
    BY <2>3, <2>4, <2>5 DEF PiecesInv
  <2> QED
    BY <1>1, <1>11, <2>6 DEF vars, ParseInv, IdleInv, DecodedInv
<1> QED
  BY <1>2, <1>3, <1>4, <1>5, <1>6, <1>7, <1>8, <1>9, <1>10, <1>11
  DEF Next, Parser

----------------------------------------------------------------------------
(* Where the layouts agree.                                                *)

(* The sample types for which the parser's order of tests is that of       *)
(* perf_event.h: it never looks for PHYS_ADDR, takes REGS_INTR too early   *)
(* and IDENTIFIER too late.                                                *)
InOrder(type) ==
    /\ "PHYS_ADDR" \notin type
    /\ "REGS_INTR" \in type =>
          {"STACK_USER", "WEIGHT", "DATA_SRC", "TRANSACTION"} \cap type = {}
    /\ "IDENTIFIER" \in type => type \subseteq {"IDENTIFIER", "TRANSACTION"}

TypesInOrder ==
    \A type \in SampleTypes :
        InOrder(type) /\ ("BRANCH_STACK" \in type => BranchSupported)

(* The kinds after which the parser takes a sample_id that is not there.   *)
WithoutSampleId ==
    Kinds \cap {"AUX", "LOST_SAMPLES", "SWITCH", "SWITCH_CPU_WIDE"} = {}

(* The place of the parser for place q of perf_event.h.                    *)
Partner(q) ==
    IF q = 1 THEN 18 ELSE IF q <= 14 THEN q - 1 ELSE IF q <= 17 THEN q
    ELSE IF q = 18 THEN 19 ELSE IF q = 19 THEN 14 ELSE 0

(* The two orders have each field at partner places and nowhere else.      *)
LEMMA Partners ==
    /\ Len(AbiSampleOrder) = 20 /\ Len(ParserSampleOrder) = 19
    /\ \A q \in 1 .. 20, s \in 1 .. 19 :
          AbiSampleOrder[q] = ParserSampleOrder[s] <=> s = Partner(q)
<1>1. Len(AbiSampleOrder) = 20 /\ Len(ParserSampleOrder) = 19
  BY DEF AbiSampleOrder, ParserSampleOrder, ParserIdentity, ParserContext,
         ParserAttributes
<1>2. \A q \in 1 .. 20, s \in 1 .. 19 :
          AbiSampleOrder[q] = ParserSampleOrder[s] <=> s = Partner(q)
  BY DEF AbiSampleOrder, ParserSampleOrder, ParserIdentity, ParserContext,
         ParserAttributes, Partner
<1> QED
  BY <1>1, <1>2

(* A sample type in order is one on which the layouts agree, and no other  *)
(* is.                                                                     *)
LEMMA SampleOrdersAgree ==
    ASSUME NEW type \in SUBSET AllFields
    PROVE  Agree("SAMPLE", type) <=> InOrder(type)
<1> DEFINE A == AbiSampleOrder
           P == ParserSampleOrder
           abi == PlacesAfter(0, AbiLayout("SAMPLE"), "SAMPLE", type)
           parser == PlacesAfter(0, ParserLayout("SAMPLE"), "SAMPLE", type)
<1>1. AbiLayout("SAMPLE") = A /\ ParserLayout("SAMPLE") = P
  BY DEF AbiLayout, ParserLayout, TaskKinds, MmapKinds, TraceKinds
<1>2. /\ abi = {q \in 1 .. 20 : A[q] \in type}
      /\ parser = {s \in 1 .. 19 : P[s] \in type}
  <2>1. 0 + 1 .. Len(A) = 1 .. 20 /\ 0 + 1 .. Len(P) = 1 .. 19
    BY Partners
  <2>2. /\ abi = {q \in 0 + 1 .. Len(A) : A[q] \in type}
        /\ parser = {s \in 0 + 1 .. Len(P) : P[s] \in type}
    BY <1>1 DEF PlacesAfter
  <2> QED
    BY <2>1, <2>2
<1>3. \A q, s : SamePlace("SAMPLE", type, q, s) <=>
         \/ q = 0 /\ s = 0
         \/ q \in abi /\ s \in parser /\ s = Partner(q)
  BY <1>1, <1>2, Partners DEF SamePlace
<1>4. /\ 1 \in abi <=> "IDENTIFIER" \in type
      /\ 15 \in abi <=> "STACK_USER" \in type
      /\ 16 \in abi <=> "WEIGHT" \in type
      /\ 17 \in abi <=> "DATA_SRC" \in type
      /\ 18 \in abi <=> "TRANSACTION" \in type
      /\ 19 \in abi <=> "REGS_INTR" \in type
      /\ 20 \in abi <=> "PHYS_ADDR" \in type
  BY <1>2 DEF AbiSampleOrder
<1>5. /\ abi \subseteq {1, 18} <=> type \subseteq {"IDENTIFIER", "TRANSACTION"}
      /\ abi \subseteq 1 .. 20 /\ parser \subseteq 1 .. 19
  BY <1>2 DEF AbiSampleOrder, AllFields
<1>6. /\ \A q \in abi : q # 20 => Partner(q) \in parser
      /\ \A s \in parser : \E q \in abi : s = Partner(q)
  <2>1. ASSUME NEW q \in abi, q # 20 PROVE Partner(q) \in parser
    <3>1. Partner(q) \in 1 .. 19
      BY <1>2, <2>1 DEF Partner
    <3>2. P[Partner(q)] = A[q]
      BY <1>2, <3>1, Partners
    <3> QED
      BY <1>2, <3>1, <3>2
  <2>2. ASSUME NEW s \in parser PROVE \E q \in abi : s = Partner(q)
    <3>1. PICK q \in 1 .. 19 : s = Partner(q)
      <4>1. s \in 1 .. 19
        BY <1>2
      <4>2. \/ s \in 1 .. 13 /\ s = Partner(s + 1) /\ s + 1 \in 1 .. 19
            \/ s \in 15 .. 17 /\ s = Partner(s)
            \/ s = 14 /\ s = Partner(19)
            \/ s = 18 /\ s = Partner(1)
            \/ s = 19 /\ s = Partner(18)
        BY <4>1 DEF Partner
      <4> QED
        BY <4>2
    <3>2. P[s] = A[q]
      BY <1>2, <3>1, Partners
    <3> QED
      BY <1>2, <3>1, <3>2
  <2> QED
    BY <2>1, <2>2
<1> HIDE DEF abi, parser
<1>7. Agree("SAMPLE", type) <=>
        /\ 20 \notin abi
        /\ \A q1, q2 \in abi : q1 < q2 <=> Partner(q1) < Partner(q2)
  <2>1. 20 \in abi => ~ \E s \in parser : SamePlace("SAMPLE", type, 20, s)
    BY <1>3, <1>5 DEF Partner
  <2>2. 20 \notin abi =>
          /\ \A q \in abi : \E s \in parser : SamePlace("SAMPLE", type, q, s)
          /\ \A s \in parser : \E q \in abi : SamePlace("SAMPLE", type, q, s)
    BY <1>3, <1>6
  <2>3. 20 \notin abi =>
         ((\A q1, q2 \in abi, s1, s2 \in parser :
              SamePlace("SAMPLE", type, q1, s1)
                /\ SamePlace("SAMPLE", type, q2, s2) =>
                  (q1 < q2 <=> s1 < s2))
          <=> \A q1, q2 \in abi : q1 < q2 <=> Partner(q1) < Partner(q2))
    <3>1. ASSUME 20 \notin abi, NEW q \in abi
          PROVE  Partner(q) \in parser
                   /\ SamePlace("SAMPLE", type, q, Partner(q))
      BY <1>3, <1>6, <3>1
    <3>2. \A q \in abi, s \in parser :
             SamePlace("SAMPLE", type, q, s) => s = Partner(q)
      BY <1>3, <1>5
    <3> QED
      BY <3>1, <3>2
  <2> QED
    BY <2>1, <2>2, <2>3 DEF Agree, abi, parser
<1>8. InOrder(type) <=>
        /\ 20 \notin abi
        /\ 19 \in abi => {15, 16, 17, 18} \cap abi = {}
        /\ 1 \in abi => abi \subseteq {1, 18}
  BY <1>4, <1>5 DEF InOrder
<1>9. ASSUME 20 \notin abi
      PROVE  (\A q1, q2 \in abi : q1 < q2 <=> Partner(q1) < Partner(q2)) <=>
                /\ 19 \in abi => {15, 16, 17, 18} \cap abi = {}
                /\ 1 \in abi => abi \subseteq {1, 18}
  <2>1. abi \subseteq 1 .. 19
    BY <1>5, <1>9
  <2>2. ASSUME \A q1, q2 \in abi : q1 < q2 <=> Partner(q1) < Partner(q2)
        PROVE  /\ 19 \in abi => {15, 16, 17, 18} \cap abi = {}
               /\ 1 \in abi => abi \subseteq {1, 18}
    <3>1. ASSUME 19 \in abi, NEW q \in {15, 16, 17, 18} \cap abi PROVE FALSE
      BY <2>2, <3>1 DEF Partner
    <3>2. ASSUME 1 \in abi, NEW q \in abi PROVE q \in {1, 18}
      BY <2>1, <2>2, <3>2 DEF Partner
    <3> QED
      BY <3>1, <3>2
  <2>3. ASSUME 19 \in abi => {15, 16, 17, 18} \cap abi = {},
               1 \in abi => abi \subseteq {1, 18},
               NEW q1 \in abi, NEW q2 \in abi
        PROVE  q1 < q2 <=> Partner(q1) < Partner(q2)
    <3>1. q1 \in 1 .. 19 /\ q2 \in 1 .. 19
      BY <2>1
    <3>2. q1 = 19 => q2 \notin {15, 16, 17, 18}
      BY <2>3
    <3>3. q2 = 19 => q1 \notin {15, 16, 17, 18}
      BY <2>3
    <3>4. q1 = 1 => q2 \in {1, 18}
      BY <2>3
    <3>5. q2 = 1 => q1 \in {1, 18}
      BY <2>3
    <3> QED
      BY <3>1, <3>2, <3>3, <3>4, <3>5 DEF Partner
  <2> QED
    BY <2>2, <2>3
<1> QED
  BY <1>7, <1>8, <1>9

(* The bodies of the other kinds are the same on both sides.               *)
LEMMA BodiesAgree ==
    ASSUME NEW k \in KnownKinds, NEW type,
           k \notin {"SAMPLE", "AUX", "LOST_SAMPLES", "SWITCH",
                     "SWITCH_CPU_WIDE"}
    PROVE  Agree(k, type)
<1>1. k \in AbiKinds
  BY DEF AbiKinds
<1>2. PICK L : L = AbiLayout(k)
  OBVIOUS
<1>3. ParserLayout(k) = L
  <2>1. CASE k \in TaskKinds
    <3>1. ParserLayout(k) = ParserTaskBody(k)
      BY <2>1 DEF ParserLayout, TaskKinds, MmapKinds, TraceKinds
    <3>2. AbiLayout(k) = AbiBody(k)
      BY <2>1 DEF AbiLayout, TaskKinds
    <3>3. AbiBody(k) = ParserTaskBody(k)
      BY <2>1 DEF AbiBody, ParserTaskBody, TaskKinds
    <3> QED
      BY <1>2, <3>1, <3>2, <3>3
  <2>2. CASE k \in MmapKinds
    <3>1. ParserLayout(k) = ParserMmapBody(k)
      BY <2>2 DEF ParserLayout, TaskKinds, MmapKinds, TraceKinds
    <3>2. AbiLayout(k) = AbiBody(k)
      BY <2>2 DEF AbiLayout, MmapKinds
    <3>3. k = "MMAP" => AbiBody(k) = ParserMmapBody(k)
      BY DEF AbiBody, ParserMmapBody
    <3>4. k = "MMAP2" => AbiBody(k) = ParserMmapBody(k)
      BY DEF AbiBody, ParserMmapBody
    <3> QED
      BY <1>2, <2>2, <3>1, <3>2, <3>3, <3>4 DEF MmapKinds
  <2>3. CASE k = "ITRACE_START"
    BY <1>2, <2>3 DEF ParserLayout, ParserTraceBody, TaskKinds, MmapKinds,
                      TraceKinds, AbiLayout, AbiBody
  <2> QED
    BY <2>1, <2>2, <2>3 DEF KnownKinds, TraceKinds
<1>4. \A q1, q2 \in 1 .. Len(L) : L[q1] = L[q2] => q1 = q2
  BY <1>2 DEF KnownKinds, TaskKinds, MmapKinds, TraceKinds, AbiLayout, AbiBody
<1>5. PICK S : S = PlacesAfter(0, L, k, type)
  OBVIOUS
<1>6. \A q \in S : q \in 1 .. Len(L) /\ q # 0
  BY <1>1, <1>2, <1>5, AbiLayoutType, PlacesType
<1>7. \A q, s : SamePlace(k, type, q, s) <=>
         (q = 0 /\ s = 0) \/ (q \in S /\ s \in S /\ L[q] = L[s])
  BY <1>2, <1>3, <1>5 DEF SamePlace
<1>8. \A q, s \in S : SamePlace(k, type, q, s) <=> q = s
  BY <1>4, <1>6, <1>7
<1> QED
  BY <1>2, <1>3, <1>5, <1>8 DEF Agree

(* Types in order, and no kind with a sample_id in the parser alone, are   *)
(* enough.                                                                 *)
LEMMA OrdersAgree ==
    ASSUME TypesInOrder, WithoutSampleId
    PROVE  Agreement
<1> SUFFICES ASSUME NEW type \in SampleTypes, NEW k \in Kinds \cap KnownKinds
             PROVE  Agree(k, type)
  BY DEF Agreement, TypesInOrder
<1>1. CASE k = "SAMPLE"
  BY <1>1, SampleOrdersAgree, ParseAssumption DEF TypesInOrder
<1>2. CASE k # "SAMPLE"
  BY <1>2, BodiesAgree DEF WithoutSampleId
<1> QED
  BY <1>1, <1>2

----------------------------------------------------------------------------
(* Theorems.                                                               *)

(* While the kernel and the parser have the same idea of a record, the     *)
(* buffer is a sequence of whole records and the parser is at the start of *)
(* a field, or at the end.                                                 *)
THEOREM ParseInvariant ==
    ASSUME TypesInOrder, WithoutSampleId
    PROVE  Spec => []ParseInv
<1>1. Agreement
  BY OrdersAgree
<1>2. Init => ParseInv
  BY ParseInit
<1>3. ParseInv /\ [Next]_vars => ParseInv'
  BY <1>1, ParseStep
<1> QED
  BY <1>2, <1>3, PTL DEF Spec

(* Every value is printed under the name of the field that the kernel      *)
(* wrote, for every sample type in order, every length, number of          *)
(* registers and number of records.                                        *)
THEOREM ParserReadsWhatWasWritten ==
    ASSUME TypesInOrder, WithoutSampleId
    PROVE  Spec => []ReadsWhatWasWritten
<1>1. ParseInv => ReadsWhatWasWritten
  BY DEF ParseInv, ReadsWhatWasWritten
<1> QED
  BY <1>1, ParseInvariant, PTL

(* The records of a call are decoded one for one, up to the first of a     *)
(* type that the parser does not know.                                     *)
THEOREM ParserDecodesAll ==
    ASSUME TypesInOrder, WithoutSampleId
    PROVE  Spec => []DecodedAll
<1>1. Agreement
  BY OrdersAgree
<1>2. ASSUME ParseInv PROVE DecodedAll
  <2> SUFFICES ASSUME BetweenRecords, offset >= Len(cells)
               PROVE  Len(decoded) < Len(records) =>
                         records[Len(decoded) + 1] \notin KnownKinds
    BY <1>2 DEF DecodedAll, ParseInv, DecodedInv
  <2>1. CASE Skipped
    BY <2>1 DEF Skipped, Unknown
  <2>2. ASSUME NEW m, NEW r, NEW p, NEW b, NEW i, AtPiece(m, r, p, b, i)
        PROVE  ~(Len(decoded) < Len(records))
    <3>1. phase = "parse" /\ ParserPlaces = {}
      BY DEF BetweenRecords
    <3>2. ~(offset < Len(cells)) /\ Len(records) \in Nat
      BY <1>2, LenProperties DEF ParseInv, TypeInv, TypeOK
    <3> QED
      BY <1>1, <1>2, <2>2, <3>1, <3>2, HeaderAhead
  <2> QED
    BY <1>2, <2>1, <2>2, SomePiece DEF BetweenRecords
<1> QED
  BY <1>2, ParseInvariant, PTL
=============================================================================
