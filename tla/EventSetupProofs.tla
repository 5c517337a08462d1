--------------------------- MODULE EventSetupProofs ---------------------------
(***************************************************************************)
(* Theorems about EventSetup: the globals that a SIGIO handler parses with *)
(* describe the events of all CPUs but for branches that were retried away,*)
(* every CPU samples the event that the caller spelled, and each exit has  *)
(* one of the named reasons, for any number of CPUs, any calls of init and *)
(* any failures of the kernel.                                             *)
(***************************************************************************)
EXTENDS EventSetup, TLAPS

----------------------------------------------------------------------------
(* The table.                                                              *)

(* The two tables have the same names, and each config1 is the event       *)
(* select, the threshold and the number of slots that its name asks for.   *)
LEMMA TableFacts ==
    /\ DOMAIN Config1 = DOMAIN Asked
    /\ \A e \in DOMAIN Config1 :
          /\ Config1[e] \in Nat
          /\ Config1[e] = 6 + 2^8 * Asked[e][1] + 2^20 * Asked[e][2]
<1>1. /\ DOMAIN Config1 = DOMAIN Asked
      /\ DOMAIN Config1 =
           {"LATENCY_GE_2", "LATENCY_GE_4", "LATENCY_GE_8", "LATENCY_GE_16",
            "LATENCY_GE_32", "LATENCY_GE_64", "LATENCY_GE_128",
            "LATENCY_GE_256", "LATENCY_GE_512", "LATENCY_GE_2_BUBBLES_GE_1",
            "LATENCY_GE_2_BUBBLES_GE_2", "LATENCY_GE_2_BUBBLES_GE_3"}
  BY SMT DEF Config1, Asked
<1>2. ASSUME NEW e \in DOMAIN Config1
      PROVE  /\ Config1[e] \in Nat
             /\ Config1[e] = 6 + 2^8 * Asked[e][1] + 2^20 * Asked[e][2]
  BY <1>1, <1>2, SMT DEF Config1, Asked
<1> QED
  BY <1>1, <1>2, Zenon

----------------------------------------------------------------------------
(* The inductive invariants.                                               *)

(* The loop of init is at a CPU, or has been at all of them.               *)
IndexInv ==
    /\ pc \in {"encode", "open", "retry"} => i \in Cpus
    /\ pc = "sampling" => i = NumCpus

(* The events opened so far have the fields and the registers the globals  *)
(* say, but for branches, which are gone for good once they were retried   *)
(* away; so has the attribute that is about to be opened.                  *)
LayoutInv ==
    /\ pc # "idle" => type \in {handle, handle \ {"BRANCH_STACK"}}
    /\ pc \in {"open", "retry"} =>
           /\ pe.fields = handle
           /\ "REGS_INTR" \in handle => regs = RegsMask
    /\ pc = "open" /\ pe.branches => "BRANCH_STACK" \in type
    /\ pc = "retry" => type = handle \ {"BRANCH_STACK"}
    /\ pc \in {"encode", "open", "retry", "sampling"} =>
           \A c \in Cpus : c < i =>
               /\ "REGS_INTR" \in handle =>
                      events[c].regs = RegsMask /\ regs = RegsMask
               /\ \/ events[c].fields = handle
                  \/ /\ "BRANCH_STACK" \notin type
                     /\ \A d \in c .. i - 1 :
                           events[d].fields = handle \ {"BRANCH_STACK"}

(* An attribute is that of the event the caller spelled.                   *)
IsAsked(a) ==
    /\ a.event = name.event
    /\ name.event \in DOMAIN Asked \ Encodable =>
           a.config1 = Config1[name.event]

AskedInv ==
    /\ pc \in {"open", "retry"} => IsAsked(pe)
    /\ pc \in {"encode", "open", "retry", "sampling"} =>
           \A c \in Cpus : c < i => IsAsked(events[c])

(* An attribute that is opened is consistent, but for the registers of a   *)
(* latency event; init ends the program for one of the four reasons.       *)
ReasonInv ==
    /\ pc \in {"open", "retry"} =>
           /\ name.event \in Encodable \cup DOMAIN Config1
           /\ "REGS_INTR" \in handle => pe.regs = RegsMask \/ LatencyDropsMask
    /\ ExitsExplained

----------------------------------------------------------------------------
(* Type correctness.                                                       *)

(* The attributes that the paths build are attributes.                     *)
LEMMA AttrTypes ==
    ASSUME TypeOK
    PROVE  /\ EncodedAttr(name) \in Attrs
           /\ RetryAttr(pe) \in Attrs
           /\ \A n \in Names : InTable(n) => LatencyAttr(n) \in Attrs
           /\ Capitalised(name) \in Names
           /\ Capitalised(name).event = name.event
           /\ Unset \in Attrs
<1> USE DEF TypeOK
<1>1. EncodedAttr(name) \in Attrs
  BY DEF EncodedAttr, Attrs, Names
<1>2. RetryAttr(pe) \in Attrs
  BY DEF RetryAttr, Attrs
<1>3. ASSUME NEW n \in Names, InTable(n) PROVE LatencyAttr(n) \in Attrs
  <2>1. Config1[n.event] \in Nat
    BY <1>3, TableFacts DEF InTable
  <2> QED
    BY <2>1 DEF LatencyAttr, Attrs, Names
<1>4. Capitalised(name) \in Names /\ Capitalised(name).event = name.event
  BY DEF Capitalised, ReplaceDot, Names
<1>5. Unset \in Attrs
  BY DEF Unset, Attrs, EventNames
<1> QED
  BY <1>1, <1>2, <1>3, <1>4, <1>5

(* An event that is opened is that of CPU i, and the loop goes on or ends. *)
LEMMA OpenedFacts ==
    ASSUME TypeOK, i \in Cpus, NEW a \in Attrs, Opened(a)
    PROVE  /\ events' \in [Cpus -> Attrs]
           /\ events'[i] = a
           /\ \A c \in Cpus : c # i => events'[c] = events[c]
           /\ i' = i + 1 /\ i' \in 1 .. NumCpus
           /\ pc' \in {"encode", "sampling"}
           /\ pc' = "encode" => i' \in Cpus
           /\ pc' = "sampling" => i' = NumCpus
           /\ failure' = "none"
<1>1. /\ events' = [events EXCEPT ![i] = a]
      /\ i' = i + 1 /\ pc' = (IF i + 1 < NumCpus THEN "encode" ELSE "sampling")
      /\ failure' = "none"
  BY DEF Opened, NextCpuOrReturn
<1>2. i \in Int /\ 0 <= i /\ i <= NumCpus - 1 /\ NumCpus \in Int
  BY SetupAssumption DEF Cpus
<1>3. i' \in 1 .. NumCpus /\ (pc' = "encode" => i' \in Cpus)
      /\ (pc' = "sampling" => i' = NumCpus)
  BY <1>1, <1>2 DEF Cpus
<1> QED
  BY <1>1, <1>3 DEF TypeOK

(* Every step keeps the types and the index.                               *)
LEMMA TypeStep ==
    ASSUME TypeOK, IndexInv, [Next]_vars
    PROVE  TypeOK' /\ IndexInv'
<1> USE DEF TypeOK, IndexInv
<1>1. ASSUME NEW call \in Calls, SampleInit(call) PROVE TypeOK' /\ IndexInv'
  BY <1>1, SetupAssumption DEF SampleInit, Cpus
<1>2. CASE EncodeByLibpfm
  BY <1>2, AttrTypes DEF EncodeByLibpfm, RegsAfter
<1>3. CASE EncodeLatency
  BY <1>3, AttrTypes DEF EncodeLatency, RegsAfter
<1>4. CASE EncodeFails
  BY <1>4 DEF EncodeFails, RegsAfter
<1>5. CASE OpenEvent
  <2>1. CASE Opened(pe) /\ UNCHANGED type
    BY <1>5, <2>1, OpenedFacts, SetupAssumption DEF OpenEvent
  <2>2. CASE pc' = "retry"
    BY <1>5, <2>2 DEF OpenEvent, Opened, NextCpuOrReturn, FailureOf
  <2> QED
    BY <1>5, <2>1, <2>2 DEF OpenEvent
<1>6. CASE OpenAgain
  <2>1. pc = "retry" /\ pe' = RetryAttr(pe) /\ RetryAttr(pe) \in Attrs
        /\ UNCHANGED <<name, type, handle, regs, sessions>>
    BY <1>6, AttrTypes DEF OpenAgain
  <2>2. CASE Opened(RetryAttr(pe))
    <3>1. /\ events' \in [Cpus -> Attrs] /\ i' \in 1 .. NumCpus
          /\ pc' \in {"encode", "sampling"} /\ failure' = "none"
          /\ pc' = "encode" => i' \in Cpus
          /\ pc' = "sampling" => i' = NumCpus
      BY <2>1, <2>2, OpenedFacts
    <3> QED
      BY <2>1, <3>1, SetupAssumption
  <2>3. CASE pc' = "exited"
    BY <1>6, <2>1, <2>3 DEF OpenAgain, Opened, NextCpuOrReturn, FailureOf
  <2> QED
    BY <1>6, <2>2, <2>3 DEF OpenAgain
<1>7. CASE SampleStop
  BY <1>7, AttrTypes DEF SampleStop
<1>8. CASE UNCHANGED vars
  BY <1>8 DEF vars
<1> QED
  BY <1>1, <1>2, <1>3, <1>4, <1>5, <1>6, <1>7, <1>8 DEF Next

(* The loop's index is that of a CPU wherever it is used.                  *)
THEOREM SetupIndex == Spec => [](TypeOK /\ IndexInv)
<1>1. Init => TypeOK /\ IndexInv
  <2>1. Unset \in Attrs
    BY DEF Unset, Attrs, EventNames
  <2> QED
    BY <2>1, SetupAssumption
    DEF Init, TypeOK, IndexInv, Name, Names, EventNames, Fields
<1>2. TypeOK /\ IndexInv /\ [Next]_vars => TypeOK' /\ IndexInv'
  BY TypeStep
<1> QED
  BY <1>1, <1>2, PTL DEF Spec

(* The variables have their types.                                         *)
THEOREM SetupTypeCorrect == Spec => []TypeOK
BY SetupIndex, PTL

----------------------------------------------------------------------------
(* The layout the handler parses with.                                     *)

(* Opening an event whose attribute is valid keeps LayoutInv: without      *)
(* branches in the local sample type only one without branches is valid.   *)
LEMMA LayoutOpened ==
    ASSUME TypeOK, IndexInv, LayoutInv, NEW a \in Attrs,
           \/ pc = "open" /\ a = pe
           \/ pc = "retry" /\ a = RetryAttr(pe),
           CanOpen(a), Opened(a), UNCHANGED <<type, handle, regs>>
    PROVE  LayoutInv'
<1> DEFINE B == "BRANCH_STACK"
<1>1. /\ pc \in {"open", "retry"} /\ i \in Cpus
      /\ i \in Int /\ NumCpus \in Int
      /\ type \in {handle, handle \ {B}}
  BY SetupAssumption DEF IndexInv, LayoutInv, Cpus
<1>2. a.fields = handle \/ (a.fields = handle \ {B} /\ B \notin type)
  BY DEF LayoutInv, RetryAttr, TypeOK, Attrs
<1>3. B \notin type => a.fields = handle \ {B}
  <2>1. CASE pc = "open" /\ a = pe
    <3>1. a.fields = handle /\ (B \in a.fields => a.branches)
          /\ (a.branches => B \in type)
      BY <2>1 DEF LayoutInv, CanOpen, Valid
    <3> QED
      BY <3>1
  <2>2. CASE pc = "retry" /\ a = RetryAttr(pe)
    BY <2>2 DEF LayoutInv, RetryAttr, TypeOK, Attrs
  <2> QED
    BY <2>1, <2>2
<1>4. "REGS_INTR" \in handle => a.regs = RegsMask /\ regs = RegsMask
  <2>1. "REGS_INTR" \in handle => "REGS_INTR" \in a.fields
    BY <1>2
  <2> QED
    BY <1>1, <2>1 DEF LayoutInv, CanOpen, Valid, Attrs
<1>5. /\ events'[i] = a
      /\ \A c \in Cpus : c # i => events'[c] = events[c]
      /\ i' = i + 1 /\ pc' \in {"encode", "sampling"}
  BY <1>1, OpenedFacts
<1>6. ASSUME NEW c \in Cpus, c < i'
      PROVE  /\ "REGS_INTR" \in handle =>
                    events'[c].regs = RegsMask /\ regs = RegsMask
             /\ \/ events'[c].fields = handle
                \/ /\ B \notin type
                   /\ \A d \in c .. i :
                         events'[d].fields = handle \ {B}
  <2>0. c \in Int /\ 0 <= c
    BY <1>1 DEF Cpus
  <2>1. CASE c = i
    <3>1. \A d \in c .. i : events'[d] = a
      BY <1>1, <1>5, <2>1
    <3> QED
      BY <1>2, <1>4, <1>5, <2>1, <3>1
  <2>2. CASE c < i
    <3>1. /\ events'[c] = events[c]
          /\ "REGS_INTR" \in handle =>
                 events[c].regs = RegsMask /\ regs = RegsMask
          /\ \/ events[c].fields = handle
             \/ /\ B \notin type
                /\ \A d \in c .. i - 1 : events[d].fields = handle \ {B}
      BY <1>1, <1>5, <2>2 DEF LayoutInv
    <3>2. \A d \in c .. i - 1 : events'[d] = events[d]
      BY <1>1, <1>5, <2>0 DEF Cpus
    <3>3. \A d \in c .. i : d = i \/ d \in c .. i - 1
      BY <1>1, <2>0
    <3> QED
      BY <1>3, <1>5, <3>1, <3>2, <3>3
  <2> QED
    BY <1>1, <1>5, <1>6, <2>0, <2>1, <2>2
<1>7. i' - 1 = i
  BY <1>1, <1>5
<1> QED
  BY <1>1, <1>5, <1>6, <1>7 DEF LayoutInv

(* Every step keeps LayoutInv.                                             *)
LEMMA LayoutStep ==
    ASSUME TypeOK, IndexInv, LayoutInv, [Next]_vars
    PROVE  LayoutInv'
<1>1. ASSUME NEW call \in Calls, SampleInit(call) PROVE LayoutInv'
  BY <1>1, SetupAssumption DEF SampleInit, LayoutInv, Cpus
<1>2. CASE EncodeByLibpfm
  <2>1. /\ pc = "encode" /\ pc' = "open" /\ pe' = EncodedAttr(name)
        /\ regs' = IF "REGS_INTR" \in type THEN RegsMask ELSE regs
        /\ UNCHANGED <<i, type, handle, events>>
    BY <1>2 DEF EncodeByLibpfm, RegsAfter
  <2>2. pe'.fields = handle /\ (pe'.branches => "BRANCH_STACK" \in type)
    BY <2>1 DEF EncodedAttr
  <2> QED
    BY <2>1, <2>2 DEF LayoutInv
<1>3. CASE EncodeLatency
  <2>1. /\ pc = "encode" /\ pc' \in {"open", "exited"}
        /\ pc' = "open" => pe' = LatencyAttr(name')
        /\ regs' = IF "REGS_INTR" \in type THEN RegsMask ELSE regs
        /\ UNCHANGED <<i, type, handle, events>>
    BY <1>3 DEF EncodeLatency, RegsAfter
  <2>2. pc' = "open" => pe'.fields = handle /\ ~pe'.branches
    BY <2>1 DEF LatencyAttr
  <2> QED
    BY <2>1, <2>2 DEF LayoutInv
<1>4. CASE EncodeFails
  BY <1>4 DEF EncodeFails, LayoutInv
<1>5. CASE OpenEvent
  <2>1. CASE CanOpen(pe) /\ Opened(pe) /\ UNCHANGED type
    BY <1>5, <2>1, LayoutOpened DEF OpenEvent, TypeOK
  <2>2. CASE pc' = "retry" /\ type' = type \ {"BRANCH_STACK"}
             /\ UNCHANGED <<i, events>>
    BY <1>5, <2>2 DEF OpenEvent, LayoutInv
  <2> QED
    BY <1>5, <2>1, <2>2 DEF OpenEvent
<1>6. CASE OpenAgain
  <2>1. pc = "retry" /\ RetryAttr(pe) \in Attrs
        /\ UNCHANGED <<type, handle, regs>>
    BY <1>6, AttrTypes DEF OpenAgain
  <2>2. CASE CanOpen(RetryAttr(pe)) /\ Opened(RetryAttr(pe))
    BY <2>1, <2>2, LayoutOpened
  <2>3. CASE pc' = "exited"
    BY <2>1, <2>3 DEF LayoutInv
  <2> QED
    BY <1>6, <2>2, <2>3 DEF OpenAgain
<1>7. CASE SampleStop
  BY <1>7 DEF SampleStop, LayoutInv
<1>8. CASE UNCHANGED vars
  BY <1>8 DEF vars, LayoutInv
<1> QED
  BY <1>1, <1>2, <1>3, <1>4, <1>5, <1>6, <1>7, <1>8 DEF Next

(* A SIGIO of any CPU is parsed with globals that agree with the event that*)
(* raised it on the registers, always, and on the fields, except branches: *)
(* those the event lacks when its open was retried without them, and then  *)
(* the globals are wrong about it and about all CPUs after it.             *)
THEOREM SetupLayoutKnownUpToBranches == Spec => []LayoutKnownUpToBranches
<1>1. Init => LayoutInv
  BY DEF Init, LayoutInv
<1>2. TypeOK /\ IndexInv /\ LayoutInv /\ [Next]_vars => LayoutInv'
  BY LayoutStep
<1>3. IndexInv /\ LayoutInv => LayoutKnownUpToBranches
  BY SetupAssumption DEF IndexInv, LayoutInv, LayoutKnownUpToBranches, Cpus
<1> QED
  BY <1>1, <1>2, <1>3, SetupIndex, PTL DEF Spec

----------------------------------------------------------------------------
(* The event the caller spelled.                                           *)

(* Opening an event that was asked for keeps AskedInv.                     *)
LEMMA AskedOpened ==
    ASSUME TypeOK, IndexInv, AskedInv, pc \in {"open", "retry"},
           NEW a \in Attrs, IsAsked(a), Opened(a), name' = name
    PROVE  AskedInv'
<1>1. i \in Cpus /\ i \in Int /\ NumCpus \in Int
  BY SetupAssumption DEF IndexInv, Cpus
<1>2. /\ events'[i] = a
      /\ \A c \in Cpus : c # i => events'[c] = events[c]
      /\ i' = i + 1 /\ pc' \in {"encode", "sampling"}
  BY <1>1, OpenedFacts
<1>3. ASSUME NEW c \in Cpus, c < i' PROVE IsAsked(events[c])'
  <2>1. c = i \/ c < i
    BY <1>1, <1>2, <1>3 DEF Cpus
  <2>2. IsAsked(events'[c])
    BY <1>1, <1>2, <2>1 DEF AskedInv
  <2> QED
    BY <2>2 DEF IsAsked
<1> QED
  BY <1>2, <1>3 DEF AskedInv

(* Every step keeps AskedInv.                                              *)
LEMMA AskedStep ==
    ASSUME TypeOK, IndexInv, AskedInv, [Next]_vars
    PROVE  AskedInv'
<1>1. ASSUME NEW call \in Calls, SampleInit(call) PROVE AskedInv'
  BY <1>1, SetupAssumption DEF SampleInit, AskedInv, Cpus
<1>2. CASE EncodeByLibpfm
  <2>1. /\ pc = "encode" /\ pc' = "open" /\ pe' = EncodedAttr(name)
        /\ name.event \in Encodable
        /\ UNCHANGED <<i, name, events>>
    BY <1>2 DEF EncodeByLibpfm
  <2> QED
    BY <2>1 DEF AskedInv, IsAsked, EncodedAttr
<1>3. CASE EncodeLatency
  <2>1. /\ pc = "encode" /\ pc' \in {"open", "exited"}
        /\ pc' = "open" => pe' = LatencyAttr(name')
        /\ name' = Capitalised(name) /\ UNCHANGED <<i, events>>
    BY <1>3 DEF EncodeLatency
  <2>2. name'.event = name.event
    BY <2>1, AttrTypes
  <2>3. pc' = "open" => IsAsked(pe)'
    BY <2>1, <2>2 DEF IsAsked, LatencyAttr
  <2>4. \A c \in Cpus : c < i => IsAsked(events[c])'
    BY <2>1, <2>2 DEF AskedInv, IsAsked
  <2> QED
    BY <2>1, <2>3, <2>4 DEF AskedInv
<1>4. CASE EncodeFails
  BY <1>4 DEF EncodeFails, AskedInv
<1>5. CASE OpenEvent
  <2>1. CASE Opened(pe)
    BY <1>5, <2>1, AskedOpened DEF OpenEvent, TypeOK, AskedInv
  <2>2. CASE pc' = "retry" /\ UNCHANGED <<i, events>>
    BY <1>5, <2>2 DEF OpenEvent, AskedInv, IsAsked
  <2> QED
    BY <1>5, <2>1, <2>2 DEF OpenEvent
<1>6. CASE OpenAgain
  <2>1. pc = "retry" /\ RetryAttr(pe) \in Attrs /\ name' = name
    BY <1>6, AttrTypes DEF OpenAgain
  <2>2. IsAsked(RetryAttr(pe))
    BY <2>1 DEF AskedInv, IsAsked, RetryAttr, TypeOK, Attrs
  <2>3. CASE Opened(RetryAttr(pe))
    BY <2>1, <2>2, <2>3, AskedOpened
  <2>4. CASE pc' = "exited"
    BY <2>4 DEF AskedInv
  <2> QED
    BY <1>6, <2>3, <2>4 DEF OpenAgain
<1>7. CASE SampleStop
  BY <1>7 DEF SampleStop, AskedInv
<1>8. CASE UNCHANGED vars
  BY <1>8 DEF vars, AskedInv, IsAsked
<1> QED
  BY <1>1, <1>2, <1>3, <1>4, <1>5, <1>6, <1>7, <1>8 DEF Next

(* Every CPU samples the event that the caller spelled, with the threshold *)
(* and the slots of its name, however often the name was rewritten.        *)
THEOREM SetupSamplesWhatWasAsked == Spec => []SamplesWhatWasAsked
<1>1. Init => AskedInv
  BY DEF Init, AskedInv
<1>2. TypeOK /\ IndexInv /\ AskedInv /\ [Next]_vars => AskedInv'
  BY AskedStep
<1>3. IndexInv /\ AskedInv => SamplesWhatWasAsked
  <2> SUFFICES ASSUME IndexInv, AskedInv, pc = "sampling", NEW c \in Cpus
               PROVE  /\ events[c].event = name.event
                      /\ name.event \in DOMAIN Asked \ Encodable =>
                            events[c].config1 =
                                6 + 2^8 * Asked[name.event][1]
                                  + 2^20 * Asked[name.event][2]
    BY Zenon DEF SamplesWhatWasAsked
  <2>1. IsAsked(events[c])
    BY SetupAssumption DEF IndexInv, AskedInv, Cpus
  <2> QED
    BY <2>1, TableFacts, Zenon DEF IsAsked
<1> QED
  BY <1>1, <1>2, <1>3, SetupIndex, PTL DEF Spec

----------------------------------------------------------------------------
(* Why the program is ended.                                               *)

(* Every step keeps ReasonInv.                                             *)
LEMMA ReasonStep ==
    ASSUME TypeOK, IndexInv, LayoutInv, ReasonInv, [Next]_vars
    PROVE  ReasonInv'
<1>0. DOMAIN Asked = DOMAIN Config1
  BY TableFacts
<1>1. ASSUME NEW call \in Calls, SampleInit(call) PROVE ReasonInv'
  BY <1>1 DEF SampleInit, ReasonInv, ExitsExplained
<1>2. CASE EncodeByLibpfm
  <2>1. /\ pc = "encode" /\ pc' = "open" /\ pe' = EncodedAttr(name)
        /\ name.event \in Encodable
        /\ UNCHANGED <<name, handle>>
    BY <1>2 DEF EncodeByLibpfm
  <2>2. "REGS_INTR" \in handle => pe'.regs = RegsMask
    BY <2>1 DEF EncodedAttr, LayoutInv
  <2> QED
    BY <2>1, <2>2 DEF ReasonInv, ExitsExplained
<1>3. CASE EncodeLatency
  <2>1. /\ pc = "encode" /\ name.event \notin Encodable
        /\ name' = Capitalised(name) /\ UNCHANGED handle
        /\ IF InTable(name') THEN pc' = "open" ELSE pc' = "exited"
    BY <1>3 DEF EncodeLatency
  <2>2. name'.event = name.event /\ name'.sep = ":" /\ name'.upper
    BY <2>1 DEF Capitalised, ReplaceDot, TypeOK, Names
  <2>3. CASE InTable(name')
    BY <1>0, <2>1, <2>2, <2>3, Zenon
    DEF InTable, ReasonInv, ExitsExplained, LatencyDropsMask
  <2>4. CASE ~InTable(name')
    BY <1>0, <2>1, <2>2, <2>4, Zenon
    DEF InTable, ReasonInv, ExitsExplained, LatencyMisspelled
  <2> QED
    BY <2>3, <2>4
<1>4. CASE EncodeFails
  <2>1. name.event \notin Encodable \cup DOMAIN Asked /\ UNCHANGED name
    BY <1>0, <1>4, TableAssumption DEF EncodeFails
  <2> QED
    BY <1>4, <2>1 DEF EncodeFails, ReasonInv, ExitsExplained
<1>5. CASE OpenEvent
  <2>1. pc = "open" /\ UNCHANGED <<name, handle, pe>>
    BY <1>5 DEF OpenEvent
  <2>2. pc' \in {"retry", "encode", "sampling"}
    BY <1>5 DEF OpenEvent, Opened, NextCpuOrReturn
  <2> QED
    BY <2>1, <2>2 DEF ReasonInv, ExitsExplained, LatencyDropsMask
<1>6. CASE OpenAgain
  <2>1. /\ pc = "retry" /\ pe' = RetryAttr(pe)
        /\ UNCHANGED <<name, handle>>
    BY <1>6 DEF OpenAgain
  <2>2. CASE Opened(RetryAttr(pe))
    BY <2>1, <2>2 DEF ReasonInv, ExitsExplained, Opened, NextCpuOrReturn
  <2>3. CASE failure' = FailureOf(RetryAttr(pe)) /\ pc' = "exited"
    <3>1. /\ RetryAttr(pe).fields = handle \ {"BRANCH_STACK"}
          /\ RetryAttr(pe).regs = pe.regs
      BY <2>1 DEF RetryAttr, LayoutInv, TypeOK, Attrs
    <3>2. Valid(RetryAttr(pe)) \/ LatencyDropsMask
      BY <2>1, <3>1, SetupAssumption DEF Valid, ReasonInv
    <3>3. failure' = "other" \/ LatencyDropsMask'
      BY <2>1, <2>3, <3>2 DEF FailureOf, LatencyDropsMask
    <3> QED
      BY <2>1, <2>3, <3>3 DEF ReasonInv, ExitsExplained
  <2> QED
    BY <1>6, <2>2, <2>3 DEF OpenAgain
<1>7. CASE SampleStop
  BY <1>7 DEF SampleStop, ReasonInv, ExitsExplained
<1>8. CASE UNCHANGED vars
  BY <1>8
  DEF vars, ReasonInv, ExitsExplained, LatencyDropsMask, LatencyMisspelled
<1> QED
  BY <1>1, <1>2, <1>3, <1>4, <1>5, <1>6, <1>7, <1>8 DEF Next

(* Init ends the program for an unknown event, for an open that the kernel *)
(* refuses although the attributes are consistent, and for the latency     *)
(* events that it leaves without a mask or that are misspelled: for no     *)
(* other reason, whatever callers ask for and however often a name has     *)
(* been rewritten.                                                         *)
THEOREM SetupExitsExplained == Spec => []ExitsExplained
<1>1. Init => LayoutInv /\ ReasonInv
  BY DEF Init, LayoutInv, ReasonInv, ExitsExplained, Name
<1>2. /\ TypeOK /\ IndexInv /\ LayoutInv /\ ReasonInv /\ [Next]_vars
      => LayoutInv' /\ ReasonInv'
  BY LayoutStep, ReasonStep
<1>3. ReasonInv => ExitsExplained
  BY DEF ReasonInv
<1> QED
  BY <1>1, <1>2, <1>3, SetupIndex, PTL DEF Spec
=============================================================================
