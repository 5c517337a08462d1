--------------------------- MODULE RingOrderProofs ---------------------------
(***************************************************************************)
(* Theorems about RingOrder, for every ring size and number of words: the  *)
(* log is that of SampleLog, in whatever order the machine satisfies the   *)
(* loads of the copy and makes the stores of data_tail visible.            *)
(***************************************************************************)
EXTENDS RingOrder, RingPositions, SequenceTheorems, TLAPS

USE DEF Cells, Blank, Pending

----------------------------------------------------------------------------
(* The inductive invariant.                                                *)

(* The words that the kernel may not over-write are in their cells.        *)
RingHolds == \A p \in data_tail .. written - 1 : ring[p % Size] = p

(* The log is the words up to its length.                                  *)
LogHolds == log = [k \in 1 .. Len(log) |-> k - 1]

(* What the library has given back, as it sees it.                         *)
GivenBack == IF pc = "read" /\ stored THEN head ELSE prev_head

(* The stores of data_tail that the kernel has yet to see give back no more*)
(* than the library has, and each no less than the one before it.          *)
StoresHold ==
    /\ data_tail <= GivenBack
    /\ \A j \in 1 .. Len(stores) :
          data_tail <= stores[j] /\ stores[j] <= GivenBack
    /\ \A j, k \in 1 .. Len(stores) : j <= k => stores[j] <= stores[k]

(* Between calls everything up to prev_head is printed.                    *)
BetweenCalls ==
    /\ pc \in {"idle", "call"} => Len(log) = prev_head
    /\ pc = "call" => data = NothingLoaded /\ ~stored

(* In a call, the loads of the words below head find those words, however  *)
(* late they are satisfied: while one is pending, its word is not printed, *)
(* so the branches ahead of the store of data_tail are not resolved and the*)
(* kernel may not reuse its cell.                                          *)
InCall ==
    pc = "read" =>
        /\ head - prev_head <= Size
        /\ prev_head <= Len(log) /\ Len(log) <= head
        /\ stored => Len(log) = head
        /\ \A k \in Cells : prev_head + k < head =>
               data[k] \in {Pending, prev_head + k}
        /\ \A k \in Cells : prev_head + k < Len(log) => data[k] # Pending

RingOrderInv ==
    TypeOK /\ RingHolds /\ LogHolds /\ StoresHold /\ BetweenCalls /\ InCall

(* In the initial state the ring is empty and nothing is printed.          *)
LEMMA OrderInit == Init => RingOrderInv
<1> SUFFICES ASSUME Init PROVE RingOrderInv
  OBVIOUS
<1>1. TypeOK
  BY RingAssumption DEF Init, TypeOK, NothingLoaded
<1>2. RingHolds /\ LogHolds /\ StoresHold /\ BetweenCalls /\ InCall
  BY DEF Init, RingHolds, LogHolds, StoresHold, GivenBack, BetweenCalls, InCall
<1> QED
  BY <1>1, <1>2 DEF RingOrderInv

(* The kernel's next word goes to a cell that holds no unread word.        *)
LEMMA KernelWriteStep ==
    ASSUME RingOrderInv, KernelWrite
    PROVE  RingOrderInv'
<1> USE DEF RingOrderInv
<1>1. /\ ring' = [ring EXCEPT ![written % Size] = written]
      /\ written' = written + 1 /\ written < MaxWords
      /\ written - data_tail < Size
      /\ UNCHANGED <<data_head, data_tail, pc, prev_head, head, data, stored,
                     stores, log>>
  BY DEF KernelWrite
<1>2. written % Size \in Cells
  BY RingAssumption, DivMod DEF TypeOK
<1>3. TypeOK'
  BY <1>1, <1>2, RingAssumption DEF TypeOK
<1>4. RingHolds'
  <2> SUFFICES ASSUME NEW p \in data_tail .. written
               PROVE  ring'[p % Size] = p
    BY <1>1 DEF RingHolds, TypeOK
  <2>1. CASE p = written
    BY <1>1, <1>2, <2>1 DEF TypeOK
  <2>2. CASE p < written
    <3>1. p - written < Size /\ written - p < Size
      BY <1>1, <2>2, RingAssumption DEF TypeOK
    <3>2. p % Size # written % Size
      <4>1. Size \in Nat \ {0} /\ p \in Int /\ written \in Int /\ p # written
        BY <2>2, RingAssumption DEF TypeOK
      <4> QED
        BY <3>1, <4>1, CellInjective
    <3>3. p % Size \in Cells /\ ring[p % Size] = p
      <4>1. Size \in Nat \ {0} /\ p \in Int /\ p \in data_tail .. written - 1
        BY <2>2, RingAssumption DEF TypeOK
      <4> QED
        BY <4>1, DivMod DEF RingHolds
    <3> QED
      BY <1>1, <3>2, <3>3 DEF TypeOK
  <2> QED
    BY <2>1, <2>2 DEF TypeOK
<1>5. LogHolds' /\ StoresHold' /\ BetweenCalls' /\ InCall'
  BY <1>1 DEF LogHolds, StoresHold, GivenBack, BetweenCalls, InCall
<1> QED
  BY <1>3, <1>4, <1>5

(* A load of the copy finds the word of its position, if it is one that    *)
(* will be printed.                                                        *)
LEMMA LoadWordStep ==
    ASSUME RingOrderInv, NEW k \in Cells, LoadWord(k)
    PROVE  RingOrderInv'
<1> USE DEF RingOrderInv
<1>1. /\ pc = "read" /\ data[k] = Pending
      /\ data' = [data EXCEPT ![k] = ring[(prev_head + k) % Size]]
      /\ UNCHANGED <<ring, written, data_head, data_tail, pc, prev_head, head,
                     stored, stores, log>>
  BY DEF LoadWord, BehindReadBarrier, CellOf
<1>2. (prev_head + k) % Size \in Cells
  BY RingAssumption, DivMod, prev_head + k \in Int DEF TypeOK
<1>3. TypeOK'
  BY <1>1, <1>2 DEF TypeOK
<1>4. RingHolds' /\ LogHolds' /\ StoresHold' /\ BetweenCalls'
  BY <1>1 DEF RingHolds, LogHolds, StoresHold, GivenBack, BetweenCalls
<1>5. InCall'
  <2>1. ~(prev_head + k < Len(log))
    BY <1>1 DEF InCall
  <2>2. ASSUME prev_head + k < head
        PROVE  data'[k] = prev_head + k
    <3>1. ~stored
      BY <1>1, <2>1, <2>2 DEF InCall
    <3>2. data_tail <= prev_head + k /\ prev_head + k < written
      BY <1>1, <2>2, <3>1 DEF StoresHold, GivenBack, TypeOK
    <3>3. prev_head + k \in data_tail .. written - 1
      BY <3>2 DEF TypeOK
    <3> QED
      BY <1>1, <3>3 DEF RingHolds, TypeOK
  <2>3. \A j \in Cells : j # k => data'[j] = data[j]
    BY <1>1 DEF TypeOK
  <2> QED
    BY <1>1, <2>1, <2>2, <2>3 DEF InCall
<1> QED
  BY <1>3, <1>4, <1>5

(* The word printed is the next one of the log.                            *)
LEMMA PrintWordStep ==
    ASSUME RingOrderInv, PrintWord
    PROVE  /\ RingOrderInv'
           /\ log' = [k \in 1 .. Len(log) + 1 |-> k - 1]
           /\ Len(log) + 1 <= data_head
<1> USE DEF RingOrderInv
<1>1. /\ pc = "read" /\ Len(log) < head
      /\ data[Len(log) - prev_head] # Pending
      /\ log' = Append(log, data[Len(log) - prev_head])
      /\ UNCHANGED <<ring, written, data_head, data_tail, pc, prev_head, head,
                     data, stored, stores>>
  BY DEF PrintWord, Printed, TypeOK
<1>2. /\ Len(log) \in Nat /\ prev_head \in Nat /\ head \in Nat
      /\ Len(log) - prev_head \in Cells
  BY <1>1, RingAssumption DEF InCall, TypeOK
<1>3. data[Len(log) - prev_head] = Len(log)
  BY <1>1, <1>2 DEF InCall
<1>4. log' = Append(log, Len(log)) /\ log' \in Seq(Nat)
      /\ Len(log') = Len(log) + 1
  BY <1>1, <1>2, <1>3 DEF TypeOK
<1>5. log' = [k \in 1 .. Len(log) + 1 |-> k - 1]
  <2> DEFINE n == Len(log)
  <2>1. n \in Nat /\ log = [k \in 1 .. n |-> k - 1] /\ log' = Append(log, n)
    BY <1>2, <1>4 DEF LogHolds
  <2> HIDE DEF n
  <2>2. log' = [k \in 1 .. n + 1 |-> k - 1]
    BY <2>1, FirstWordsAppend
  <2> QED
    BY <2>2 DEF n
<1>6. TypeOK'
  <2>1. Len(log') <= MaxWords
    BY <1>1, <1>2, <1>4, RingAssumption DEF TypeOK
  <2> QED
    BY <1>1, <1>4, <2>1 DEF TypeOK
<1>7. RingHolds' /\ StoresHold' /\ BetweenCalls'
  BY <1>1 DEF RingHolds, StoresHold, GivenBack, BetweenCalls
<1>8. LogHolds'
  BY <1>4, <1>5 DEF LogHolds
<1>9. InCall'
  <2>1. ~stored
    BY <1>1 DEF InCall
  <2>2. \A k \in Cells : prev_head + k < Len(log) + 1 => data[k] # Pending
    <3> SUFFICES ASSUME NEW k \in Cells, prev_head + k < Len(log) + 1
                 PROVE  data[k] # Pending
      OBVIOUS
    <3>1. CASE prev_head + k < Len(log)
      BY <1>1, <3>1 DEF InCall
    <3>2. CASE k = Len(log) - prev_head
      BY <1>1, <3>2
    <3> QED
      BY <1>2, <3>1, <3>2
  <2> QED
    BY <1>1, <1>2, <1>4, <2>1, <2>2 DEF InCall
<1> QED
  BY <1>1, <1>2, <1>5, <1>6, <1>7, <1>8, <1>9 DEF TypeOK

(* The store gives back what is printed, which is no less than what the    *)
(* stores before it give back.                                             *)
LEMMA StoreTailStep ==
    ASSUME RingOrderInv, StoreTail
    PROVE  RingOrderInv'
<1> USE DEF RingOrderInv
<1>1. /\ pc = "read" /\ ~stored /\ Len(log) = head
      /\ stores' = Append(stores, head) /\ stored' = TRUE
      /\ UNCHANGED <<ring, written, data_head, data_tail, pc, prev_head, head,
                     data, log>>
  BY DEF StoreTail, BranchesResolved, TailToStore, Printed, TypeOK
<1>2. prev_head \in Nat /\ head \in Nat /\ prev_head <= head
      /\ data_tail \in Nat
  BY <1>1 DEF InCall, TypeOK
<1>3. TypeOK' /\ RingHolds' /\ LogHolds' /\ BetweenCalls' /\ InCall'
  BY <1>1, <1>2 DEF TypeOK, RingHolds, LogHolds, BetweenCalls, InCall
<1>4. /\ Len(stores') = Len(stores) + 1 /\ Len(stores) \in Nat
      /\ stores'[Len(stores) + 1] = head
      /\ \A j \in 1 .. Len(stores) :
            stores'[j] = stores[j] /\ stores[j] \in Nat
  BY <1>1, <1>2 DEF TypeOK
<1>5. data_tail <= prev_head
      /\ \A j \in 1 .. Len(stores) :
            data_tail <= stores[j] /\ stores[j] <= prev_head
  BY <1>1 DEF StoresHold, GivenBack
<1>6. GivenBack' = head
  BY <1>1 DEF GivenBack
<1>7. StoresHold'
  BY <1>1, <1>2, <1>4, <1>5, <1>6 DEF StoresHold
<1> QED
  BY <1>3, <1>7

(* The kernel sees the oldest store: it gets no cell back whose word is not*)
(* printed, and the stores behind it give back no less.                    *)
LEMMA StoreVisibleStep ==
    ASSUME RingOrderInv, StoreVisible
    PROVE  RingOrderInv'
<1> USE DEF RingOrderInv
<1>1. /\ stores # <<>> /\ data_tail' = stores[1] /\ stores' = Tail(stores)
      /\ UNCHANGED <<ring, written, data_head, pc, prev_head, head, data,
                     stored, log>>
  BY DEF StoreVisible, TypeOK
<1>2. /\ Len(stores) \in Nat /\ 1 <= Len(stores) /\ stores[1] \in Nat
      /\ stores' \in Seq(Nat) /\ Len(stores') = Len(stores) - 1
      /\ \A j \in 1 .. Len(stores) - 1 : stores'[j] = stores[j + 1]
  BY <1>1 DEF TypeOK
<1>3. data_tail <= stores[1] /\ stores[1] <= GivenBack
  BY <1>2 DEF StoresHold
<1>4. GivenBack \in Nat /\ GivenBack <= data_head /\ GivenBack' = GivenBack
  BY <1>1 DEF GivenBack, TypeOK
<1>5. TypeOK'
  <2>1. data_tail' \in 0 .. data_head /\ written - data_tail' <= Size
    BY <1>1, <1>2, <1>3, <1>4, RingAssumption DEF TypeOK
  <2> QED
    BY <1>1, <1>2, <2>1 DEF TypeOK
<1>6. RingHolds'
  BY <1>1, <1>2, <1>3 DEF RingHolds, TypeOK
<1>7. LogHolds' /\ BetweenCalls' /\ InCall'
  BY <1>1 DEF LogHolds, BetweenCalls, InCall
<1>8. StoresHold'
  BY <1>1, <1>2, <1>3, <1>4 DEF StoresHold
<1> QED
  BY <1>5, <1>6, <1>7, <1>8

(* Every step keeps the invariant.                                         *)
LEMMA OrderStep == RingOrderInv /\ [Next]_vars => RingOrderInv'
<1> SUFFICES ASSUME RingOrderInv, [Next]_vars PROVE RingOrderInv'
  OBVIOUS
<1> USE DEF RingOrderInv
<1>1. CASE KernelWrite
  BY <1>1, KernelWriteStep
<1>2. CASE KernelPublish
  <2>1. TypeOK'
    BY <1>2 DEF KernelPublish, TypeOK
  <2>2. RingHolds' /\ LogHolds' /\ StoresHold' /\ BetweenCalls' /\ InCall'
    BY <1>2
    DEF KernelPublish, RingHolds, LogHolds, StoresHold, GivenBack,
        BetweenCalls, InCall
  <2> QED
    BY <2>1, <2>2
<1>3. CASE Call
  <2>1. TypeOK'
    BY <1>3 DEF Call, TypeOK, NothingLoaded
  <2>2. RingHolds' /\ LogHolds' /\ StoresHold'
    BY <1>3 DEF Call, RingHolds, LogHolds, StoresHold, GivenBack
  <2>3. BetweenCalls' /\ InCall'
    BY <1>3 DEF Call, BetweenCalls, InCall
  <2> QED
    BY <2>1, <2>2, <2>3
<1>4. CASE LoadHead
  <2>1. TypeOK'
    BY <1>4 DEF LoadHead, TypeOK
  <2>2. RingHolds' /\ LogHolds' /\ BetweenCalls'
    BY <1>4 DEF LoadHead, RingHolds, LogHolds, BetweenCalls
  <2>3. StoresHold'
    BY <1>4 DEF LoadHead, BetweenCalls, StoresHold, GivenBack
  <2>4. InCall'
    BY <1>4, RingAssumption
    DEF LoadHead, BetweenCalls, StoresHold, GivenBack, InCall, TypeOK,
        NothingLoaded
  <2> QED
    BY <2>1, <2>2, <2>3, <2>4
<1>5. ASSUME NEW k \in Cells, LoadWord(k) PROVE RingOrderInv'
  BY <1>5, LoadWordStep
<1>6. CASE PrintWord
  BY <1>6, PrintWordStep
<1>7. CASE StoreTail
  BY <1>7, StoreTailStep
<1>8. CASE Return
  <2>1. TypeOK'
    BY <1>8 DEF Return, TypeOK
  <2>2. RingHolds' /\ LogHolds' /\ InCall'
    BY <1>8 DEF Return, RingHolds, LogHolds, InCall
  <2>3. BetweenCalls'
    BY <1>8 DEF Return, Printed, BetweenCalls, InCall, TypeOK
  <2>4. StoresHold'
    BY <1>8 DEF Return, StoresHold, GivenBack
  <2> QED
    BY <2>1, <2>2, <2>3, <2>4
<1>9. CASE StoreVisible
  BY <1>9, StoreVisibleStep
<1>10. CASE UNCHANGED vars
  BY <1>10
  DEF vars, TypeOK, RingHolds, LogHolds, StoresHold, GivenBack, BetweenCalls,
      InCall
<1> QED
  BY <1>1, <1>2, <1>3, <1>4, <1>5, <1>6, <1>7, <1>8, <1>9, <1>10
  DEF Next, Kernel, Library

(* The invariant holds of every behaviour.                                 *)
THEOREM OrderInvariant == Spec => []RingOrderInv
<1> QED
  BY OrderInit, OrderStep, PTL DEF Spec

(* No position leaves its range, and the library is never a whole ring     *)
(* behind the kernel: what it copies is still there.                       *)
THEOREM OrderTypeCorrect == Spec => []TypeOK
<1>1. RingOrderInv => TypeOK
  BY DEF RingOrderInv
<1> QED
  BY <1>1, OrderInvariant, PTL

----------------------------------------------------------------------------
(* The refinement.                                                         *)

(* The initial state is one of the abstract log.                           *)
LEMMA OrderInitImplements == Init => Abstract!LogInit
BY DEF Init, Abstract!LogInit

(* A publish is an Accept, a word printed is a Report, and no other step   *)
(* touches the positions that the kernel has published or the log.         *)
LEMMA OrderStepImplements ==
    RingOrderInv /\ [Next]_vars => [Abstract!LogNext]_(Abstract!logVars)
<1> SUFFICES ASSUME RingOrderInv, [Next]_vars
             PROVE  [Abstract!LogNext]_(Abstract!logVars)
  OBVIOUS
<1> DEFINE accepted == [c \in {0} |-> data_head]
           reported == [c \in {0} |-> log]
<1>1. CASE KernelPublish
  <2>1. written \in data_head + 1 .. MaxWords
    BY <1>1 DEF KernelPublish, RingOrderInv, TypeOK
  <2>2. accepted' = [accepted EXCEPT ![0] = written] /\ reported' = reported
    BY <1>1 DEF KernelPublish
  <2>3. Abstract!Accept(0)
    BY <2>1, <2>2 DEF Abstract!Accept
  <2> QED
    BY <2>3 DEF Abstract!LogNext
<1>2. CASE PrintWord
  <2> DEFINE n == Len(log) + 1
  <2>1. n \in Len(reported[0]) .. accepted[0]
    BY <1>2, PrintWordStep DEF RingOrderInv, TypeOK
  <2>2. reported' = [reported EXCEPT ![0] = Abstract!FirstWords(n)]
    BY <1>2, PrintWordStep DEF Abstract!FirstWords
  <2>3. accepted' = accepted
    BY <1>2 DEF PrintWord
  <2>4. Abstract!Report(0)
    BY <2>1, <2>2, <2>3 DEF Abstract!Report
  <2> QED
    BY <2>4 DEF Abstract!LogNext
<1>3. ASSUME UNCHANGED <<data_head, log>>
      PROVE  UNCHANGED Abstract!logVars
  BY <1>3 DEF Abstract!logVars
<1>4. CASE KernelWrite
  BY <1>3, <1>4 DEF KernelWrite
<1>5. CASE Call
  BY <1>3, <1>5 DEF Call
<1>6. CASE LoadHead
  BY <1>3, <1>6 DEF LoadHead
<1>7. CASE \E k \in Cells : LoadWord(k)
  BY <1>3, <1>7 DEF LoadWord
<1>8. CASE StoreTail
  BY <1>3, <1>8 DEF StoreTail
<1>9. CASE Return
  BY <1>3, <1>9 DEF Return
<1>10. CASE StoreVisible
  BY <1>3, <1>10 DEF StoreVisible
<1>11. CASE UNCHANGED vars
  BY <1>3, <1>11 DEF vars
<1> QED
  BY <1>1, <1>2, <1>4, <1>5, <1>6, <1>7, <1>8, <1>9, <1>10, <1>11
  DEF Next, Kernel, Library

(* Without the mb() the log still holds the accepted words, each once and  *)
(* in order: the ring on a machine that reorders implements SampleLog.     *)
THEOREM OrderImplementsSampleLog == Spec => ImplementsSampleLog
<1> QED
  BY OrderInvariant, OrderInitImplements, OrderStepImplements, PTL
  DEF Spec, ImplementsSampleLog, Abstract!LogSpec
=============================================================================
