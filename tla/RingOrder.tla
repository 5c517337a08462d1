------------------------------ MODULE RingOrder ------------------------------
(***************************************************************************)
(* One ring between the kernel and perf_mmap_read on a machine that        *)
(* reorders memory accesses. The library has a read barrier after the load *)
(* of data_head, and none (the mb() is commented out) before the store of  *)
(* data_tail.                                                              *)
(*                                                                         *)
(* The loads of the two memcpys may be satisfied in any order, as soon as  *)
(* the barrier lets them and as late as the parser needs their value. The  *)
(* store of data_tail may become visible as soon as nothing holds it back: *)
(* what does is that no machine makes a store visible before it knows the  *)
(* outcome of the branches ahead of it, and that the parser branches on    *)
(* every word it prints (on headers to find the record, on values to turn  *)
(* them into digits). It may also stay in the CPU's store buffer for as    *)
(* long as it likes, past the return and into later calls; stores to one   *)
(* address leave the buffer in their order.                                *)
(***************************************************************************)
EXTENDS Integers, Sequences

CONSTANTS
    Size,         \* words in the ring
    MaxWords      \* bound: words the kernel writes

ASSUME RingAssumption == Size \in Nat \ {0} /\ MaxWords \in Nat

VARIABLES
    ring,         \* ring[c]: the number of the word in cell c, or Blank
    written,      \* kernel: words written so far
    data_head,    \* control page, as the library sees it
    data_tail,    \* control page, as the kernel sees it
    pc,           \* "idle", "call" (perf_mmap_read is entered), "read"
    prev_head,    \* the argument prev_head, heads[] of the handler
    head,         \* local head
    data,         \* data[k]: what the load of word prev_head + k has found
    stored,       \* this call has stored data_tail
    stores,       \* the stores of data_tail not yet visible, in order
    log           \* the words printed

vars == <<ring, written, data_head, data_tail, pc, prev_head, head, data,
          stored, stores, log>>

Blank == -1           \* what a cell holds before the first word
Pending == -2         \* a load that has not been satisfied
Cells == 0 .. Size - 1
NothingLoaded == [k \in Cells |-> Pending]

Init ==
    /\ ring = [c \in Cells |-> Blank] /\ written = 0
    /\ data_head = 0 /\ data_tail = 0
    /\ pc = "idle" /\ prev_head = 0 /\ head = 0
    /\ data = NothingLoaded /\ stored = FALSE /\ stores = <<>> /\ log = <<>>

----------------------------------------------------------------------------
(* The kernel (external): it does not over-write unread data, and orders   *)
(* its writes of a record before that of data_head.                        *)

KernelWrite ==
    /\ written < MaxWords /\ written - data_tail < Size
    /\ ring' = [ring EXCEPT ![written % Size] = written]
    /\ written' = written + 1
    /\ UNCHANGED <<data_head, data_tail, pc, prev_head, head, data, stored,
                   stores, log>>

KernelPublish ==
    /\ data_head < written
    /\ data_head' = written
    /\ UNCHANGED <<ring, written, data_tail, pc, prev_head, head, data, stored,
                   stores, log>>

----------------------------------------------------------------------------
(* perf_mmap_read.                                                         *)

Call ==
    /\ pc = "idle" /\ data_head > prev_head
    /\ pc' = "call" /\ data' = NothingLoaded /\ stored' = FALSE
    /\ UNCHANGED <<ring, written, data_head, data_tail, prev_head, head, stores,
                   log>>

LoadHeadShort ==                           \* mutant: all but the last word
    /\ pc = "call"
    /\ head' = data_head - 1 /\ pc' = "read"
    /\ UNCHANGED <<ring, written, data_head, data_tail, prev_head, data,
                   stored, stores, log>>

LoadHead ==
    /\ pc = "call"
    /\ head' = data_head
    /\ pc' = "read"
    /\ UNCHANGED <<ring, written, data_head, data_tail, prev_head, data,
                   stored, stores, log>>

NoBarrier == pc \in {"call", "read"}              \* mutant: rmb() removed

(* rmb(): no load of the copy is satisfied before that of data_head.       *)
BehindReadBarrier == pc = "read"

CellOf(k) == (prev_head + k) % Size

(* One load of the memcpys, which copy all of the ring, whatever the head. *)
LoadWord(k) ==
    /\ BehindReadBarrier
    /\ data[k] = Pending
    /\ data' = [data EXCEPT ![k] = ring[CellOf(k)]]
    /\ UNCHANGED <<ring, written, data_head, data_tail, pc, prev_head, head,
                   stored, stores, log>>

Printed == Len(log) - prev_head

(* The parser takes the next word of the copy, which must have come in.    *)
PrintWord ==
    /\ pc = "read" /\ prev_head + Printed < head
    /\ data[Printed] # Pending
    /\ log' = Append(log, data[Printed])
    /\ UNCHANGED <<ring, written, data_head, data_tail, pc, prev_head, head,
                   data, stored, stores>>

AnyTime == TRUE                     \* mutant: the store is not held back

(* The branches ahead of the store are known: each word has been printed.  *)
BranchesResolved == prev_head + Printed = head

TailOfCall == prev_head             \* mutants: the tail the call came with,
TailOfBuffer == prev_head + Size    \* and all that was copied
TailToStore == head

StoreTail ==
    /\ pc = "read" /\ ~stored /\ BranchesResolved
    /\ stores' = Append(stores, TailToStore) /\ stored' = TRUE
    /\ UNCHANGED <<ring, written, data_head, data_tail, pc, prev_head, head,
                   data, log>>

(* The oldest store leaves the buffer: the kernel sees it.                 *)
StoreVisible ==
    /\ stores # <<>>
    /\ data_tail' = Head(stores) /\ stores' = Tail(stores)
    /\ UNCHANGED <<ring, written, data_head, pc, prev_head, head, data, stored,
                   log>>

(* return head, which the handler stores in heads[]; the store of data_tail*)
(* need not be visible.                                                    *)
Return ==
    /\ pc = "read" /\ stored /\ prev_head + Printed = head
    /\ pc' = "idle" /\ prev_head' = head
    /\ UNCHANGED <<ring, written, data_head, data_tail, head, data, stored,
                   stores, log>>

Kernel == KernelWrite \/ KernelPublish
Library ==
    \/ LoadHead \/ (\E k \in Cells : LoadWord(k))
    \/ PrintWord \/ StoreTail \/ Return

(* Nothing to read: the library waits for the kernel, which need not write.*)
Waiting == pc = "idle" /\ data_head = prev_head

Next ==
    \/ Kernel \/ Call \/ Library \/ StoreVisible
    \/ Waiting /\ UNCHANGED vars

(* A load or a store becomes visible in the end, and a call runs to its    *)
(* end; the kernel publishes what it has written. It need not write.       *)
Spec ==
    Init /\ [][Next]_vars /\ WF_vars(Call) /\ WF_vars(Library)
         /\ WF_vars(StoreVisible) /\ WF_vars(KernelPublish)

----------------------------------------------------------------------------
(* Properties.                                                             *)

(* The variables have their types, and the library never falls a ring      *)
(* behind the kernel.                                                      *)
TypeOK ==
    /\ ring \in [Cells -> Nat \cup {Blank}]
    /\ data \in [Cells -> Nat \cup {Blank, Pending}]
    /\ written \in 0 .. MaxWords
    /\ data_head \in 0 .. written /\ data_tail \in 0 .. data_head
    /\ prev_head \in 0 .. data_head /\ head \in 0 .. data_head
    /\ pc \in {"idle", "call", "read"} /\ stored \in BOOLEAN
    /\ stores \in Seq(Nat)
    /\ log \in Seq(Nat) /\ Len(log) <= MaxWords
    /\ written - data_tail <= Size

(* The log holds the accepted words, each once and in order, whatever      *)
(* order the machine gives the loads of the copy and the store of the tail:*)
(* the ring without the mb() implements SampleLog.                         *)
Abstract == INSTANCE SampleLog WITH
    LogCpu <- {0}, MaxAccepted <- MaxWords,
    accepted <- [c \in {0} |-> data_head], reported <- [c \in {0} |-> log]

ImplementsSampleLog == Abstract!LogSpec

(* A word that the kernel has written is printed in the end, also the last *)
(* one, and one written while the copy before it is made or parsed.        *)
EveryWordPrinted ==
    \A n \in 1 .. MaxWords : written >= n ~> Len(log) >= n

(* A full ring, in which the kernel must drop records, is emptied again:   *)
(* the kernel comes to see a tail behind all it had written.               *)
RingIsFreed == written - data_tail = Size ~> written - data_tail < Size
=============================================================================
