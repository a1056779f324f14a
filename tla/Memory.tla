------------------------------- MODULE Memory -------------------------------
(***************************************************************************)
(* The memory manager (Memory/Source/memory.c): partitions of equal blocks *)
(* that tasks allocate, reallocate and free.  Each partition that a search *)
(* visits is a critical section of its own, and so are the copying and the *)
(* freeing of a reallocation, so the calls of several tasks interleave     *)
(* there.  What is read outside never changes once it is there.            *)
(*                                                                         *)
(* Calls that are refused change nothing and are left out, and a task      *)
(* holds one block at a time, or two inside a reallocation.  MemRules is   *)
(* the set of usage rules, unchecked by the code, that callers may break:  *)
(*   "stale_pointer"  free a block that one does not hold (any more);      *)
(*   "overrun"        write past the size that was asked for.              *)
(***************************************************************************)
EXTENDS Integers, Sequences, FiniteSets, FiniteSetsExt

CONSTANTS
    Callers,        \* the tasks that allocate
    Layouts,        \* the partitions that may be added: [blockSize, numBlocks]
    Sizes,          \* the sizes that are asked for
    MaxPartitions,  \* MEM_MAX_NUM_PARTITIONS
    Nothing,        \* what a task holds that has no block
    MemRules

ASSUME MemAssumption ==
    /\ \A l \in Layouts : l.blockSize \in 0 .. 255 /\ l.numBlocks \in 0 .. 255
    /\ Sizes \subseteq 1 .. 255
    /\ MaxPartitions \in 1 .. 255
    /\ MemRules \subseteq {"stale_pointer", "overrun"}

VARIABLES
    partitions,  \* partitionList: blockSize, numBlocks, numActiveBlocks
    inUse,       \* the blocks <<partition, index>> with BLOCK_IN_USE
    bytes,       \* what each block holds, by position from 1
    held,        \* the block and the size that each caller was given
    call         \* where in malloc, calloc or realloc a caller is

memVars == <<partitions, inUse, bytes, held, call>>

WatermarkSize == 2

NoCall == [op |-> "none"]

MemInit ==
    /\ partitions = << >>
    /\ inUse = {}
    /\ bytes = << >>
    /\ held = [c \in Callers |-> Nothing]
    /\ call = [c \in Callers |-> NoCall]

-----------------------------------------------------------------------------
BlocksOf(p) == { <<p, i>> : i \in 1 .. partitions[p].numBlocks }

Fill(b, value) == [i \in 1 .. partitions[b[1]].blockSize |-> value]

(* The last byte only: the comparison of memory.c:246 is one off.          *)
ZeroFill(b) ==
    [i \in 1 .. partitions[b[1]].blockSize |->
       IF i = partitions[b[1]].blockSize THEN "mark" ELSE "zero"]

LargestBlockSize == Max({ partitions[p].blockSize : p \in DOMAIN partitions }
                          \union {0})

(* u1_OSMem_findBlockSize.                                                 *)
FindBlockSize(b) == partitions[b[1]].blockSize - WatermarkSize

(* u1_OSMem_PartitionInit; the bytes are those of a zeroed array.          *)
PartitionInit(l) ==
    LET p == Len(partitions) + 1
    IN  /\ Len(partitions) < MaxPartitions
        /\ partitions' = Append(partitions, [blockSize |-> l.blockSize,
                                             numBlocks |-> l.numBlocks,
                                             numActiveBlocks |-> 0])
        /\ bytes' = [b \in DOMAIN bytes \union ({p} \X (1 .. l.numBlocks)) |->
                       IF b \in DOMAIN bytes THEN bytes[b]
                         ELSE [i \in 1 .. l.blockSize |-> "zero"]]
        /\ UNCHANGED <<inUse, held, call>>

-----------------------------------------------------------------------------
(* data_OSMem_malloc, data_OSMem_calloc.                                   *)
Request(c, op, size) ==
    /\ call[c] = NoCall
    /\ held[c] = Nothing
    /\ size <= LargestBlockSize
    /\ call' = [call EXCEPT ![c] = [op |-> op, size |-> size, at |-> 1]]
    /\ UNCHANGED <<partitions, inUse, bytes, held>>

(* data_OSMem_realloc to another size; size 0 is Free.                     *)
Realloc(c, size) ==
    /\ call[c] = NoCall
    /\ held[c] # Nothing
    /\ size <= LargestBlockSize
    /\ size # FindBlockSize(held[c].block)
    /\ call' = [call EXCEPT ![c] = [op |-> "realloc", size |-> size, at |-> 1]]
    /\ UNCHANGED <<partitions, inUse, bytes, held>>

Searching(c) == call[c].op \in {"malloc", "calloc", "realloc"}

Fits(c) == call[c].size + WatermarkSize <= partitions[call[c].at].blockSize

HasRoom(p) == partitions[p].numActiveBlocks # partitions[p].numBlocks

SkipPartition(c) ==
    /\ Searching(c)
    /\ call[c].at \in DOMAIN partitions
    /\ ~Fits(c) \/ ~HasRoom(call[c].at)
    /\ call' = [call EXCEPT ![c].at = @ + 1]
    /\ UNCHANGED <<partitions, inUse, bytes, held>>

(* Mutant of Filled: a block keeps what its last holder wrote.             *)
FilledOnlyByCalloc(op, b) == IF op = "calloc" THEN ZeroFill(b) ELSE bytes[b]

Filled(op, b) == IF op = "calloc" THEN ZeroFill(b) ELSE Fill(b, "mark")

(* Mutant of Counted: the block is not counted.                           *)
Uncounted(p) == partitions

Counted(p) == [partitions EXCEPT ![p].numActiveBlocks = @ + 1]

(* The first block that is not in use.  If there were none, the code would *)
(* go on to the next partition inside this critical section.               *)
TakeBlock(c) ==
    /\ Searching(c)
    /\ call[c].at \in DOMAIN partitions
    /\ Fits(c)
    /\ HasRoom(call[c].at)
    /\ \E b \in BlocksOf(call[c].at) \ inUse :
         /\ \A i \in 1 .. b[2] - 1 : <<b[1], i>> \in inUse
         /\ inUse' = inUse \union {b}
         /\ bytes' = [bytes EXCEPT ![b] = Filled(call[c].op, b)]
         /\ LET new == [block |-> b, size |-> call[c].size]
            IN  IF call[c].op = "realloc"
                  THEN /\ call' = [call EXCEPT ![c] = [op |-> "copy", new |-> new]]
                       /\ held' = held
                  ELSE /\ call' = [call EXCEPT ![c] = NoCall]
                       /\ held' = [held EXCEPT ![c] = new]
    /\ partitions' = Counted(call[c].at)

(* MEM_ERR_MALLOC_NO_BLOCKS_AVAIL; a reallocation leaves the old block.    *)
GiveUp(c) ==
    /\ Searching(c)
    /\ call[c].at \notin DOMAIN partitions
    /\ call' = [call EXCEPT ![c] = NoCall]
    /\ UNCHANGED <<partitions, inUse, bytes, held>>

-----------------------------------------------------------------------------
(* The second half of realloc: what fits is copied except for its last     *)
(* byte (memory.c:400), then the old block is freed.                       *)
Copied(old, new, size) ==
    LET loopLength == Min({size, FindBlockSize(old)})
    IN  [i \in DOMAIN bytes[new] |->
           IF i < loopLength THEN bytes[old][i] ELSE bytes[new][i]]

Copy(c) ==
    /\ call[c].op = "copy"
    /\ LET new == call[c].new
       IN  bytes' = [bytes EXCEPT ![new.block] =
                       Copied(held[c].block, new.block, new.size)]
    /\ call' = [call EXCEPT ![c].op = "release"]
    /\ UNCHANGED <<partitions, inUse, held>>

Release(c) ==
    /\ call[c].op = "release"
    /\ inUse' = inUse \ {held[c].block}
    /\ held' = [held EXCEPT ![c] = call[c].new]
    /\ call' = [call EXCEPT ![c] = NoCall]
    /\ UNCHANGED <<partitions, bytes>>

(* v_OSMem_free; numActiveBlocks keeps its value.                          *)
Free(c, b) ==
    /\ call[c] = NoCall
    /\ \/ held[c] # Nothing /\ held[c].block = b
       \/ "stale_pointer" \in MemRules
    /\ inUse' = inUse \ {b}
    /\ held' = IF held[c] # Nothing /\ held[c].block = b
                 THEN [held EXCEPT ![c] = Nothing]
                 ELSE held
    /\ UNCHANGED <<partitions, bytes, call>>

(* A task writes to its block.                                             *)
Write(c, i) ==
    /\ call[c] = NoCall
    /\ held[c] # Nothing
    /\ i \in DOMAIN bytes[held[c].block]
    /\ i <= held[c].size \/ "overrun" \in MemRules
    /\ bytes' = [bytes EXCEPT ![held[c].block][i] = c]
    /\ UNCHANGED <<partitions, inUse, held, call>>

MemNext ==
    \/ \E l \in Layouts : PartitionInit(l)
    \/ \E c \in Callers :
         \/ \E op \in {"malloc", "calloc"}, size \in Sizes : Request(c, op, size)
         \/ \E size \in Sizes : Realloc(c, size)
         \/ SkipPartition(c)
         \/ TakeBlock(c)
         \/ GiveUp(c)
         \/ Copy(c)
         \/ Release(c)
         \/ \E b \in DOMAIN bytes : Free(c, b)
         \/ \E i \in Sizes : Write(c, i)

MemSpec == MemInit /\ [][MemNext]_memVars

-----------------------------------------------------------------------------
(* A task reads in its block only what it wrote or the allocator filled    *)
(* in, so blocks are never shared and never keep their last holder's data. *)
NoForeignData ==
    \A c \in Callers : held[c] # Nothing =>
        /\ held[c].block \in inUse
        /\ \A i \in 1 .. held[c].size :
              bytes[held[c].block][i] \in {"mark", "zero", c}

(* A partition whose count says that it has room has a block that is not   *)
(* in use, so the search never leaves a partition, or the manager, inside  *)
(* its critical section (memory.c:163-183).                                *)
RoomIsThere ==
    \A p \in DOMAIN partitions : HasRoom(p) =>
        /\ BlocksOf(p) \ inUse # {}
        /\ partitions[p].numActiveBlocks < partitions[p].numBlocks

(* u1_OSMem_maintenance finds the watermark behind every block in use.     *)
MaintenanceSilent ==
    \A b \in inUse : \A i \in DOMAIN bytes[b] :
        i > FindBlockSize(b) => bytes[b][i] = "mark"

=============================================================================
