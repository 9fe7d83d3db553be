------------------------------ MODULE MipsJit ------------------------------
(***************************************************************************)
(* The warm-up of --jit, src/src/c/mips_jit.c: one loop over the binary    *)
(* caches every decoded instruction in a hash table and marks the targets  *)
(* of branches, a second one cuts the binary into basic blocks and chains  *)
(* them.  mips_jit_hit_bb counts the executions of a block.                *)
(*                                                                         *)
(* Addresses count instructions: the code's are four times these.  The     *)
(* interpreter never consults what is built here, and nothing in src/ calls*)
(* mips_jit_hit_bb.                                                        *)
(***************************************************************************)
EXTENDS Integers, Sequences, FiniteSets

CONSTANTS
  CacheSize,    \* JIT_CACHE_SIZE, which is also the size of the hash
  Probes,       \* slots tried before giving up: 8 in the code
  BBMax,        \* JIT_BB_MAX
  Binaries,     \* the binaries loaded
  MaxVisits     \* bound: calls of mips_jit_hit_bb

(* A decoded instruction: a jump holds its target, and imm is the lower    *)
(* half of the word whatever the instruction.                              *)
Kinds == {"plain", "branch", "jump", "register jump"}

Decoded == [kind : Kinds, imm : Int, target : Nat]

ASSUME JitAssumption ==
  /\ CacheSize \in Nat \ {0} /\ Probes \in Nat \ {0} /\ BBMax \in Nat
  /\ Binaries \subseteq Seq(Decoded)
  /\ MaxVisits \in Nat

VARIABLES
  code,             \* the loaded binary
  cache,            \* jit->cache: a slot's addr, is_branch and is_target
  cache_count,      \* jit->cache_count
  blocks,           \* jit->blocks, block_count of them
  loop,             \* the loop mips_jit_warmup is in: "none" once it returned
  pc, end,          \* its variables
  visits            \* the arguments of mips_jit_hit_bb so far

vars == <<code, cache, cache_count, blocks, loop, pc, end, visits>>

None == -1          \* 0xFFFFFFFF

Slots     == 0 .. CacheSize - 1
EmptySlot == [addr |-> None, branch |-> FALSE, target |-> FALSE]

InCode(a) == a \in 0 .. Len(code) - 1
At(a)     == code[a + 1]

Transfers == {"branch", "jump", "register jump"}

Init ==
  /\ code \in Binaries
  /\ cache = [h \in Slots |-> EmptySlot]
  /\ cache_count = 0
  /\ blocks = << >>
  /\ loop = "cache"
  /\ pc = 0 /\ end = 0
  /\ visits = << >>

(* Mutant of Probed: the first slot is taken whatever it holds.            *)
ProbedBlindly(c, a) == {0}

(* The probes that end a search: the address itself or an empty slot.      *)
Slot(a, probe) == (a + probe) % CacheSize

Probed(c, a) ==
  {probe \in 0 .. Probes - 1 : c[Slot(a, probe)].addr \in {a, None}}

Found(c, a) == Probed(c, a) # {}

(* Where jit_cache_get stops.                                              *)
Get(c, a) == Slot(a, CHOOSE probe \in Probed(c, a) : \A q \in Probed(c, a) : probe <= q)

(* Marks of a slot that is still empty are wiped when it is filled.        *)
Cached(c, a) ==
  IF ~Found(c, a) \/ c[Get(c, a)].addr = a
  THEN c
  ELSE [c EXCEPT ![Get(c, a)] =
          [addr |-> a, branch |-> At(a).kind \in Transfers, target |-> FALSE]]

MarkTarget(c, a) ==
  IF InCode(a) /\ Found(c, a) THEN [c EXCEPT ![Get(c, a)].target = TRUE] ELSE c

(* Both targets are tried: the offset for every transfer, although only    *)
(* branches have one, and the absolute one for jumps.                      *)
OffsetTarget(a) == a + 1 + At(a).imm

Marked(c, a) ==
  IF ~Found(c, a) \/ ~c[Get(c, a)].branch
  THEN c
  ELSE LET c1 == MarkTarget(c, OffsetTarget(a))
       IN  IF At(a).kind = "jump" THEN MarkTarget(c1, At(a).target) ELSE c1

CacheInstr ==
  /\ loop = "cache" /\ InCode(pc)
  /\ cache' = Marked(Cached(cache, pc), pc)
  /\ cache_count' =
       IF Found(cache, pc) /\ cache[Get(cache, pc)].addr # pc
       THEN cache_count + 1 ELSE cache_count
  /\ pc' = pc + 1
  /\ UNCHANGED <<code, blocks, loop, end, visits>>

CacheDone ==
  /\ loop = "cache" /\ ~InCode(pc)
  /\ loop' = "blocks" /\ pc' = 0
  /\ UNCHANGED <<code, cache, cache_count, blocks, end, visits>>

-----------------------------------------------------------------------------
(* Mutant of Building: one block too many.                                 *)
BuildingPast == InCode(pc) /\ Len(blocks) <= BBMax

Building == InCode(pc) /\ Len(blocks) < BBMax

SkipUncached ==
  /\ loop = "blocks" /\ Building
  /\ ~Found(cache, pc)
  /\ pc' = pc + 1
  /\ UNCHANGED <<code, cache, cache_count, blocks, loop, end, visits>>

StartBlock ==
  /\ loop = "blocks" /\ Building
  /\ Found(cache, pc)
  /\ loop' = "scan" /\ end' = pc
  /\ UNCHANGED <<code, cache, cache_count, blocks, pc, visits>>

IsTarget(a) == Found(cache, a) /\ cache[Get(cache, a)].target
IsBranch(a) == Found(cache, a) /\ cache[Get(cache, a)].branch

(* Where a scan stops: before a target, behind a branch.                   *)
StopsBefore(a) == a # pc /\ IsTarget(a)

(* Mutant of EndsHere: only targets end a block.                           *)
EndsNever(a) == FALSE

EndsHere(a) == IsBranch(a)

(* Mutant of ScanOn: the scan does not move.                               *)
ScanOnStays ==
  /\ loop = "scan"
  /\ InCode(end) /\ ~StopsBefore(end) /\ ~EndsHere(end)
  /\ UNCHANGED vars

ScanOn ==
  /\ loop = "scan"
  /\ InCode(end) /\ ~StopsBefore(end) /\ ~EndsHere(end)
  /\ end' = end + 1
  /\ UNCHANGED <<code, cache, cache_count, blocks, loop, pc, visits>>

(* Mutant of BranchOf: every transfer by its offset.                       *)
BranchByOffset(e) ==
  LET a == e - 1
  IN  IF e >= 2 /\ IsBranch(a) /\ InCode(OffsetTarget(a)) THEN OffsetTarget(a) ELSE None

(* The block's last instruction is looked at only when it is not the first *)
(* of the binary.                                                          *)
BranchOf(e) ==
  LET a == e - 1
  IN  IF e < 2 \/ ~IsBranch(a) THEN None
      ELSE IF At(a).kind = "jump" /\ InCode(At(a).target) THEN At(a).target
      ELSE IF InCode(OffsetTarget(a)) THEN OffsetTarget(a)
      ELSE None

(* Mutant of AddBlock: the next block starts behind the one after.         *)
AddBlockAndSkip(e) ==
  /\ blocks' = Append(blocks, [start |-> pc, end |-> e, hits |-> 0,
                               next |-> IF InCode(e) THEN e ELSE None,
                               branch |-> BranchOf(e)])
  /\ pc' = e + 1
  /\ loop' = "blocks"

AddBlock(e) ==
  /\ blocks' = Append(blocks, [start |-> pc, end |-> e, hits |-> 0,
                               next |-> IF InCode(e) THEN e ELSE None,
                               branch |-> BranchOf(e)])
  /\ pc' = e
  /\ loop' = "blocks"

EndBlock ==
  /\ loop = "scan"
  /\ \/ (~InCode(end) \/ StopsBefore(end)) /\ AddBlock(end)
     \/ InCode(end) /\ ~StopsBefore(end) /\ EndsHere(end) /\ AddBlock(end + 1)
  /\ UNCHANGED <<code, cache, cache_count, end, visits>>

WarmupReturns ==
  /\ loop = "blocks" /\ ~Building
  /\ loop' = "none"
  /\ UNCHANGED <<code, cache, cache_count, blocks, pc, end, visits>>

Warmup ==
  \/ CacheInstr
  \/ CacheDone
  \/ SkipUncached
  \/ StartBlock
  \/ ScanOn
  \/ EndBlock
  \/ WarmupReturns

Hits(b, a) == b.start = a

(* The first block that matches is counted.                                *)
HitBB(a) ==
  /\ loop = "none"
  /\ Len(visits) < MaxVisits /\ visits' = Append(visits, a)
  /\ LET matching == {k \in DOMAIN blocks : Hits(blocks[k], a)}
     IN  blocks' = IF matching = {} THEN blocks
                   ELSE [blocks EXCEPT ![CHOOSE k \in matching :
                           \A j \in matching : k <= j].hits = @ + 1]
  /\ UNCHANGED <<code, cache, cache_count, loop, pc, end>>

Next ==
  \/ Warmup
  \/ \E a \in 0 .. Len(code) : HitBB(a)

(* The warm-up is a loop in the only thread.                               *)
Spec == Init /\ [][Next]_vars /\ WF_vars(Warmup)

-----------------------------------------------------------------------------
(* The tables keep their shape and the counts their limits.                *)
TypeOK ==
  /\ code \in Seq(Decoded)
  /\ cache \in [Slots -> [addr : Nat \union {None}, branch : BOOLEAN, target : BOOLEAN]]
  /\ cache_count = Cardinality({h \in Slots : cache[h].addr # None})
  /\ Len(blocks) <= BBMax
  /\ \A k \in DOMAIN blocks : blocks[k].start < blocks[k].end
  /\ loop \in {"cache", "blocks", "scan", "none"}
  /\ pc \in 0 .. Len(code) /\ end \in 0 .. Len(code)

(* The table holds the first CacheSize instructions read so far, each at   *)
(* its own slot and with its own kind, and nothing else: what is behind    *)
(* them neither displaces them nor is found in their place.                *)
CacheExact ==
  \A h \in Slots :
    LET read == h < Len(code) /\ (loop = "cache" => h < pc)
    IN  /\ cache[h].addr = IF read THEN h ELSE None
        /\ cache[h].branch = (read /\ At(h).kind \in Transfers)

(* Blocks follow each other from address 0 without gap or overlap, and     *)
(* reach the end of the binary unless the block table is full or the       *)
(* first instruction without a cache entry comes right behind a block.     *)
BlocksTile ==
  /\ \A k \in DOMAIN blocks :
       blocks[k].start = IF k = 1 THEN 0 ELSE blocks[k - 1].end
  /\ loop = "none" =>
       \/ Len(blocks) = BBMax
       \/ code = << >>
       \/ blocks # << >> /\ blocks[Len(blocks)].end \in {Len(code), CacheSize}

(* What an instruction transfers control to, as the interpreter sees it.   *)
Direct(a) ==
  CASE At(a).kind = "jump"   -> {At(a).target}
    [] At(a).kind = "branch" -> {OffsetTarget(a)}
    [] OTHER                 -> {}

Within(a, b) == b.start < a /\ a < b.end

(* What the warm-up cuts at, without its loops: behind a transfer, and     *)
(* before an address that a transfer at it or behind it leads to.  A mark  *)
(* made from before the address is wiped when the address is cached.       *)
Tried(a) ==
  IF At(a).kind \notin Transfers THEN {}
  ELSE {OffsetTarget(a)} \union (IF At(a).kind = "jump" THEN {At(a).target} ELSE {})

InCache(a) == a \in Slots /\ InCode(a)

CutBefore(a) ==
  \/ InCache(a - 1) /\ At(a - 1).kind \in Transfers
  \/ InCache(a) /\ \E e \in Slots : a <= e /\ InCode(e) /\ a \in Tried(e)

(* A block ends where the code is cut or ends, and nowhere before: a branch*)
(* forward into it does not cut it, the address that a jump's lower half   *)
(* would be the offset of does, and system calls, "plain" here, do not end *)
(* it.  This is not what docs/jit.md says (TargetsStartBlocks).            *)
CutExactly ==
  \A k \in DOMAIN blocks :
    LET b == blocks[k]
    IN  /\ \A a \in b.start + 1 .. b.end - 1 : ~CutBefore(a)
        /\ CutBefore(b.end) \/ b.end = Len(code)

(* src/docs/jit.md:30, "Entry: Start of program, or a branch target": no   *)
(* instruction that fits the cache transfers control into a block.         *)
TargetsStartBlocks ==
  \A k \in DOMAIN blocks : \A a \in Slots : InCode(a) =>
    \A t \in Direct(a) : InCode(t) => ~Within(t, blocks[k])

(* A block's successors are those of its last instruction, as far as they  *)
(* lie in the binary: the next instruction, and the target of a direct     *)
(* transfer.  The one-instruction block at address 0 is not chained to its *)
(* target.                                                                 *)
Chained ==
  \A k \in DOMAIN blocks :
    LET b == blocks[k]
        a == b.end - 1
    IN  /\ b.next = IF InCode(b.end) THEN b.end ELSE None
        /\ a \in Slots \ {0} =>
             \A t \in Direct(a) : InCode(t) => b.branch = t

(* mips_jit_warmup returns.                                                *)
WarmupEnds == <>(loop = "none")
=============================================================================
