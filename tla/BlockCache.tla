----------------------------- MODULE BlockCache -----------------------------
(***************************************************************************)
(* The cache of pre-made blocks every generator takes its data from        *)
(* (lading_payload/src/block.rs): how Cache::fixed fills it, and how       *)
(* read_at takes slices of it.  The generators that take whole blocks in   *)
(* turn are in modules SocketGenerator and HttpGenerator.                  *)
(*                                                                         *)
(* A block is its number of bytes.  The serializer is known by its         *)
(* contract alone: asked for block_size bytes it writes at most            *)
(* block_size + overhead of them, or fails.  Module Payload has the        *)
(* serializers themselves and is shown to implement this specification.    *)
(***************************************************************************)
EXTENDS Naturals, Sequences

CONSTANTS
  Limits,       \* the pairs <<maximum_block_bytes, total_bytes>> configured
  Draws,        \* the block sizes the random generator may come up with
  U32Max,       \* the largest u32
  Offsets,      \* the offsets read_at is called with
  Lengths       \* the lengths read_at is called with

ASSUME LimitsAssumption == Limits \subseteq Nat \X (Nat \ {0})
ASSUME DrawsAssumption == Draws \subseteq Nat
ASSUME ReadsAssumption == Offsets \subseteq Nat /\ Lengths \subseteq Nat

VARIABLES
  pc,               \* "fixed", "draw", "serialize", "filled", "ready",
                    \* "reading", "error" or "panic"
  max_block_size,   \* the largest block asked for, exclusive
  total_bytes,      \* the size asked for
  overhead,         \* what the serializer may write past the block size
  bytes_remaining,  \* the bytes still to fill
  min_block_size,   \* the discovered floor for block sizes
  block_size,       \* the size drawn for the block being made
  blocks,           \* the blocks made so far, in order
  read              \* the call of read_at under way, or the last one

cacheVars == <<pc, max_block_size, total_bytes, overhead, bytes_remaining,
               min_block_size, block_size, blocks, read>>

limits == <<max_block_size, total_bytes, overhead>>

NoRead == [offset |-> 0, size |-> 0, remaining |-> 0, data |-> <<>>]

CacheInit ==
  /\ pc = "fixed"
  /\ \E l \in Limits : max_block_size = l[1] /\ total_bytes = l[2]
  /\ overhead \in {0, 4}
  /\ bytes_remaining = total_bytes
  /\ min_block_size = 0
  /\ block_size = 0
  /\ blocks = <<>>
  /\ read = NoRead

SumOf(s) ==
  LET sum[i \in 0..Len(s)] == IF i = 0 THEN 0 ELSE sum[i - 1] + s[i]
  IN  sum[Len(s)]

----------------------------------------------------------------------------
(* Filling the cache.                                                      *)

LimitsRejectedWide == max_block_size > U32Max

\* A cache cannot be asked for a block larger than itself.
LimitsRejected == max_block_size > U32Max \/ max_block_size > total_bytes

\* The limits, or the serializer's configuration, are refused.
FixedFails ==
  /\ pc = "fixed"
  /\ pc' = "error"
  /\ UNCHANGED <<limits, bytes_remaining, min_block_size, block_size, blocks, read>>

Fixed ==
  /\ pc = "fixed"
  /\ ~LimitsRejected
  /\ pc' = "draw"
  /\ UNCHANGED <<limits, bytes_remaining, min_block_size, block_size, blocks, read>>

\* The head of the loop: a size from the floor up to the maximum is drawn and
\* the serializer is called.
Draw ==
  /\ pc = "draw"
  /\ \E b \in Draws : /\ min_block_size <= b
                      /\ b < max_block_size
                      /\ block_size' = b
  /\ pc' = "serialize"
  /\ UNCHANGED <<limits, bytes_remaining, min_block_size, blocks, read>>

\* gen_range panics when its range is empty.
DrawPanics ==
  /\ pc = "draw"
  /\ min_block_size >= max_block_size
  /\ pc' = "panic"
  /\ UNCHANGED <<limits, bytes_remaining, min_block_size, block_size, blocks, read>>

ConstructedEarly(n) ==
  LET left == IF n >= bytes_remaining THEN 0 ELSE bytes_remaining - n
      floor == IF n = 0 THEN block_size \div 4 ELSE min_block_size
  IN  /\ pc = "serialize"
      /\ bytes_remaining' = left
      /\ min_block_size' = floor
      /\ blocks' = IF n = 0 THEN blocks ELSE Append(blocks, n)
      /\ pc' = IF left = 0 \/ (n > 0 /\ left < block_size) THEN "filled" ELSE "draw"
      /\ block_size' = 0
      /\ UNCHANGED <<limits, read>>

\* The serializer wrote n bytes.  An empty block is not kept: a quarter of the
\* size that turned out too small becomes the floor.  The loop ends when
\* nothing is left to fill, or less than the floor.
Constructed(n) ==
  LET left == IF n >= bytes_remaining THEN 0 ELSE bytes_remaining - n
      floor == IF n = 0 THEN block_size \div 4 ELSE min_block_size
  IN  /\ pc = "serialize"
      /\ bytes_remaining' = left
      /\ min_block_size' = floor
      /\ blocks' = IF n = 0 THEN blocks ELSE Append(blocks, n)
      /\ pc' = IF left = 0 \/ left < floor THEN "filled" ELSE "draw"
      /\ block_size' = 0
      /\ UNCHANGED <<limits, read>>

\* The serializer failed: the error is returned and the blocks are dropped.
ConstructFails ==
  /\ pc = "serialize"
  /\ pc' = "error"
  /\ UNCHANGED <<limits, bytes_remaining, min_block_size, block_size, blocks, read>>

\* The serializer panicked.
ConstructPanics ==
  /\ pc = "serialize"
  /\ pc' = "panic"
  /\ UNCHANGED <<limits, bytes_remaining, min_block_size, block_size, blocks, read>>

\* InsufficientBlockSizes when no block was made.
Filled ==
  /\ pc = "filled"
  /\ pc' = IF blocks = <<>> THEN "error" ELSE "ready"
  /\ UNCHANGED <<limits, bytes_remaining, min_block_size, block_size, blocks, read>>

----------------------------------------------------------------------------
(* Using the cache.                                                        *)

total_cycle_size == SumOf(blocks)

ReadAt(offset, size) ==
  /\ pc = "ready"
  /\ read' = [offset |-> offset, size |-> size, remaining |-> size, data |-> <<>>]
  /\ pc' = IF size = 0 THEN "ready" ELSE "reading"
  /\ UNCHANGED <<limits, bytes_remaining, min_block_size, block_size, blocks>>

\* Where block i starts in the cycle of all blocks.
BlockStart(i) == SumOf(SubSeq(blocks, 1, i - 1))

ReadStepWhole ==
  LET within == (read.offset + read.size - read.remaining) % total_cycle_size
  IN  /\ pc = "reading"
      /\ \E i \in 1..Len(blocks) :
           LET bytes == IF blocks[i] < read.remaining THEN blocks[i] ELSE read.remaining
           IN  /\ BlockStart(i) <= within
               /\ within < BlockStart(i) + blocks[i]
               /\ read' = [read EXCEPT !.remaining = @ - bytes,
                                       !.data = Append(@, [from |-> within, len |-> bytes])]
      /\ pc' = IF read'.remaining = 0 THEN "ready" ELSE "reading"
      /\ UNCHANGED <<limits, bytes_remaining, min_block_size, block_size, blocks>>

\* One turn of the loop of read_at: the block the current offset falls in, and
\* what it has from there on.  The data is the list of pieces copied, each
\* named by its place in the cycle.  The loop's escape for an offset no block
\* holds has no action: reaching it would be a deadlock here.
ReadStep ==
  LET within == (read.offset + read.size - read.remaining) % total_cycle_size
  IN  /\ pc = "reading"
      /\ \E i \in 1..Len(blocks) :
           LET rest == BlockStart(i) + blocks[i] - within
               bytes == IF rest < read.remaining THEN rest ELSE read.remaining
           IN  /\ BlockStart(i) <= within
               /\ within < BlockStart(i) + blocks[i]
               /\ read' = [read EXCEPT !.remaining = @ - bytes,
                                       !.data = Append(@, [from |-> within, len |-> bytes])]
      /\ pc' = IF read'.remaining = 0 THEN "ready" ELSE "reading"
      /\ UNCHANGED <<limits, bytes_remaining, min_block_size, block_size, blocks>>

CacheUse ==
  \/ \E offset \in Offsets, size \in Lengths : ReadAt(offset, size)
  \/ ReadStep

\* construct_block as the contract has it.
ConstructBlock ==
  \/ \E n \in 0..(block_size + overhead) : Constructed(n)
  \/ ConstructFails
  \/ ConstructPanics

CacheNext ==
  \/ Fixed
  \/ FixedFails
  \/ Draw
  \/ DrawPanics
  \/ ConstructBlock
  \/ Filled
  \/ CacheUse

CacheSpec == CacheInit /\ [][CacheNext]_cacheVars

----------------------------------------------------------------------------
(* Properties.                                                             *)

\* Cache::fixed never ends with an empty cache: next_block indexes and
\* read_at divides by what they find in it.  The error InsufficientBlockSizes of
\* construct_block_cache_inner is therefore never returned, because the limits
\* accepted by fixed keep the floor under the bytes that remain.
NeverEmpty == pc \in {"filled", "ready", "reading"} => blocks # <<>>

\* The blocks add up to what was asked for: construct_block_cache_inner stops
\* less than one floor short of total_bytes, and goes past it by less than one
\* block, as the last block is not cut to what remains.
CacheBudget ==
  /\ SumOf(blocks) + bytes_remaining >= total_bytes
  /\ SumOf(blocks) < total_bytes + max_block_size + overhead
  /\ pc \in {"filled", "ready", "reading"} =>
       bytes_remaining = 0 \/ bytes_remaining < min_block_size

\* What read_at copies is the slice of the endlessly repeated blocks it was
\* asked for: every piece starts where the one before it ended, none runs past
\* the end of the cycle, and together they are as long as requested.
ReadIsSlice ==
  LET Before(k) == SumOf([j \in 1..(k - 1) |-> read.data[j].len])
  IN  /\ Before(Len(read.data) + 1) = read.size - read.remaining
      /\ pc = "ready" => read.remaining = 0
      /\ \A k \in 1..Len(read.data) :
           /\ read.data[k].len > 0
           /\ read.data[k].from = (read.offset + Before(k)) % total_cycle_size
           /\ read.data[k].from + read.data[k].len <= total_cycle_size
============================================================================
