-------------------------- MODULE BlockCacheProofs --------------------------
(***************************************************************************)
(* For every set of limits, every block size drawn and every serializer    *)
(* that keeps to its contract: Cache::fixed never ends with an empty       *)
(* cache, always has a size to draw, and makes blocks no longer than the   *)
(* maximum.                                                                *)
(***************************************************************************)
EXTENDS BlockCache, TLAPS

\* Every block has a byte, and fewer than the maximum block size and what
\* framing adds (construct_block_cache_inner draws sizes below the maximum).
BlocksWithinMaximum ==
  \A i \in 1..Len(blocks) : 0 < blocks[i] /\ blocks[i] < max_block_size + overhead

\* There is a size to draw: gen_range panics only for a maximum of 0.
SizeToDraw == pc = "draw" => max_block_size = 0 \/ min_block_size < max_block_size

Pcs == {"fixed", "draw", "serialize", "filled", "ready", "reading", "error", "panic"}

CacheTypeOK ==
  /\ pc \in Pcs
  /\ max_block_size \in Nat
  /\ total_bytes \in Nat \ {0}
  /\ overhead \in {0, 4}
  /\ bytes_remaining \in Nat
  /\ min_block_size \in Nat
  /\ block_size \in Nat
  /\ blocks \in Seq(Nat)

\* The limits were accepted, the size drawn is below the maximum and so is the
\* floor, and until a block is made nothing is taken off the bytes to fill.
CacheIInv ==
  /\ CacheTypeOK
  /\ pc \in {"draw", "serialize"} => max_block_size <= total_bytes
  /\ pc = "serialize" => block_size < max_block_size
  /\ min_block_size > 0 => min_block_size < max_block_size
  /\ blocks = <<>> => bytes_remaining = total_bytes
  /\ BlocksWithinMaximum
  /\ NeverEmpty

\* A quarter of a size is not larger than it.
LEMMA Quarter == \A b \in Nat : b \div 4 \in Nat /\ b \div 4 <= b
BY SMT

LEMMA CacheInitInv == CacheInit => CacheIInv
<1> SUFFICES ASSUME CacheInit PROVE CacheIInv
  OBVIOUS
<1>1. PICK l \in Limits : max_block_size = l[1] /\ total_bytes = l[2]
  BY DEF CacheInit
<1>2. max_block_size \in Nat /\ total_bytes \in Nat \ {0}
  BY <1>1, LimitsAssumption
<1>3. CacheTypeOK
  BY <1>2 DEF CacheInit, CacheTypeOK, Pcs
<1>4. BlocksWithinMaximum
  BY DEF CacheInit, BlocksWithinMaximum
<1> QED
  BY <1>3, <1>4 DEF CacheInit, CacheIInv, NeverEmpty

\* A block made of n bytes, within the contract, keeps the invariant.
LEMMA ConstructedInv ==
  ASSUME CacheIInv, NEW n \in 0..(block_size + overhead), Constructed(n)
  PROVE  CacheIInv'
<1> DEFINE left == IF n >= bytes_remaining THEN 0 ELSE bytes_remaining - n
<1> DEFINE floor == IF n = 0 THEN block_size \div 4 ELSE min_block_size
<1>1. /\ pc = "serialize"
      /\ bytes_remaining' = left
      /\ min_block_size' = floor
      /\ blocks' = IF n = 0 THEN blocks ELSE Append(blocks, n)
      /\ pc' = IF left = 0 \/ left < floor THEN "filled" ELSE "draw"
      /\ block_size' = 0
      /\ UNCHANGED <<max_block_size, total_bytes, overhead>>
  BY DEF Constructed, limits
<1>2. CacheTypeOK /\ n \in Nat /\ n < max_block_size + overhead
      /\ block_size < max_block_size /\ max_block_size <= total_bytes
  BY <1>1 DEF CacheIInv, CacheTypeOK
<1>3. left \in Nat /\ floor \in Nat
  BY <1>2, Quarter DEF CacheTypeOK
<1>4. CacheTypeOK'
  <2>1. blocks' \in Seq(Nat)
    BY <1>1, <1>2 DEF CacheTypeOK
  <2> HIDE DEF left, floor
  <2> QED
    BY <1>1, <1>2, <1>3, <2>1 DEF CacheTypeOK, Pcs
<1>5. floor > 0 => floor < max_block_size
  BY <1>2, Quarter DEF CacheIInv, CacheTypeOK
<1>6. (blocks = <<>> => bytes_remaining = total_bytes)'
  <2>1. CASE n = 0
    BY <1>1, <1>2, <2>1 DEF CacheIInv, CacheTypeOK
  <2>2. CASE n # 0
    BY <1>1, <1>2, <2>2 DEF CacheTypeOK
  <2> QED
    BY <2>1, <2>2
<1>7. BlocksWithinMaximum'
  <2>1. CASE n = 0
    BY <1>1, <2>1 DEF CacheIInv, BlocksWithinMaximum
  <2>2. CASE n # 0
    BY <1>1, <1>2, <2>2 DEF CacheIInv, CacheTypeOK, BlocksWithinMaximum
  <2> QED
    BY <2>1, <2>2
<1>8. NeverEmpty'
  <2>1. CASE n = 0
    <3>1. blocks = <<>> => left = total_bytes
      BY <1>2, <2>1 DEF CacheIInv, CacheTypeOK
    <3>2. blocks = <<>> => pc' = "draw"
      BY <1>1, <1>2, <1>3, <1>5, <3>1 DEF CacheTypeOK
    <3> QED
      BY <1>1, <2>1, <3>2 DEF NeverEmpty
  <2>2. CASE n # 0
    BY <1>1, <1>2, <2>2 DEF NeverEmpty, CacheTypeOK
  <2> QED
    BY <2>1, <2>2
<1> HIDE DEF left, floor
<1> QED
  BY <1>1, <1>2, <1>3, <1>4, <1>5, <1>6, <1>7, <1>8 DEF CacheIInv

LEMMA CacheNextInv ==
  ASSUME CacheIInv, [CacheNext]_cacheVars
  PROVE  CacheIInv'
<1> USE DEF CacheIInv, CacheTypeOK, Pcs, BlocksWithinMaximum, NeverEmpty, limits
<1>1. CASE Fixed
  BY <1>1 DEF Fixed, LimitsRejected
<1>2. CASE FixedFails
  BY <1>2 DEF FixedFails
<1>3. CASE Draw
  <2>1. PICK b \in Draws : min_block_size <= b /\ b < max_block_size /\ block_size' = b
    BY <1>3 DEF Draw
  <2> QED
    BY <1>3, <2>1, DrawsAssumption DEF Draw
<1>4. CASE DrawPanics
  BY <1>4 DEF DrawPanics
<1>5. CASE ConstructBlock
  <2>1. CASE \E n \in 0..(block_size + overhead) : Constructed(n)
    BY <2>1, ConstructedInv
  <2>2. CASE ConstructFails
    BY <2>2 DEF ConstructFails
  <2>3. CASE ConstructPanics
    BY <2>3 DEF ConstructPanics
  <2> QED
    BY <1>5, <2>1, <2>2, <2>3 DEF ConstructBlock
<1>6. CASE Filled
  BY <1>6 DEF Filled
<1>7. CASE CacheUse
  <2>1. CASE \E offset \in Offsets, size \in Lengths : ReadAt(offset, size)
    BY <2>1 DEF ReadAt
  <2>2. CASE ReadStep
    BY <2>2 DEF ReadStep
  <2> QED
    BY <1>7, <2>1, <2>2 DEF CacheUse
<1>8. CASE UNCHANGED cacheVars
  BY <1>8 DEF cacheVars
<1> QED
  BY <1>1, <1>2, <1>3, <1>4, <1>5, <1>6, <1>7, <1>8 DEF CacheNext

THEOREM CacheInvariant == CacheSpec => []CacheIInv
BY CacheInitInv, CacheNextInv, PTL DEF CacheSpec

\* Cache::fixed never returns an empty cache, and never the error
\* InsufficientBlockSizes, for every limit and every serializer.
THEOREM CacheNeverEmpty == CacheSpec => []NeverEmpty
<1>1. CacheIInv => NeverEmpty
  BY DEF CacheIInv
<1> QED
  BY <1>1, CacheInvariant, PTL

\* Every block fits the limits Cache::fixed was given.
THEOREM CacheBlocksWithinMaximum == CacheSpec => []BlocksWithinMaximum
<1>1. CacheIInv => BlocksWithinMaximum
  BY DEF CacheIInv
<1> QED
  BY <1>1, CacheInvariant, PTL

\* Discovering the smallest viable block never leaves construct_block_cache_inner
\* without a size to draw.
THEOREM CacheSizeToDraw == CacheSpec => []SizeToDraw
<1>1. CacheIInv => SizeToDraw
  BY DEF CacheIInv, CacheTypeOK, SizeToDraw
<1> QED
  BY <1>1, CacheInvariant, PTL
============================================================================
