--------------------------- MODULE MCBlockWriters ---------------------------
EXTENDS BlockWriters

SmallSizes == <<3, 2, 1>>
SmallBlocks == <<1, 3, 2>>
=============================================================================
