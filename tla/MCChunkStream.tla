--------------------------- MODULE MCChunkStream ---------------------------
(* Small instances of ChunkStream: a file of three bytes in chunks of two.   *)
EXTENDS ChunkStream

CONSTANTS x, y

ThreeBytes == {<<x, y, x>>}
\* A rewrite that keeps the first chunk, one that changes it, a longer and an empty file.
ThreeByteRewrites == {<<x, y, y>>, <<y, y, x>>, <<x, y, x, x>>}
AnyRewrites == ThreeByteRewrites \cup {<<>>}
=============================================================================
