------------------------------- MODULE Chunk -------------------------------
(***************************************************************************)
(* Chunks of bytes and lists of floats (iemnet_data.c).  A chunk is the    *)
(* sequence of its bytes, an atom of a message an integer.  Allocation is  *)
(* taken to succeed.                                                       *)
(***************************************************************************)
EXTENDS Integers, Sequences, FiniteSets

NoChunk == <<>>

(* iemnet__chunk_create_list: every atom becomes an unsigned char; an      *)
(* empty list gives no chunk.                                              *)
ChunkCreateList(list) == [i \in DOMAIN list |-> list[i] % 256]

(* iemnet__chunk_create_dataaddr: what recvfrom has read, and no chunk for *)
(* a result below 1.                                                       *)
ChunkCreateData(result, data) ==
  IF result < 1 THEN NoChunk ELSE SubSeq(data, 1, result)

(* iemnet__floatlist_create with iemnet__floatlist_init.                   *)
FloatlistCreate(size) ==
  [argc |-> size, size |-> size, argv |-> [i \in 1 .. size |-> 0]]

(* Mutant: a list that is large enough keeps its old length.               *)
FloatlistResizeKeeps(cl, size) ==
  IF size <= cl.size THEN cl ELSE FloatlistCreate(size)

(* iemnet__floatlist_resize: the memory of a list never shrinks.           *)
FloatlistResize(cl, size) ==
  IF size <= cl.size THEN [cl EXCEPT !.argc = size]
  ELSE FloatlistCreate(size)

(* iemnet__chunk2list *)
Chunk2List(c, dest) ==
  LET cl == FloatlistResize(dest, Len(c))
  IN  [cl EXCEPT !.argv = [i \in 1 .. cl.size |->
                             IF i <= Len(c) THEN c[i] ELSE cl.argv[i]]]

(* What an outlet gets of a list.                                          *)
Atoms(cl) == SubSeq(cl.argv, 1, cl.argc)

(* The fill state of a queue of chunks: the number of bytes in it, each of *)
(* them at a place of its own in one of the chunks.                        *)
BytesOf(q) == UNION {{i} \X DOMAIN q[i] : i \in DOMAIN q}
QueuedBytes(q) == Cardinality(BytesOf(q))
============================================================================
