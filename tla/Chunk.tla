------------------------------- MODULE Chunk -------------------------------
(* Where malloc notes the size that was asked for, so that free can tell it   *)
(* to the recycle pool (intercepter/src/mm.cpp, get_chunk_implant_advice,     *)
(* implant_chunk, fetch_implanted).  glibc gives a mapped chunk: padding, the *)
(* header, the bytes of the program, and what was rounded up.  There is room  *)
(* in the padding, at the tail, in one byte of the tail, or in flags of the   *)
(* header only.                                                               *)
EXTENDS Integers

Word == 8             \* sizeof(size_t)
HeaderSize == 16      \* MMAPCHUNK_HEADERSIZE
MinAlignment == 16    \* MALLOC_ALIGNMENT
NODIFF_BIT == 1
COMPRESSED_BIT == 4
Lost == 0             \* what the program happens to write over a note

(* A chunk and what is written where: head and alignment are the first words  *)
(* of the padding, tail is the last word of the chunk, byte its last byte.    *)
Mapped(size, padding) ==
  [size |-> size, padding |-> padding, flags |-> {},
   head |-> 0, alignment |-> 0, tail |-> 0, byte |-> 0]

Diff(chunk, len) == chunk.size - (len + HeaderSize)

(* A tail of any length is taken to have room for a word. *)
AdviceByWords(chunk, len) ==
  [at |-> IF Diff(chunk, len) = 0 THEN "flags"
          ELSE IF chunk.padding >= Word THEN "head" ELSE "tail",
   size_diff |-> 0]

Advice(chunk, len) ==
  LET diff == Diff(chunk, len) IN
  IF diff = 0 THEN [at |-> "flags", size_diff |-> 0]
  ELSE IF chunk.padding >= Word THEN [at |-> "head", size_diff |-> 0]
  ELSE IF chunk.padding > 0 /\ diff < 256 THEN [at |-> "head", size_diff |-> diff]
  ELSE IF diff < Word THEN [at |-> "byte", size_diff |-> diff]
  ELSE [at |-> "tail", size_diff |-> 0]

(* user_len << 1 | specific_alignment *)
Note(len, alignment) == 2 * len + IF alignment > MinAlignment THEN 1 ELSE 0

Implanted(chunk, len, alignment) ==
  LET advice == Advice(chunk, len)
      value  == IF advice.size_diff # 0 THEN advice.size_diff % 256 ELSE Note(len, alignment)
  IN [chunk EXCEPT
        !.flags = IF advice.size_diff # 0 THEN {COMPRESSED_BIT}
                  ELSE IF advice.at = "flags" THEN {NODIFF_BIT} ELSE {},
        !.head = IF advice.at = "head" THEN value ELSE @,
        !.alignment = IF advice.at = "head" /\ advice.size_diff = 0
                         /\ alignment > MinAlignment THEN alignment ELSE @,
        !.tail = IF advice.at = "tail" THEN value ELSE @,
        !.byte = IF advice.at = "byte" THEN value ELSE @]

(* The program fills its len bytes: when they reach into the last word, or to  *)
(* the last byte, what was there is lost.                                      *)
Used(chunk, len) ==
  [chunk EXCEPT
     !.tail = IF Diff(chunk, len) < Word THEN Lost ELSE @,
     !.byte = IF Diff(chunk, len) = 0 THEN Lost ELSE @]

Fetched(chunk) ==
  LET without(diff) == [size |-> chunk.size - diff - HeaderSize, alignment |-> 0] IN
  IF chunk.padding >= Word
    THEN [size |-> chunk.head \div 2,
          alignment |-> IF chunk.head % 2 = 1 THEN chunk.alignment ELSE 0]
  ELSE IF chunk.padding > 0 THEN without(chunk.head)
  ELSE IF COMPRESSED_BIT \in chunk.flags THEN without(chunk.byte)
  ELSE IF NODIFF_BIT \notin chunk.flags THEN [size |-> chunk.tail \div 2, alignment |-> 0]
  ELSE without(0)
=============================================================================
