------------------------------- MODULE Bitmap -------------------------------
(***************************************************************************)
(* Bitmap (src/src/bitmap.h): a set of bit positions kept in machine       *)
(* words.  A word is read or written whole, so setting a bit rewrites its  *)
(* neighbours with what they were when the word was read.  set_bit is a    *)
(* load and a later store; set_bit_atomic is a load and a compare-and-swap *)
(* that is retried.  The bitmap is the set of positions whose bit is 1.    *)
(***************************************************************************)
EXTENDS Integers

CONSTANT BitsPerWord        \* kBitsPerWord, 64
ASSUME BitsPerWordAssumption == BitsPerWord \in Nat \ {0}

word_offset(pos) == pos \div BitsPerWord

\* start_[word_offset(pos)], as the set of its 1 bits
Word(bm, pos) == {b \in bm : word_offset(b) = word_offset(pos)}

\* start_[word_offset(pos)] = w
StoreWord(bm, pos, w) == {b \in bm : word_offset(b) # word_offset(pos)} \cup w

get_bit(bm, pos) == pos \in bm

\* The store of set_bit, given the word its load returned.
set_bit(bm, pos, loaded) == StoreWord(bm, pos, loaded \cup {pos})

\* compare_and_swap of set_bit_atomic succeeds when the word has not changed.
CanSwap(bm, pos, loaded) == Word(bm, pos) = loaded
=============================================================================
