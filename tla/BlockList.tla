------------------------------ MODULE BlockList ------------------------------
(***************************************************************************)
(* The intrusive singly linked list of datastructures/BlockList.c.  A list *)
(* is a pair of pointers; the links live in the block headers, in the      *)
(* function nb: block index -> header.nextBlock.  A link of 0 means "the   *)
(* physically next block", which is what makes freshly mapped, zeroed      *)
(* memory a list, and what keeps block 0 from ever being a link's target.  *)
(***************************************************************************)
EXTENDS Integers, Sequences

LAST_BLOCK == -1    \* the link of the last block
NULL == -2          \* no block at all

\* Variant: the mark of the last block is followed like a link.
NextBlockUnchecked(nb, b) == IF nb[b] = 0 THEN b + 1 ELSE nb[b]

\* _getNextBlock
NextBlock(nb, b) ==
    CASE nb[b] = LAST_BLOCK -> NULL
      [] nb[b] = 0          -> b + 1
      [] OTHER              -> nb[b]

\* BlockList_Init and BlockList_Clear
EmptyList == [first |-> NULL, last |-> NULL]

IsEmpty(list) == list.first = NULL

\* BlockList_RemoveFirstBlock: the list that is left; the block returned is
\* list.first.  The assignment of NULL for the only block is overwritten by the
\* next line of the code, and `last` is left as it was.
WithoutFirst(list, nb) == [list EXCEPT !.first = NextBlock(nb, list.first)]

\* BlockList_AddBlocksLast, and BlockList_AddLast with first = last: the list ...
AddLast(list, first, last) ==
    [first |-> IF IsEmpty(list) THEN first ELSE list.first, last |-> last]

\* Variant: the new last block is not marked as last.
LinksAddLastUnterminated(list, nb, first, last) ==
    IF IsEmpty(list) THEN nb ELSE [nb EXCEPT ![list.last] = first]

\* ... and the links it leaves behind.
LinksAddLast(list, nb, first, last) ==
    LET linked == IF IsEmpty(list) THEN nb ELSE [nb EXCEPT ![list.last] = first]
    IN  [linked EXCEPT ![last] = LAST_BLOCK]

\* The blocks of list, in order, are exactly those of the sequence s.
Encodes(list, nb, s) ==
    IF s = <<>>
    THEN IsEmpty(list)
    ELSE /\ list.first = s[1]
         /\ list.last = s[Len(s)]
         /\ \A i \in 1 .. Len(s) - 1 : NextBlock(nb, s[i]) = s[i + 1]
         /\ nb[s[Len(s)]] = LAST_BLOCK

=============================================================================
