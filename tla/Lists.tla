--------------------------------- MODULE Lists ---------------------------------
(***************************************************************************)
(* What the models do with lists that the library has no operator for.     *)
(* The filters of the source, list.filter(e => set.has(e)) and its         *)
(* negation, are defined by a recursive function, about which theorems can *)
(* be proved, rather than by SelectSeq.                                    *)
(***************************************************************************)
EXTENDS Naturals, Sequences, SequencesExt

(* The elements that are in the set, from the first to the last.            *)
Only(list, set) ==
  LET kept[i \in 0 .. Len(list)] ==
        IF i = 0 THEN << >>
        ELSE IF list[i] \in set THEN Append(kept[i - 1], list[i])
        ELSE kept[i - 1]
  IN  kept[Len(list)]

(* The elements that are not.                                               *)
Without(list, set) == Only(list, ToSet(list) \ set)
=============================================================================
