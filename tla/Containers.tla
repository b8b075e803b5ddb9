----------------------------- MODULE Containers -----------------------------
(***************************************************************************)
(* The container helpers the kernel's managers are built from: erase_all   *)
(* (process/manager.hpp) on deques and vectors of pointers, and the slot   *)
(* search of DenseMap (util/dense-map.hpp), which hands out process,       *)
(* thread, event and device numbers.                                       *)
(***************************************************************************)
EXTENDS Naturals, Sequences, Functions

\* erase_all(c, value): std::remove followed by erase, i.e. c without any
\* occurrence of value, the other elements in their order.  kept[i] is what
\* remains of the first i elements.
erase_all(c, value) ==
  LET kept[i \in 0..Len(c)] ==
        IF i = 0 THEN <<>>
        ELSE IF c[i] = value THEN kept[i-1]
        ELSE Append(kept[i-1], c[i])
  IN  kept[Len(c)]

\* DenseMap::find_empty_slot: i is the first slot of Slots that holds nothing.
IsEmptySlot(Slots, used, i) ==
  /\ i \in Slots \ used
  /\ \A j \in Slots \ used : i <= j
=============================================================================
