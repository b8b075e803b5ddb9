--------------------------- MODULE FrameAllocator ---------------------------
(***************************************************************************)
(* BitmapMemoryManager (memory/allocator.hpp) and the handles that own     *)
(* frames, SmartFrameID and SmartSingleFrameID (memory/frame.hpp).         *)
(*                                                                         *)
(* Calls hold the mutex of critical_allocator from their first to their    *)
(* last step, so pc is the position of the one call in progress, "ready"   *)
(* when there is none.  Every turn of a loop is a step.  Addresses are     *)
(* counted in frames (uefi_page_size = bytes_per_frame), and the words of  *)
(* the bitmap are left out: get_bit and set_bit address one bit each.      *)
(***************************************************************************)
EXTENDS Integers, Sequences

CONSTANTS
  Limit,         \* required_frames: bits in the bitmap
  MemoryMaps,    \* the memory maps the firmware may pass
  Handles,       \* SmartFrameID and SmartSingleFrameID objects
  MaxFrames      \* bound: the largest allocation asked for

Frames == 0..Limit - 1
Descriptor == [physical_start : Nat, number_of_pages : Nat, available : BOOLEAN]
nullframe == -1             \* numeric_limits<size_t>::max()
range_begin == 1            \* set_range(FrameID(1), ...)

End(desc) == desc.physical_start + desc.number_of_pages

\* Firmware lists descriptors in ascending order, without overlap, and the
\* bitmap has a bit for every frame described and for the one after the last.
MapAssumption(mm) ==
  /\ mm \in Seq(Descriptor)
  /\ \A j, k \in DOMAIN mm : j < k => End(mm[j]) <= mm[k].physical_start
  /\ \A k \in DOMAIN mm : End(mm[k]) < Limit

ASSUME ConstantsAssumption ==
  /\ Limit \in Nat /\ Limit > 1
  /\ MaxFrames \in Nat
  /\ \A mm \in MemoryMaps : MapAssumption(mm)

VARIABLES
  allocation_map, range_end,
  memory_map, k, available_end,   \* the constructor's argument and locals
  pc,
  target, wanted, start, i,       \* allocate: result, argument and locals
  id, frames                      \* SmartFrameID::id, SmartFrameID::frames

bitmap == <<allocation_map, range_end>>
construction == <<memory_map, k, available_end>>
call == <<target, wanted, start, i>>
handles == <<id, frames>>
vars == <<bitmap, construction, pc, call, handles>>

set_bits(begin, n, flag) ==
  [f \in Frames |-> IF f \in begin..begin + n - 1 THEN flag ELSE allocation_map[f]]

\* The kernel object lies in a zeroed static buffer: all bits are clear.
Init ==
  /\ allocation_map = [f \in Frames |-> FALSE]
  /\ range_end = Limit
  /\ memory_map \in MemoryMaps
  /\ k = 1
  /\ available_end = 0
  /\ pc = "construct"
  /\ target \in Handles /\ wanted = 0 /\ start = 0 /\ i = 0
  /\ id = [h \in Handles |-> nullframe]
  /\ frames = [h \in Handles |-> 0]

-----------------------------------------------------------------------------
(* BitmapMemoryManager::BitmapMemoryManager                                *)

\* What one descriptor marks: the hole since the last available one, and its
\* own frames unless they are available.
Marked(desc) ==
  LET hole == available_end..desc.physical_start - 1
      own == IF desc.available THEN {} ELSE desc.physical_start..End(desc) - 1
  IN  hole \cup own

construct ==
  /\ pc = "construct" /\ k <= Len(memory_map)
  /\ LET desc == memory_map[k] IN
       /\ allocation_map' = [f \in Frames |-> allocation_map[f] \/ f \in Marked(desc)]
       /\ available_end' = IF desc.available THEN End(desc) ELSE available_end
  /\ k' = k + 1
  /\ UNCHANGED <<range_end, memory_map, pc, call, handles>>

set_range ==
  /\ pc = "construct" /\ k > Len(memory_map)
  /\ range_end' = available_end
  /\ pc' = "ready"
  /\ UNCHANGED <<allocation_map, construction, call, handles>>

-----------------------------------------------------------------------------
(* allocate and allocate_single.  The result goes to an empty handle; a    *)
(* handle that owns frames is assigned to with move_assign.                *)

begin_call(h, n, name) ==
  /\ pc = "ready" /\ id[h] = nullframe
  /\ pc' = name
  /\ target' = h /\ wanted' = n /\ start' = range_begin /\ i' = 0
  /\ UNCHANGED <<bitmap, construction, handles>>

allocate(h, n) == begin_call(h, n, "allocate")

allocate_single(h) == begin_call(h, 1, "allocate_single")

\* Deliberately wrong: the search goes on one frame too far.
allocate_next_skip ==
  /\ pc = "allocate" /\ i < wanted /\ start + i <= range_end
  /\ IF allocation_map[start + i]
     THEN start' = start + i + 2 /\ i' = 0
     ELSE start' = start /\ i' = i + 1
  /\ UNCHANGED <<bitmap, construction, pc, target, wanted, handles>>

\* A turn of the inner loop; a frame in use restarts the search behind it.
allocate_next ==
  /\ pc = "allocate" /\ i < wanted /\ start + i <= range_end
  /\ IF allocation_map[start + i]
     THEN start' = start + i + 1 /\ i' = 0
     ELSE start' = start /\ i' = i + 1
  /\ UNCHANGED <<bitmap, construction, pc, target, wanted, handles>>

\* The locals of a call end with it.
end_call ==
  /\ pc' = "ready"
  /\ wanted' = 0 /\ start' = 0 /\ i' = 0
  /\ UNCHANGED <<range_end, construction, target>>

give(n) ==
  /\ allocation_map' = set_bits(start, n, TRUE)
  /\ id' = [id EXCEPT ![target] = start]
  /\ frames' = [frames EXCEPT ![target] = n]
  /\ end_call

allocate_return == pc = "allocate" /\ i = wanted /\ give(wanted)

allocate_fail ==
  /\ pc = "allocate" /\ i < wanted /\ start + i > range_end
  /\ end_call
  /\ UNCHANGED <<allocation_map, handles>>

single_next ==
  /\ pc = "allocate_single" /\ start <= range_end /\ allocation_map[start]
  /\ start' = start + 1
  /\ UNCHANGED <<bitmap, construction, pc, target, wanted, i, handles>>

single_return ==
  /\ pc = "allocate_single" /\ start <= range_end /\ ~allocation_map[start]
  /\ give(1)

single_fail ==
  /\ pc = "allocate_single" /\ start > range_end
  /\ end_call
  /\ UNCHANGED <<allocation_map, handles>>

-----------------------------------------------------------------------------
(* SmartFrameID                                                            *)

\* Deliberately wrong: id keeps its value.
free_kept(h) ==
  /\ pc = "ready" /\ id[h] # nullframe
  /\ allocation_map' = set_bits(id[h], frames[h], FALSE)
  /\ UNCHANGED <<range_end, construction, pc, call, handles>>

\* free, and the destructor
free(h) ==
  /\ pc = "ready" /\ id[h] # nullframe
  /\ allocation_map' = set_bits(id[h], frames[h], FALSE)
  /\ id' = [id EXCEPT ![h] = nullframe]
  /\ UNCHANGED <<range_end, construction, pc, call, frames>>

\* operator=(SmartFrameID&&): free(), then swap with the freed id
move_assign(h, o) ==
  /\ h # o /\ pc = "ready"
  /\ allocation_map' = IF id[h] = nullframe THEN allocation_map
                       ELSE set_bits(id[h], frames[h], FALSE)
  /\ id' = [id EXCEPT ![h] = id[o], ![o] = nullframe]
  /\ frames' = [frames EXCEPT ![h] = frames[o]]
  /\ UNCHANGED <<range_end, construction, pc, call>>

\* The steps of a call in progress, the constructor's included.
proceed ==
  \/ construct \/ set_range
  \/ allocate_next \/ allocate_return \/ allocate_fail
  \/ single_next \/ single_return \/ single_fail

Next ==
  \/ proceed
  \/ \E h \in Handles, n \in 0..MaxFrames : allocate(h, n)
  \/ \E h \in Handles : allocate_single(h)
  \/ \E h \in Handles : free(h)
  \/ \E h, o \in Handles : move_assign(h, o)

Spec == Init /\ [][Next]_vars

\* A thread inside a call is scheduled again and again.
FairSpec == Spec /\ WF_vars(proceed)

-----------------------------------------------------------------------------
(* Properties.                                                             *)

Owned(h) == IF id[h] = nullframe THEN {} ELSE id[h]..id[h] + frames[h] - 1

\* Frames of available descriptors.
Available ==
  UNION {memory_map[j].physical_start..End(memory_map[j]) - 1 :
           j \in {j \in DOMAIN memory_map : memory_map[j].available}}

\* Frames of no available descriptor, below the end of the last descriptor.
Reserved ==
  {f \in Frames : f \notin Available /\ \E j \in DOMAIN memory_map : f < End(memory_map[j])}

\* A free block of n frames starts at s.
Fits(s, n) == \A f \in s..s + n - 1 : f <= range_end /\ ~allocation_map[f]

\* Every variable keeps its type; no loop runs off the bitmap.
TypeOK ==
  /\ allocation_map \in [Frames -> BOOLEAN]
  /\ range_end \in 0..Limit
  /\ memory_map \in MemoryMaps
  /\ k \in Nat \ {0}
  /\ available_end \in Frames
  /\ pc \in {"construct", "ready", "allocate", "allocate_single"}
  /\ target \in Handles
  /\ wanted \in Nat /\ start \in 0..Limit + 1 /\ i \in 0..wanted
  /\ id \in [Handles -> Frames \cup {nullframe}]
  /\ frames \in [Handles -> Nat]

\* No frame belongs to two handles, whatever is allocated, moved and freed.
OwnersDisjoint ==
  \A h, o \in Handles : h # o => Owned(h) \cap Owned(o) = {}

\* A bit of the allocator's range is set exactly when the frame is reserved by
\* the memory map or belongs to a handle: nothing is leaked, and nothing in use
\* can be given out.
BitmapExact ==
  pc # "construct" =>
    \A f \in range_begin..range_end :
      allocation_map[f] <=> f \in Reserved \/ \E h \in Handles : f \in Owned(h)

\* Frames that are given out are available memory.  The one exception is the
\* frame just behind the last available descriptor: range_end is inclusive in
\* both loops, and nothing marks that frame when no descriptor follows.
OnlyAvailableGiven ==
  \A h \in Handles : Owned(h) \subseteq Available \cup {range_end}

\* Over every memory map and every history of allocating, moving and freeing,
\* no frame has two owners, the bitmap is exact and only available frames are
\* given out.
FramesAccounted == OwnersDisjoint /\ BitmapExact /\ OnlyAvailableGiven

\* A call gives out the lowest block that is large enough, and fails only when
\* there is none, though the search jumps over whole runs of frames.
LowestFit(s, n) == s >= range_begin /\ Fits(s, n) /\ \A r \in range_begin..s - 1 : ~Fits(r, n)
Returns(f) ==
  \/ f # nullframe /\ LowestFit(f, wanted)
  \/ f = nullframe /\ \A s \in range_begin..range_end : ~Fits(s, wanted)
FirstFit ==
  [][pc' = "ready" /\ pc \in {"allocate", "allocate_single"} => Returns(id'[target])]_vars
=============================================================================
