------------------------------ MODULE Program ------------------------------
(***************************************************************************)
(* Running a program: the shell's `run` (terminal.hpp), elf_startup and    *)
(* elf_prepare (process/elf-startup.hpp), load_elf (elf.hpp), and the page *)
(* tables they fill (paging.hpp, process/process-detail.hpp).              *)
(*                                                                         *)
(* The new process runs in a thread of its own, which the timer may move   *)
(* to another processor between any two steps; other kernel threads take   *)
(* and give back frames meanwhile.  A page has PageBytes bytes and there   *)
(* are Pages pages, so addresses wrap at Pages * PageBytes.  A byte is its *)
(* position in the file plus one, 0 for zero, or stale for whatever the    *)
(* last owner of the frame left.                                           *)
(*                                                                         *)
(* The tables below a process's PML4 are created empty and on demand, and  *)
(* never removed before the process: together they are one function from   *)
(* pages to entries.  Images are linked into the application half (the     *)
(* applications' --image-base), whose PML4 entries are not shared.         *)
(***************************************************************************)
EXTENDS Integers, Sequences, FiniteSets, Functions

CONSTANTS
  Frames,       \* the frames of the allocator, 1..n
  PageBytes, Pages,
  Images,       \* the files `run` is given
  Processors,
  KernelFrames  \* bound: frames other threads hold at once

stale == -1
absent == [frame |-> 0, user |-> FALSE, write |-> FALSE]
stack_page == Pages - 1            \* of stack_frame_addr
AddressLimit == Pages * PageBytes
Offsets == 0..PageBytes - 1
Empty == [magic |-> FALSE, table_fits |-> FALSE, size |-> 0, headers |-> << >>]

VARIABLES
  memory,       \* what every frame holds
  image, code,  \* the file being run, and its frames in order (SmartFrameID)
  tables,       \* the page tables of the process
  frames,       \* allocated_frames: of load_elf, then of the process
  shell,        \* "ready", or "wait": in wait_thread and wait_process
  pc, i, first, \* the thread: where it is, its loop variable, segment_first
  processor,    \* the processor it runs on
  protected,    \* CR0.WP of every processor
  kernel,       \* frames other kernel threads own
  moved,        \* history: the thread moved while its write protection was off
  rejected      \* history: a segment was refused after it was turned off

file == <<image, code>>
process == <<tables, frames>>
thread == <<pc, i, first>>
history == <<moved, rejected>>
vars == <<memory, file, process, shell, thread, processor, protected, kernel, history>>

Free == Frames \ (kernel \cup Range(code) \cup Range(frames))

\* What the owner of a frame wrote is stale once the frame is given back.
given_back(S) ==
  memory' = [f \in Frames |-> IF f \in S THEN [o \in Offsets |-> stale] ELSE memory[f]]

\* allocate_single: the lowest free frame
allocate_single == CHOOSE f \in Free : \A g \in Free : f <= g

\* allocate(n): the first run of n free frames, empty when there is none
allocate(n) ==
  LET runs == {f \in Free : f..f + n - 1 \subseteq Free} IN
  IF runs = {} THEN << >>
  ELSE LET f == CHOOSE f \in runs : \A g \in runs : f <= g IN [k \in 1..n |-> f + k - 1]

\* The tables of a new process, as far as the application half goes
NewTables == [p \in 0..Pages - 1 |-> absent]

FramesFor(bytes) == (bytes + PageBytes - 1) \div PageBytes

Init ==
  /\ memory = [f \in Frames |-> [o \in Offsets |-> stale]]
  /\ image = Empty /\ code = << >>
  /\ tables = NewTables /\ frames = << >>
  /\ shell = "ready" /\ pc = "none" /\ i = 0 /\ first = 0
  /\ processor \in Processors
  /\ protected = [p \in Processors |-> TRUE]
  /\ kernel = {}
  /\ moved = FALSE /\ rejected = FALSE

-----------------------------------------------------------------------------
(* The shell.                                                              *)

\* The file at position n of the image
Loaded(img, f, o) ==
  LET n == (f - 1) * PageBytes + o IN IF n < img.size THEN n + 1 ELSE stale

\* `run`: memory for the file, the file's bytes, a process and its thread.
\* Without memory, and when the read fails, the handles give back what they own.
run(img) ==
  /\ shell = "ready"
  /\ LET got == allocate(FramesFor(img.size)) IN
       /\ got # << >>
       /\ code' = got
       /\ memory' = [f \in Frames |-> IF f \in Range(got)
            THEN [o \in Offsets |-> Loaded(img, f - got[1] + 1, o)] ELSE memory[f]]
  /\ image' = img
  /\ tables' = NewTables
  /\ shell' = "wait" /\ pc' = "check"
  /\ UNCHANGED <<frames, i, first, processor, protected, kernel, history>>

\* Deliberately wrong: the frames of the process are not given back.
wait_process_keep ==
  /\ shell = "wait" /\ pc = "exited"
  /\ shell' = "ready" /\ pc' = "none"
  /\ image' = Empty /\ tables' = NewTables
  /\ UNCHANGED <<memory, code, frames, i, first, processor, protected, kernel, history>>

\* wait_thread and wait_process return: the process and what it owns are gone
wait_process ==
  /\ shell = "wait" /\ pc = "exited"
  /\ shell' = "ready" /\ pc' = "none"
  /\ image' = Empty /\ frames' = << >> /\ given_back(Range(frames))
  /\ tables' = NewTables
  /\ i' = 0 /\ first' = 0
  /\ UNCHANGED <<code, processor, protected, kernel, history>>

-----------------------------------------------------------------------------
(* load_elf.                                                               *)

Loadable(h) == h.type = 1
Segments == {k \in DOMAIN image.headers : Loadable(image.headers[k])}
SegmentFirst ==
  LET starts == {image.headers[k].address : k \in Segments} \cup {AddressLimit - 1}
      low == CHOOSE a \in starts : \A b \in starts : a <= b
  IN  (low \div PageBytes) * PageBytes
SegmentLast ==
  LET ends == {image.headers[k].address + image.headers[k].memsize : k \in Segments} \cup {0}
  IN  CHOOSE a \in ends : \A b \in ends : a >= b

\* The subtraction wraps when no segment is loadable.
NumFrames == ((SegmentLast - first + PageBytes - 1) % AddressLimit) \div PageBytes

\* A failed load: the vector of frames goes with it, the mappings stay
load_failed ==
  /\ pc' = "failed" /\ frames' = << >> /\ given_back(Range(frames))
  /\ UNCHANGED tables

load_elf_check ==
  /\ pc = "check"
  /\ IF image.magic /\ image.table_fits
     THEN pc' = "map" /\ i' = 0 /\ first' = SegmentFirst
     ELSE pc' = "failed" /\ UNCHANGED <<i, first>>
  /\ UNCHANGED <<memory, file, process, shell, processor, protected, kernel, history>>

map_virtual_to_physical(page, frame, write) ==
  tables' = [tables EXCEPT ![page] = [frame |-> frame, user |-> TRUE, write |-> write]]

\* A turn of the loop that allocates and maps: UserExecute, not writable
load_elf_map ==
  /\ pc = "map"
  /\ IF i = NumFrames THEN pc' = "unprotect" /\ UNCHANGED <<i, memory, process>>
     ELSE IF Free = {} THEN load_failed /\ UNCHANGED i
     ELSE /\ frames' = Append(frames, allocate_single)
          /\ map_virtual_to_physical(first \div PageBytes + i, allocate_single, FALSE)
          /\ i' = i + 1 /\ UNCHANGED <<memory, pc>>
  /\ UNCHANGED <<file, first, shell, processor, protected, kernel, history>>

\* cr0.bits.write_protect = 0, on the processor that happens to run this
load_elf_unprotect ==
  /\ pc = "unprotect"
  /\ protected' = [protected EXCEPT ![processor] = FALSE]
  /\ pc' = "copy" /\ i' = 1
  /\ UNCHANGED <<memory, file, process, first, shell, processor, kernel, history>>

\* The byte of the image's frames at a position
ImageByte(n) == memory[code[n \div PageBytes + 1]][n % PageBytes]

\* Memory after the first n bytes of a segment were stored through the page
\* tables, those of the file first and zeros behind them
Stored(h, n) ==
  LET at(f, o) == {a \in h.address..h.address + n - 1 :
                     tables[a \div PageBytes].frame = f /\ a % PageBytes = o}
      value(a) == IF a < h.address + h.filesize THEN ImageByte(h.offset + a - h.address) ELSE 0
  IN  [f \in Frames |-> [o \in Offsets |->
         IF at(f, o) = {} THEN memory[f][o] ELSE value(CHOOSE a \in at(f, o) : TRUE)]]

\* Deliberately wrong: memcpy without memset.
Copied_file(h) == Stored(h, h.filesize)

Copied(h) == Stored(h, h.memsize)

\* A turn of the loop that copies.  A store to a page that is not writable
\* faults where the processor has WP set: the fault handler stops the kernel.
\* A segment refused here leaves WP as it is.
load_elf_copy ==
  /\ pc = "copy"
  /\ IF i > Len(image.headers)
     THEN pc' = "protect" /\ UNCHANGED <<i, memory, process, rejected>>
     ELSE LET h == image.headers[i] IN
          IF ~Loadable(h) THEN i' = i + 1 /\ UNCHANGED <<pc, memory, process, rejected>>
          ELSE IF h.offset + h.memsize > Len(code) * PageBytes
          THEN load_failed /\ rejected' = TRUE /\ UNCHANGED i
          ELSE IF protected[processor] /\ h.memsize > 0
          THEN pc' = "fault" /\ UNCHANGED <<i, memory, process, rejected>>
          ELSE /\ memory' = Copied(h) /\ i' = i + 1
               /\ UNCHANGED <<pc, process, rejected>>
  /\ UNCHANGED <<file, first, shell, processor, protected, kernel, moved>>

\* Deliberately wrong: write protection stays off.
load_elf_protect_off ==
  /\ pc = "protect"
  /\ pc' = "loaded"
  /\ UNCHANGED <<memory, file, process, i, first, shell, processor, protected, kernel, history>>

load_elf_protect ==
  /\ pc = "protect"
  /\ protected' = [protected EXCEPT ![processor] = TRUE]
  /\ pc' = "loaded"
  /\ UNCHANGED <<memory, file, process, i, first, shell, processor, kernel, history>>

-----------------------------------------------------------------------------
(* elf_prepare and elf_startup.                                            *)

\* elf_prepare returns nullopt: the image goes with it
elf_prepare_failed ==
  /\ pc = "failed"
  /\ code' = << >> /\ pc' = "exit" /\ given_back(Range(code))
  /\ UNCHANGED <<image, process, i, first, shell, processor, protected, kernel, history>>

\* image.reset(); the frames are the process's from here on
elf_prepare ==
  /\ pc = "loaded"
  /\ code' = << >> /\ pc' = "stack" /\ given_back(Range(code))
  /\ UNCHANGED <<image, process, i, first, shell, processor, protected, kernel, history>>

elf_prepare_stack ==
  /\ pc = "stack"
  /\ IF Free = {} THEN pc' = "exit" /\ UNCHANGED process
     ELSE /\ frames' = Append(frames, allocate_single)
          /\ map_virtual_to_physical(stack_page, allocate_single, TRUE)
          /\ pc' = "user"
  /\ UNCHANGED <<memory, file, i, first, shell, processor, protected, kernel, history>>

\* The program runs until it calls syscall_exit, and writes where it may
syscall_exit ==
  /\ pc = "user"
  /\ memory' = [f \in Frames |->
       IF \E p \in DOMAIN tables : tables[p].frame = f /\ tables[p].write
       THEN [o \in Offsets |-> stale] ELSE memory[f]]
  /\ pc' = "exit"
  /\ UNCHANGED <<file, process, i, first, shell, processor, protected, kernel, history>>

exit_this_thread ==
  /\ pc = "exit"
  /\ pc' = "exited"
  /\ UNCHANGED <<memory, file, process, i, first, shell, processor, protected, kernel, history>>

-----------------------------------------------------------------------------
(* The rest of the kernel.                                                 *)

\* migrate_threads (the timer): the thread continues on another processor
migrate(p) ==
  /\ pc \notin {"none", "exited", "fault"} /\ p # processor
  /\ processor' = p
  /\ moved' = (moved \/ pc \in {"copy", "protect"})
  /\ UNCHANGED <<memory, file, process, shell, thread, protected, kernel, rejected>>

\* Another thread allocates a frame and writes to it
kernel_allocate ==
  /\ pc # "fault" /\ Cardinality(kernel) < KernelFrames /\ Free # {}
  /\ kernel' = kernel \cup {allocate_single}
  /\ memory' = [memory EXCEPT ![allocate_single] = [o \in Offsets |-> stale]]
  /\ UNCHANGED <<file, process, shell, thread, processor, protected, history>>

kernel_free(f) ==
  /\ pc # "fault" /\ f \in kernel
  /\ kernel' = kernel \ {f}
  /\ UNCHANGED <<memory, file, process, shell, thread, processor, protected, history>>

Step ==
  \/ load_elf_check \/ load_elf_map \/ load_elf_unprotect \/ load_elf_copy \/ load_elf_protect
  \/ elf_prepare_failed \/ elf_prepare \/ elf_prepare_stack
  \/ syscall_exit \/ exit_this_thread \/ wait_process

Next ==
  \/ \E img \in Images : run(img)
  \/ Step
  \/ \E p \in Processors : migrate(p)
  \/ kernel_allocate
  \/ \E f \in Frames : kernel_free(f)

Spec == Init /\ [][Next]_vars

\* The scheduler runs every ready thread again, and programs end.
FairSpec == Spec /\ WF_vars(Step)

-----------------------------------------------------------------------------
(* Properties.                                                             *)

\* The byte the file asks for at an address: of the last segment there
Wanted(a) ==
  LET at == {k \in Segments : a \in image.headers[k].address
                                   ..image.headers[k].address + image.headers[k].memsize - 1}
      h == image.headers[CHOOSE k \in at : \A n \in at : n <= k]
  IN  IF at = {} THEN {}
      ELSE IF a < h.address + h.filesize THEN {h.offset + a - h.address + 1} ELSE {0}

\* A program that is given control sees its segments, the part that is not in
\* the file as zeros, whatever its frames held before; it has a stack it may
\* write to; and every page it sees is in a frame of its own.
ProgramAsLinked ==
  pc = "user" =>
    /\ \A a \in 0..AddressLimit - 1 : a \div PageBytes # stack_page =>
         Wanted(a) \subseteq {memory[f][a % PageBytes] : f \in {tables[a \div PageBytes].frame} \cap Frames}
    /\ tables[stack_page].write
    /\ \A p, q \in 0..Pages - 1 : tables[p] # absent =>
         /\ tables[p].frame \in Range(frames)
         /\ tables[q].frame = tables[p].frame => q = p

\* A copy only faults, and a processor is only left without write protection,
\* when the thread moved to another processor in between or when a segment was
\* refused after the protection was turned off.
WriteProtectionRestored ==
  moved \/ /\ pc # "fault"
           /\ rejected \/ \A p \in Processors :
                ~protected[p] => p = processor /\ pc \in {"copy", "protect"}

\* However `run` ends, the shell comes back with every frame it, the loader
\* and the process took returned; only a fault keeps it away.
RunGivesBack == []<>(pc = "fault" \/ (shell = "ready" /\ Free = Frames \ kernel))
=============================================================================
