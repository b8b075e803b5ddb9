------------------------------ MODULE MCMachine ------------------------------
(***************************************************************************)
(* Memory, programs and processors for TLC: the frame allocator, the       *)
(* loading of programs, the start of the processors with their ticks,      *)
(* their run queues, and the wait for the power management timer.  A       *)
(* behaviour is one of either.                                             *)
(***************************************************************************)
EXTENDS FrameAllocator

CONSTANTS a, b, c

D(s, n, available) ==
  [physical_start |-> s, number_of_pages |-> n, available |-> available]

\* All memory available; a reserved descriptor, a hole, and both; reserved
\* memory or a hole at the end; an empty descriptor; an empty map.
SomeMaps ==
  { <<D(0, 5, TRUE)>>,
    <<D(0, 2, TRUE), D(2, 1, FALSE), D(3, 2, TRUE)>>,
    <<D(0, 2, TRUE), D(3, 2, TRUE)>>,
    <<D(1, 1, TRUE), D(2, 1, FALSE), D(4, 1, TRUE)>>,
    <<D(0, 3, TRUE), D(3, 2, FALSE)>>,
    <<D(0, 2, TRUE), D(3, 2, FALSE)>>,
    <<D(0, 0, TRUE), D(0, 4, TRUE), D(4, 0, FALSE)>>,
    <<>> }

H(type, offset, address, filesize, memsize) ==
  [type |-> type, offset |-> offset, address |-> address,
   filesize |-> filesize, memsize |-> memsize]
File(size, headers) ==
  [magic |-> TRUE, table_fits |-> TRUE, size |-> size, headers |-> headers]

\* A segment across pages; two with one that is not loadable between them, and
\* zeros behind the file; two that overlap; more zeros than the file has room
\* for; nothing to load; not a program; a program header table out of bounds.
SomeFiles ==
  { File(3, <<H(1, 0, 9, 3, 3)>>),
    File(3, <<H(1, 0, 8, 2, 2), H(0, 0, 0, 1, 1), H(1, 2, 10, 1, 2)>>),
    File(4, <<H(1, 0, 9, 2, 2), H(1, 1, 10, 2, 3)>>),
    File(3, <<H(1, 0, 8, 1, 1), H(1, 1, 9, 1, 4)>>),
    File(1, <<H(0, 0, 0, 0, 0)>>),
    [File(2, << >>) EXCEPT !.magic = FALSE],
    [File(2, << >>) EXCEPT !.table_fits = FALSE] }

\* The boot processor first, as the firmware should list it, and elsewhere
SomeOrders == {<<0, 1, 2>>, <<1, 0, 2>>, <<1, 2, 0>>}

VARIABLES
  part,
  memory, image, code, tables, p_frames, shell, p_pc, p_i, first, processor,
  protected, kernel, moved, rejected,
  ids, boot, s_k, page, parameter, notify, ap, entry, lapic_id, flag, pending,
  handler, failed, kept, captured,
  wide, wait, t_start, end, timer, t_pc, elapsed,
  run_queue, this_thread, running_on, q_pc, q_i, thread, exit, num

R == INSTANCE Program WITH
  Frames <- 1..5, PageBytes <- 2, Pages <- 8, Images <- SomeFiles,
  Processors <- {0, 1}, KernelFrames <- 2,
  frames <- p_frames, pc <- p_pc, i <- p_i
S == INSTANCE Smp WITH
  Ids <- 0..2, bsp <- 0, IdOrders <- SomeOrders,
  Faults <- {"memory", "trampoline", "lost"}, k <- s_k
T == INSTANCE PmTimer WITH
  Low <- 4, High <- 5, Gap <- 3, Waits <- {1, 5, 9},
  start <- t_start, pc <- t_pc
Q == INSTANCE RunQueues WITH Count <- 3, Workers <- 3..5, pc <- q_pc, i <- q_i

program == <<memory, image, code, tables, p_frames, shell, p_pc, p_i, first,
             processor, protected, kernel, moved, rejected>>
smp == <<ids, boot, s_k, page, parameter, notify, ap, entry, lapic_id, flag,
         pending, handler, failed, kept, captured>>
pm_timer == <<wide, wait, t_start, end, timer, t_pc, elapsed>>
run_queues == <<run_queue, this_thread, running_on, q_pc, q_i, thread, exit, num>>
all == <<part, vars, program, smp, pm_timer, run_queues>>

OnlyFrames == part = "frames" /\ UNCHANGED <<part, program, smp, pm_timer, run_queues>>
OnlyProgram == part = "program" /\ UNCHANGED <<part, vars, smp, pm_timer, run_queues>>
OnlySmp == part = "smp" /\ UNCHANGED <<part, vars, program, pm_timer, run_queues>>
OnlyTimer == part = "timer" /\ UNCHANGED <<part, vars, program, smp, run_queues>>
OnlyQueues == part = "queues" /\ UNCHANGED <<part, vars, program, smp, pm_timer>>

\* Components that stand still start in one of their initial states.
MachineInit ==
  /\ part \in {"frames", "program", "smp", "timer", "queues"}
  /\ Init /\ (part # "frames" => memory_map = <<D(0, 5, TRUE)>> /\ target = a)
  /\ R!Init /\ (part # "program" => processor = 0)
  /\ S!Init /\ (part # "smp" => ids = <<0, 1, 2>>)
  /\ T!Init /\ (part # "timer" => ~wide /\ wait = 1 /\ timer = 0)
  /\ Q!Init

MachineNext ==
  \/ OnlyFrames /\ Next
  \/ OnlyProgram /\ R!Next
  \/ OnlySmp /\ S!Next
  \/ OnlyTimer /\ T!Next
  \/ OnlyQueues /\ Q!Next

\* The fairness of the components; as part never changes, what is weakly fair
\* in one of them can be put together with that of the others.
MachineSpec ==
  /\ MachineInit /\ [][MachineNext]_all
  /\ WF_all(\/ OnlyFrames /\ proceed
            \/ OnlyProgram /\ R!Step
            \/ OnlySmp /\ S!Boot
            \/ OnlyTimer /\ T!Next
            \/ OnlyQueues /\ Q!Migrate)
  /\ SF_all(OnlySmp /\ S!Tick)
  /\ \A id2 \in 0..2 : WF_all(OnlySmp /\ S!Local(id2))

-----------------------------------------------------------------------------
\* A program that is given control sees its segments as they were linked, and
\* only frames of its own.
ProgramAsLinked == R!ProgramAsLinked

\* load_elf leaves no processor without write protection, and its copy does not
\* fault, except where the thread moved or a segment was refused half way.
WriteProtectionRestored == R!WriteProtectionRestored

\* `run` gives every frame back, however it ends.
RunGivesBack == R!RunGivesBack

\* Trampoline page and boot parameter belong to one starting processor.
OwnTrampoline == S!OwnTrampoline

\* The ticks of two processors overlap only through the named early releases.
TickExclusive == S!TickExclusive

\* Every processor is ticked again and again, where all were started.
AllTicked == \A id2 \in 0..2 : []<>(part = "smp" => S!Ticked(id2))

\* wait_microseconds returns, and never early.
WaitElapses == []<>(part = "timer" => T!Waited)

\* Each runnable thread is queued once, where it is said to run, also when
\* migrate_threads has moved threads.
QueuesInOrder == Q!QueuesInOrder

\* Loops that go on from where they found an obstacle end: the searches of the
\* frame allocator, and migrate_threads, whatever it has to move and cannot.
LoopsEnd == []<>(part = "frames" => pc = "ready") /\ Q!MigrationEnds
=============================================================================
