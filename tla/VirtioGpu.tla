------------------------------ MODULE VirtioGpu ------------------------------
(***************************************************************************)
(* The virtio GPU driver: its control queue (virtio/queue.hpp), the worker *)
(* coroutine that brings the device up and checks its answers, the kernel  *)
(* thread that reads the answers, and Framebuffer::swap, which the         *)
(* terminal calls (virtio/gpu.hpp).  A request takes two descriptors, one  *)
(* for the answer; the device works in order.  Indices in memory that is   *)
(* shared with the device have a width, the driver's own are wider.        *)
(***************************************************************************)
EXTENDS Naturals, Sequences, FiniteSets, FiniteSetsExt

CONSTANTS
  QueueSizes,   \* for every queue number of the device: the queue_size it reports
  Width,        \* the indices of the rings count modulo this (2^16), a multiple of Size
  MaxSwaps      \* bound: calls of swap

\* get_queue_number<2>: the first two queues that have a size, 0 for those there are not
get_queue_number ==
  LET present == {i \in DOMAIN QueueSizes : QueueSizes[i] # 0}
      control == IF present = {} THEN 0 ELSE Min(present)
      rest == present \ {control}
  IN  <<control, IF rest = {} THEN 0 ELSE Min(rest)>>

\* The size of the control queue, even and at least 8
Size == QueueSizes[get_queue_number[1]]
Places == 0..Size - 1

VARIABLES
  driver,                           \* how far initialize is, "up", or why it failed
  device_status, offers,            \* the status register; what the device has and accepts
  descriptors, free_head, added_descriptors,
  avail, avail_index, used, used_index, last_used,
  seen,                             \* the device: the requests it has taken
  message,                          \* a VirtIOGPUControl message is in the kernel's queue
  kernel, worker,                   \* the kernel thread; where the coroutine is suspended
  framebuffer, created,             \* the resources that have memory; the device file
  sync_done, swapping, swaps,       \* and the thread that swaps
  queued, answer, causes            \* history: requests not yet answered, the last answer

start == <<driver, device_status, offers>>
queue == <<descriptors, free_head, added_descriptors, avail, avail_index>>
answers == <<used, used_index, last_used>>
swapper == <<swapping, swaps>>
vars == <<start, queue, answers, seen, message, kernel, worker, framebuffer, created, sync_done,
          swapper, queued, answer, causes>>

ControlHeader(type, resource, fence) == [type |-> type, resource |-> resource, fence |-> fence]
Nothing == ControlHeader("none", 0, FALSE)
-----------------------------------------------------------------------------
(* The queue *)

\* Queue::Queue
EmptyQueue ==
  /\ descriptors = [i \in Places |-> [buffer |-> Nothing, flags |-> "none", next_index |-> (i + 1) % Size]]
  /\ free_head = 0 /\ added_descriptors = 0
  /\ avail = [i \in Places |-> 0] /\ avail_index = 0
  /\ used = [i \in Places |-> 0] /\ used_index = 0 /\ last_used = 0

\* Deliberately wrong: takes one descriptor, the one the last answer goes to
get_next_descriptor_buffer_dense(q, request) ==
  [q EXCEPT !.descriptors[q.free_head % Size].buffer = request, !.free_head = @ + 1, !.added = @ + 1]

\* get_next_descriptor_buffer; the caller fills the buffer.  Nobody asks whether the device
\* still uses the descriptor
get_next_descriptor_buffer(q, request) ==
  [q EXCEPT !.descriptors[q.free_head % Size].buffer = request, !.free_head = @ + 2, !.added = @ + 1]

\* notify_device makes the requests available, in order
notify_device(q) ==
  LET n == q.added
      first(i) == (q.free_head + 2 * Size - (n - i) * 2) % Size
      slots == {first(i) : i \in 0..n - 1}
  IN  [q EXCEPT
         !.added = 0,
         !.avail = [k \in Places |->
                      IF \E i \in 0..n - 1 : (q.avail_index + i) % Size = k
                      THEN first(CHOOSE i \in 0..n - 1 : (q.avail_index + i) % Size = k) ELSE @[k]],
         !.avail_index = (@ + n) % Width,
         !.descriptors = [d \in Places |->
                            IF d \in slots THEN [@[d] EXCEPT !.flags = "next", !.next_index = (d + 1) % Size]
                            ELSE IF (d + Size - 1) % Size \in slots THEN [@[d] EXCEPT !.flags = "write"]
                            ELSE @[d]]]

\* queue_data for request i, if there is one: never more than three are sent at once
Add(q, requests, i) == IF i <= Len(requests) THEN get_next_descriptor_buffer(q, requests[i]) ELSE q

\* queue_data for every request, and notify_device; left are the requests that were queued
Send(left, requests) ==
  LET now == [descriptors |-> descriptors, free_head |-> free_head, added |-> added_descriptors,
              avail |-> avail, avail_index |-> avail_index]
  IN  /\ \E q \in {notify_device(Add(Add(Add(now, requests, 1), requests, 2), requests, 3))} :
           /\ descriptors' = q.descriptors /\ free_head' = q.free_head % Size /\ added_descriptors' = q.added
           /\ avail' = q.avail /\ avail_index' = q.avail_index
      /\ queued' = left \o requests

\* The two buffers read_one_buffer finds for the next element of the used ring: the request,
\* and along the chain the first descriptor the device writes
request_at == descriptors[used[last_used % Size]].buffer
response_at ==
  LET id == used[last_used % Size]
      d == descriptors[id]
  IN  IF d.flags = "write" THEN d.buffer
      ELSE IF d.flags = "next" THEN descriptors[d.next_index].buffer ELSE Nothing
-----------------------------------------------------------------------------
(* Bringing the device up *)

Capabilities == {"Common", "Notify", "Device", "ISR"}

\* initialize, and the constructor of GPUDevice, which asks for the display
initialize ==
  /\ \/ /\ driver = "capabilities"
        /\ driver' = IF Capabilities \subseteq offers.capabilities THEN "features" ELSE "VirtIOLegacyDevice"
        /\ UNCHANGED <<device_status, queue, queued>>
     \/ /\ driver = "features"
        /\ IF ~offers.version1
           THEN driver' = "VirtIOLegacyDevice" /\ device_status' = {"acknowledge", "driver"}
           ELSE /\ driver' = "queues"
                /\ device_status' = {"acknowledge", "driver"} \cup (IF offers.accepts THEN {"features_ok"} ELSE {})
        /\ UNCHANGED <<queue, queued>>
     \/ /\ driver = "queues"
        /\ IF "features_ok" \notin device_status
           THEN driver' = "VirtIODeviceNotReady" /\ UNCHANGED <<device_status, queue, queued>>
           ELSE /\ driver' = "up" /\ device_status' = device_status \cup {"driver_ok"}
                /\ Send(<<>>, <<ControlHeader("GetDisplayInfo", 0, FALSE)>>)
  /\ UNCHANGED <<offers, answers, seen, message, kernel, worker, framebuffer, created, sync_done,
                 swapper, answer, causes>>

\* The device: takes the next request, answers it, also with an error, and interrupts
Device ==
  /\ driver = "up" /\ seen # avail_index
  /\ LET id == avail[seen % Size]
         request == descriptors[id].buffer
     IN  \E ok \in BOOLEAN :
           /\ ok \/ causes = {}
           /\ causes' = IF ok THEN causes ELSE {"refused"}
           /\ descriptors' = [descriptors EXCEPT ![descriptors[id].next_index].buffer =
                                ControlHeader(IF ok THEN "Ok" ELSE "Err", 0, request.fence)]
           /\ used' = [used EXCEPT ![used_index % Size] = id]
  /\ used_index' = (used_index + 1) % Width
  /\ seen' = (seen + 1) % Width
  /\ message' = TRUE
  /\ UNCHANGED <<start, free_head, added_descriptors, avail, avail_index, last_used, kernel, worker, framebuffer,
                 created, sync_done, swapper, queued, answer>>
-----------------------------------------------------------------------------
(* The answers *)

\* What a resumption of the worker does: where it suspends, the requests it sends, the
\* resources it allocates, and whether it posts VirtIOGPUNewDevice
Resumed(to, requests, resources, post) == [to |-> to, send |-> requests, memory |-> resources, post |-> post]

\* Deliberately wrong: always the first framebuffer
Backing_first(request) == {1}

\* The framebuffer that gets memory is that of the resource the answer is about
Backing(request) == {request.resource}

\* worker_main from one co_yield to the next; on a wrong type or an error it returns
worker_main(request, response) ==
  LET end == Resumed("done", <<>>, {}, FALSE)
      ok == response.type = "Ok"
      attach == <<ControlHeader("ResourceAttachBacking", request.resource, FALSE)>>
  IN  CASE worker = "info" /\ request.type = "GetDisplayInfo" /\ ok ->
             Resumed("create 1", <<ControlHeader("ResourceCreate2D", 1, FALSE),
                                   ControlHeader("ResourceCreate2D", 2, FALSE)>>, {}, FALSE)
        [] worker = "create 1" /\ request.type = "ResourceCreate2D" /\ ok ->
             Resumed("create 2", attach, Backing(request), FALSE)
        [] worker = "create 2" /\ request.type = "ResourceCreate2D" /\ ok ->
             Resumed("attach 1", attach, Backing(request), FALSE)
        [] worker = "attach 1" /\ request.type = "ResourceAttachBacking" /\ ok ->
             Resumed("attach 2", <<>>, {}, FALSE)
        [] worker = "attach 2" /\ request.type = "ResourceAttachBacking" /\ ok ->
             Resumed("loop", <<>>, {}, TRUE)
        [] worker = "loop" /\ request.type \in {"SetScanout", "TransferToHost2D", "ResourceFlush"} /\ ok ->
             Resumed("loop", <<>>, {}, FALSE)
        [] OTHER -> end

\* The kernel thread takes the VirtIOGPUControl message
TakeMessage ==
  /\ kernel = "idle" /\ message
  /\ message' = FALSE /\ kernel' = "reading"
  /\ UNCHANGED <<start, queue, answers, seen, worker, framebuffer, created, sync_done, swapper, queued, answer, causes>>

\* One round of process_control_queue: read_one_buffer, the worker, and the fence.  A worker
\* that has returned is resumed all the same: the kernel jumps to nowhere
process_control_queue ==
  /\ kernel = "reading" /\ last_used < 2 * Width
  /\ IF last_used = used_index
     THEN /\ kernel' = "idle"
          /\ UNCHANGED <<queue, last_used, worker, framebuffer, created, sync_done, queued, answer>>
     ELSE \E w \in {worker_main(request_at, response_at)} :
              /\ last_used' = last_used + 1
              /\ answer' = [read |-> request_at, sent |-> IF queued = <<>> THEN Nothing ELSE Head(queued)]
              /\ worker' = w.to
              /\ framebuffer' = framebuffer \cup w.memory
              /\ created' = IF w.post THEN "posted" ELSE created
              /\ kernel' = IF worker = "done" THEN "lost" ELSE IF w.to = "done" THEN "idle" ELSE "reading"
              /\ sync_done' = IF w.to # "done" /\ response_at.fence THEN 1 ELSE sync_done
              /\ Send(IF queued = <<>> THEN <<>> ELSE Tail(queued), w.send)
  /\ UNCHANGED <<start, used, used_index, seen, message, swapper, causes>>

\* The kernel thread handles VirtIOGPUNewDevice: the framebuffer and its device file
create_devfs_framebuffer ==
  /\ kernel = "idle" /\ created = "posted"
  /\ created' = "file"
  /\ UNCHANGED <<start, queue, answers, seen, message, kernel, worker, framebuffer, sync_done, swapper, queued,
                 answer, causes>>

\* Framebuffer::swap up to notify_device; it returns at once if the last swap is under way.
\* The two buffers take turns
swap ==
  /\ created = "file" /\ ~swapping /\ swaps < MaxSwaps
  /\ sync_done # 0
  /\ swaps' = swaps + 1 /\ swapping' = TRUE
  /\ LET resource == IF swaps % 2 = 0 THEN 1 ELSE 2
     IN  Send(queued, <<ControlHeader("TransferToHost2D", resource, FALSE),
                        ControlHeader("ResourceFlush", resource, FALSE),
                        ControlHeader("SetScanout", resource, TRUE)>>)
  /\ UNCHANGED <<start, answers, seen, message, kernel, worker, framebuffer, created, sync_done, answer, causes>>

\* The rest of swap: *sync_done = 0, also when the answer has come in between
swap_end ==
  /\ swapping /\ swapping' = FALSE
  /\ sync_done' = 0
  /\ causes' = IF \E i \in DOMAIN queued : queued[i].fence THEN causes ELSE causes \cup {"overtaken"}
  /\ UNCHANGED <<start, queue, answers, seen, message, kernel, worker, framebuffer, created, swaps, queued, answer>>

Init ==
  /\ driver = "capabilities" /\ device_status = {}
  /\ offers \in {[capabilities |-> c, version1 |-> v, accepts |-> a]
                 : c \in {Capabilities, Capabilities \ {"ISR"}}, v \in BOOLEAN, a \in BOOLEAN}
  /\ EmptyQueue
  /\ seen = 0 /\ message = FALSE /\ kernel = "idle" /\ worker = "info"
  /\ framebuffer = {} /\ created = "no" /\ sync_done = 1 /\ swapping = FALSE /\ swaps = 0
  /\ queued = <<>> /\ answer = [read |-> Nothing, sent |-> Nothing] /\ causes = {}

kernel_thread == TakeMessage \/ process_control_queue \/ create_devfs_framebuffer

Next == initialize \/ Device \/ kernel_thread \/ swap \/ swap_end

\* The device works, and the kernel thread and the one that swaps run again and again
Fairness == WF_vars(initialize) /\ WF_vars(Device) /\ WF_vars(kernel_thread) /\ WF_vars(swap_end)

Spec == Init /\ [][Next]_vars /\ Fairness
-----------------------------------------------------------------------------
(* Properties *)

\* The answers are read once each and in order, every one with the request it answers: no
\* descriptor is used again while the device has it, although get_next_descriptor_buffer
\* does not look.  (last_used has 32 bits and used.index 16: once Width answers have been
\* read the two are never equal again, and old answers are read for ever.)
AnswersMatched == last_used > Width \/ answer.read = answer.sent

\* The device file exists, and both its buffers do, if the driver could start
Appeared ==
  \/ created = "file" /\ framebuffer = {1, 2}
  \/ causes # {} \/ driver \in {"VirtIOLegacyDevice", "VirtIODeviceNotReady"}

\* A device that has what initialize asks for gets its device file, after both resources
\* have their memory.  (Not if it answers with an error.)
FramebufferAppears == []<>Appeared
=============================================================================
