--------------------------- MODULE TerminalRefresh ---------------------------
(***************************************************************************)
(* How drawn text reaches the screen: the loop of terminal_main with its   *)
(* EventsWaiter (terminal.hpp), the shell thread that draws and notifies,  *)
(* and the two framebuffers: GOPFrameBuffer (devfs/framebuffer.hpp), whose *)
(* swap is synchronous, and the virtio Framebuffer (virtio/gpu.hpp), whose *)
(* swap is completed by the kernel thread in process_control_queue.        *)
(*                                                                         *)
(* What was drawn is a count of puts.  wait_events and notify_event of the *)
(* process manager are one step each.                                      *)
(***************************************************************************)
EXTENDS Naturals

CONSTANTS MaxPuts, MaxSessions   \* bounds: puts in all, calls of terminal_main

VARIABLES
  double_buffered,         \* the framebuffer is the virtio one
  drawn, copied, shown,    \* puts drawn, in the framebuffer, given to the device
  flag, registered,        \* Event::flag; the events whose list the terminal is on
  term,                    \* the terminal thread
  swap_done, swap_pending, \* its locals
  shell, shell_event,      \* the shell thread, and the event it notifies
  kernel,                  \* the kernel thread in process_control_queue
  sync_done, device,       \* GPUDevice::sync_done, the commands of the last swap
  session,
  missed, overrun, dropped \* history, see DrawnIsShown

drawing == <<drawn, copied, shown>>
events == <<flag, registered, missed>>
terminal == <<term, swap_done, swap_pending>>
shells == <<shell, shell_event>>
gpu == <<kernel, sync_done, device, overrun, dropped>>
vars == <<double_buffered, drawing, events, terminal, shells, gpu, session>>

Events == {"refresh", "fb", "exit"}

\* Shell's constructor has put the prompt before the loop starts.
Init ==
  /\ double_buffered \in BOOLEAN
  /\ drawn = 1 /\ copied = 0 /\ shown = 0
  /\ flag = [e \in Events |-> e = "refresh"] /\ registered = {} /\ missed = {}
  /\ term = "test refresh" /\ swap_done = TRUE /\ swap_pending = FALSE
  /\ shell = "idle" /\ shell_event = "refresh"
  /\ kernel = "idle" /\ sync_done = 1 /\ device = "idle" /\ overrun = FALSE
  /\ dropped = FALSE
  /\ session = 1

-----------------------------------------------------------------------------
(* Event::notify and the process manager's notify_event.                   *)

\* Positions at which the terminal has tested e and not yet waited for it.
Between(e) ==
  CASE e = "refresh" -> {"test fb", "test exit", "wait"}
    [] e = "fb" -> {"test exit", "wait"}
    [] e = "exit" -> {"wait"}

notify_event(e) ==
  /\ term' = IF term = "asleep" /\ e \in registered THEN "test refresh" ELSE term
  /\ registered' = registered \ {e}
  /\ missed' = IF term \in Between(e) THEN missed \cup {e}
               ELSE IF term' = "test refresh" THEN {} ELSE missed

-----------------------------------------------------------------------------
(* The shell thread.                                                       *)

puts ==
  /\ shell = "idle" /\ drawn < MaxPuts
  /\ drawn' = drawn + 1
  /\ shell' = "notify" /\ shell_event' = "refresh"
  /\ UNCHANGED <<double_buffered, copied, shown, events, terminal, gpu, session>>

exit ==
  /\ shell = "idle" /\ session < MaxSessions
  /\ shell' = "notify" /\ shell_event' = "exit"
  /\ UNCHANGED <<double_buffered, drawing, events, terminal, gpu, session>>

AfterNotify == IF shell_event = "exit" THEN "gone" ELSE "idle"

shell_notify ==
  /\ shell = "notify"
  /\ flag' = [flag EXCEPT ![shell_event] = TRUE]
  /\ shell' = IF flag[shell_event] THEN AfterNotify ELSE "notify_event"
  /\ UNCHANGED <<double_buffered, drawing, registered, missed, terminal, shell_event, gpu, session>>

shell_notify_event ==
  /\ shell = "notify_event"
  /\ notify_event(shell_event)
  /\ shell' = AfterNotify
  /\ UNCHANGED <<double_buffered, drawing, flag, swap_done, swap_pending, shell_event, gpu, session>>

-----------------------------------------------------------------------------
(* The terminal thread.                                                    *)

\* EventsWaiter::wait, one event
test(e, at, next) ==
  /\ term = at
  /\ term' = IF flag[e] THEN e ELSE next
  /\ UNCHANGED <<double_buffered, drawing, events, swap_done, swap_pending, shells, gpu, session>>

wait_events ==
  /\ term = "wait"
  /\ registered' = Events
  /\ term' = "asleep"
  /\ UNCHANGED <<double_buffered, drawing, flag, missed, swap_done, swap_pending, shells, gpu, session>>

reset(e) ==
  /\ flag' = [flag EXCEPT ![e] = FALSE]
  /\ missed' = {}
  /\ UNCHANGED <<double_buffered, drawing, registered, shells, gpu, session>>

\* case 0
on_refresh ==
  /\ term = "refresh" /\ reset("refresh")
  /\ \/ swap_done /\ swap_done' = FALSE /\ term' = "copy" /\ UNCHANGED swap_pending
     \/ ~swap_done /\ swap_pending' = TRUE /\ term' = "test refresh" /\ UNCHANGED swap_done

\* Deliberately wrong: a pending refresh is forgotten.
on_fb_event_forgetful ==
  /\ term = "fb" /\ reset("fb")
  /\ swap_done' = TRUE /\ swap_pending' = FALSE /\ term' = "test refresh"

\* case 1
on_fb_event ==
  /\ term = "fb" /\ reset("fb")
  /\ \/ swap_pending /\ swap_pending' = FALSE /\ term' = "copy" /\ UNCHANGED swap_done
     \/ ~swap_pending /\ swap_done' = TRUE /\ term' = "test refresh" /\ UNCHANGED swap_pending

\* memcpy to the virtio framebuffer; on GOP the shell draws into the back buffer
copy ==
  /\ term = "copy"
  /\ copied' = IF double_buffered THEN drawn ELSE copied
  /\ term' = "swap"
  /\ UNCHANGED <<double_buffered, drawn, shown, events, swap_done, swap_pending, shells, gpu, session>>

\* GOPFrameBuffer::swap; its notify finds the terminal running
swap_gop ==
  /\ term = "swap" /\ ~double_buffered
  /\ shown' = drawn
  /\ flag' = [flag EXCEPT !["fb"] = TRUE]
  /\ registered' = IF flag["fb"] THEN registered ELSE registered \ {"fb"}
  /\ term' = "test refresh"
  /\ UNCHANGED <<double_buffered, drawn, copied, missed, swap_done, swap_pending, shells, gpu, session>>

\* Framebuffer::swap, up to notify_device
swap_virtio ==
  /\ term = "swap" /\ double_buffered
  /\ \/ sync_done = 0 /\ term' = "test refresh" /\ dropped' = TRUE /\ UNCHANGED <<shown, device>>
     \/ /\ sync_done # 0 /\ shown' = copied /\ device' = "busy" /\ term' = "swap end"
        /\ UNCHANGED dropped
  /\ UNCHANGED <<double_buffered, drawn, copied, events, swap_done, swap_pending, shells, kernel, sync_done, overrun, session>>

\* *sync_done = 0
swap_virtio_end ==
  /\ term = "swap end"
  /\ sync_done' = 0
  /\ overrun' = (overrun \/ device = "idle")
  /\ term' = "test refresh"
  /\ UNCHANGED <<double_buffered, drawing, events, swap_done, swap_pending, shells, kernel, device, dropped, session>>

\* The end of terminal_main: unwait_events, wait_thread; main calls it again.
\* It opens the virtio framebuffer once there is one; a framebuffer and its event
\* outlive the call.
restart ==
  /\ term = "exit" /\ shell = "gone"
  /\ registered' = {} /\ missed' = {}
  /\ drawn' = drawn + 1
  /\ double_buffered' \in {double_buffered, TRUE}
  /\ flag' = [refresh |-> TRUE, exit |-> FALSE, fb |-> flag["fb"] /\ double_buffered' = double_buffered]
  /\ term' = "test refresh" /\ swap_done' = TRUE /\ swap_pending' = FALSE
  /\ shell' = "idle" /\ shell_event' = "refresh"
  /\ session' = session + 1
  /\ UNCHANGED <<copied, shown, gpu>>

terminal_main ==
  \/ test("refresh", "test refresh", "test fb")
  \/ test("fb", "test fb", "test exit")
  \/ test("exit", "test exit", "wait")
  \/ wait_events \/ on_refresh \/ on_fb_event \/ copy
  \/ swap_gop \/ swap_virtio \/ swap_virtio_end
  \/ restart

-----------------------------------------------------------------------------
(* The device and the kernel thread.                                       *)

\* The device has executed the fenced command and interrupts.
complete ==
  /\ device = "busy"
  /\ device' = "done"
  /\ UNCHANGED <<double_buffered, drawing, events, terminal, shells, kernel, sync_done, overrun, dropped, session>>

process_control_queue ==
  /\ kernel = "idle" /\ device = "done"
  /\ device' = "idle" /\ sync_done' = 1 /\ kernel' = "notify"
  /\ UNCHANGED <<double_buffered, drawing, events, terminal, shells, overrun, dropped, session>>

kernel_notify ==
  /\ kernel = "notify"
  /\ flag' = [flag EXCEPT !["fb"] = TRUE]
  /\ kernel' = IF flag["fb"] THEN "idle" ELSE "notify_event"
  /\ UNCHANGED <<double_buffered, drawing, registered, missed, terminal, shells, sync_done, device, overrun, dropped, session>>

kernel_notify_event ==
  /\ kernel = "notify_event"
  /\ notify_event("fb")
  /\ kernel' = "idle"
  /\ UNCHANGED <<double_buffered, drawing, flag, swap_done, swap_pending, shells, sync_done, device, overrun, dropped, session>>

kernel_thread == process_control_queue \/ kernel_notify \/ kernel_notify_event
shell_main == shell_notify \/ shell_notify_event

Next == puts \/ exit \/ shell_main \/ terminal_main \/ complete \/ kernel_thread

Spec == Init /\ [][Next]_vars

\* The three threads are scheduled and the device completes what it was given.
FairSpec ==
  /\ Spec
  /\ WF_vars(shell_main) /\ WF_vars(terminal_main)
  /\ WF_vars(complete) /\ WF_vars(kernel_thread)

-----------------------------------------------------------------------------
(* Properties.                                                             *)

\* Every variable keeps its type.
TypeOK ==
  /\ double_buffered \in BOOLEAN
  /\ drawn \in 0..MaxPuts + MaxSessions /\ copied \in 0..drawn /\ shown \in 0..drawn
  /\ flag \in [Events -> BOOLEAN] /\ registered \subseteq Events /\ missed \subseteq Events
  /\ term \in {"test refresh", "test fb", "test exit", "wait", "asleep", "refresh", "fb",
               "exit", "copy", "swap", "swap end"}
  /\ swap_done \in BOOLEAN /\ swap_pending \in BOOLEAN
  /\ shell \in {"idle", "notify", "notify_event", "gone"} /\ shell_event \in Events
  /\ kernel \in {"idle", "notify", "notify_event"}
  /\ sync_done \in {0, 1} /\ device \in {"idle", "busy", "done"} /\ overrun \in BOOLEAN
  /\ dropped \in BOOLEAN
  /\ session \in 1..MaxSessions

\* The virtio device is given one swap at a time: the buffer that is being
\* filled is not the one it reads.
OneSwapInFlight ==
  [][device' = "busy" /\ device # "busy" => device = "idle"]_vars

\* Framebuffer::swap returns early, and the frame is lost, only when terminal_main
\* was entered again or a completion was overwritten: otherwise swap_done and
\* sync_done agree.
DropsExplained == dropped => session > 1 \/ overrun

\* What was drawn is shown, however the three threads and the device interleave,
\* unless the terminal sleeps for good after a notification between test and
\* wait_events, the completion of a swap was overwritten by *sync_done = 0, or
\* the swap returned early.
DrawnIsShown ==
  \A n \in 1..MaxPuts :
    drawn = n ~> \/ shown >= n \/ overrun \/ dropped
                 \/ [](term = "asleep" /\ missed # {})
=============================================================================
