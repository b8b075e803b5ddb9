-------------------------- MODULE MCProcessManager --------------------------
(* Instances of ProcessManager for TLC. *)
EXTENDS ProcessManager, TLC

CONSTANTS kernel, idle, a, b

ThreadsAB == {kernel, idle, a, b}

LifecycleOps == {"create_process", "create_thread", "wakeup_thread", "sleep_this_thread",
                 "exit_this_thread", "wait_thread", "wait_process", "create_event",
                 "delete_event", "missed_tick"}

EventOps == {"create_thread", "wakeup_thread", "wait_events", "unwait_events",
             "notify_event", "exit_this_thread"}

DeleteOps == {"create_thread", "wakeup_thread", "wait_events", "create_event", "delete_event",
              "exit_this_thread"}

ProgressOps == {"create_thread", "wakeup_thread", "suspend_this_thread", "exit_this_thread",
                "wait_thread"}

SymAB == Permutations({a, b})
=============================================================================
