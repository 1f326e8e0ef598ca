------------------------------- MODULE Tasking -------------------------------
(***************************************************************************)
(* The task subsystem of the Hexahedron kernel (hexahedron/task): the      *)
(* thread run queue, context switching, the sleep queue that the timer     *)
(* interrupt of every CPU serves, and the life of a process from fork      *)
(* through exit to waitpid or the reaper.                                  *)
(*                                                                         *)
(* Kernel code runs with interrupts masked (SFMASK for SYSCALL, interrupt  *)
(* gates for the rest), so a CPU is interrupted only in user mode or in    *)
(* the idle thread's HLT; kernel steps interleave only between CPUs.  A    *)
(* step is therefore a stretch of kernel code between two accesses that    *)
(* another CPU can tell apart; a critical section under a spinlock that    *)
(* touches only what the lock protects is one step.                        *)
(*                                                                         *)
(* Every process has one thread (thread_list is never filled), so a        *)
(* process also names its main thread, and a CPU also names its own idle   *)
(* process and idle thread.                                                *)
(***************************************************************************)
EXTENDS Naturals, Integers, Sequences, SequencesExt, FiniteSets

CONSTANTS CPU,          \* processors; each names its idle thread too
          BootCPU,      \* the BSP, which enters init
          User,         \* slots for user processes, init included
          InitProc,     \* process_spawnInit
          Reaper,       \* reaper_proc
          Program,      \* the system calls each user process may make
          Timeslice,    \* scheduler_timeslices, by process
          None          \* NULL, and a free spinlock

ASSUME ConstantsAssumption ==
  /\ BootCPU \in CPU
  /\ InitProc \in User
  /\ Reaper \notin User
  /\ CPU \cap (User \cup {Reaper}) = {}
  /\ None \notin CPU \cup User \cup {Reaper}
  /\ Program \in [User -> SUBSET {"fork", "exit", "wait", "nohang", "usleep",
                                  "exec", "badexec"}]
  /\ Timeslice \in [User \cup {Reaper} -> Nat \ {0}]

Proc == User \cup {Reaper}
Thread == Proc \cup CPU

VARIABLES
  \* per thread
  status,          \* thread_t.status: SLEEPING, STOPPING, STOPPED
  preempt_ticks,   \* thread_t.preempt_ticks
  context,         \* thread_t.context: where the thread resumes
  sleep,           \* thread_t.sleep # NULL
  sleep_state,     \* thread_sleep_t.sleep_state of the thread's sleep node
  \* per process
  created,         \* processes that process_createStructure made
  stopped,         \* PROCESS_STOPPED in process_t.flags
  destroyed,       \* processes that process_destroy freed
  parent,          \* process_t.parent
  node_parent,     \* process_t.node->parent, as the process it stands for
  children,        \* process_t.node->children, likewise
  waiters,         \* entries of waitpid_queue for the process's main thread
  old_waiters,     \* waitpid_queue has entries for a thread that exec replaced
  wait_pid,        \* the pid argument of the process's waitpid, None for -1
  \* global
  thread_queue, scheduler_lock,
  sleep_queue, sleep_queue_lock,
  reap_queue,
  \* per CPU
  current_thread,  \* processor_data[].current_thread (and ->parent)
  stack,           \* the thread whose kernel stack the CPU stands on
  pc,              \* where the CPU is
  resume,          \* where process_yield(0) returns to
  woken,           \* the thread sleep_callback is waking
  panic            \* why the kernel can no longer be followed

thread_vars == <<status, preempt_ticks, context, sleep, sleep_state>>
process_vars == <<created, stopped, destroyed, parent, node_parent, children,
                  waiters, old_waiters, wait_pid>>
queue_vars == <<thread_queue, scheduler_lock, sleep_queue, sleep_queue_lock,
                reap_queue>>
cpu_vars == <<current_thread, stack, pc, resume, woken>>
vars == <<thread_vars, process_vars, queue_vars, cpu_vars, panic>>

Where == {"user", "halt", "woke", "irq", "switch", "resched", "load",
          "append", "mark", "yield", "exit_notify", "exit_queue", "exit_wake",
          "wait", "scan", "scan_nohang", "wait_return", "wait_sleep",
          "reaper_sleep", "reaper_check", "reap"}

PanicReason == {"double_run", "use_after_free", "stack_freed"}

TypeOK ==
  /\ status \in [Proc -> SUBSET {"SLEEPING", "STOPPING", "STOPPED"}]
  /\ preempt_ticks \in [Proc -> Int]
  /\ context \in [Proc -> Where]
  /\ sleep \in [Proc -> BOOLEAN]
  /\ sleep_state \in [Proc -> {"NOCOND", "WAKEUP", "TIME"}]
  /\ created \subseteq Proc
  /\ stopped \subseteq created
  /\ destroyed \subseteq stopped
  /\ parent \in [Proc -> User \cup {None}]
  /\ node_parent \in [Proc -> User \cup {None}]
  /\ children \in [Proc -> Seq(User)]
  /\ waiters \in [Proc -> Nat]
  /\ old_waiters \subseteq Proc
  /\ wait_pid \in [Proc -> User \cup {None}]
  /\ thread_queue \in Seq(Proc)
  /\ scheduler_lock \in CPU \cup {None}
  /\ sleep_queue \in Seq(Proc)
  /\ sleep_queue_lock \in CPU \cup {None}
  /\ reap_queue \in Seq(User)
  /\ current_thread \in [CPU -> Thread]
  /\ stack \in [CPU -> Thread]
  /\ pc \in [CPU -> Where]
  /\ resume \in [CPU -> Where]
  /\ woken \in [CPU -> Proc \cup {None}]
  /\ panic \in PanicReason \cup {None}

\* kmain has started: process_init queued the reaper, every AP stands in its
\* idle thread, and process_execute has entered init on the BSP.
Init ==
  /\ status = [t \in Proc |-> {}]
  /\ preempt_ticks = [t \in Proc |-> 0]
  /\ context = [t \in Proc |-> IF t = Reaper THEN "reaper_sleep" ELSE "user"]
  /\ sleep = [t \in Proc |-> FALSE]
  /\ sleep_state = [t \in Proc |-> "NOCOND"]
  /\ created = {InitProc, Reaper}
  /\ stopped = {}
  /\ destroyed = {}
  /\ parent = [p \in Proc |-> None]
  /\ node_parent = [p \in Proc |-> None]
  /\ children = [p \in Proc |-> <<>>]
  /\ waiters = [p \in Proc |-> 0]
  /\ old_waiters = {}
  /\ wait_pid = [p \in Proc |-> None]
  /\ thread_queue = <<Reaper>>
  /\ scheduler_lock = None
  /\ sleep_queue = <<>>
  /\ sleep_queue_lock = None
  /\ reap_queue = <<>>
  /\ current_thread = [c \in CPU |-> IF c = BootCPU THEN InitProc ELSE c]
  /\ stack = [c \in CPU |-> IF c = BootCPU THEN InitProc ELSE c]
  /\ pc = [c \in CPU |-> IF c = BootCPU THEN "user" ELSE "halt"]
  /\ resume = [c \in CPU |-> "user"]
  /\ woken = [c \in CPU |-> None]
  /\ panic = None

Go(c, where) == pc' = [pc EXCEPT ![c] = where]

PROCESS_IN_USE(p) == \E c \in CPU : current_thread[c] = p

-----------------------------------------------------------------------------
(* The scheduler and context switching                                     *)

\* Variant: the run queue as a stack.
insertThread_front(t) ==
  /\ scheduler_lock = None
  /\ thread_queue' = <<t>> \o thread_queue

scheduler_insertThread(t) ==
  /\ scheduler_lock = None
  /\ thread_queue' = Append(thread_queue, t)

\* Pops threads up to the first one that is not STOPPING, marking the others
\* STOPPED.  A queue that held only STOPPING threads leads to the idle thread
\* by the early return that keeps scheduler_lock.
scheduler_get(c) ==
  LET first == SelectInSeq(thread_queue, LAMBDA t : "STOPPING" \notin status[t])
      caught == IF first = 0 THEN Range(thread_queue)
                ELSE {thread_queue[i] : i \in 1 .. first - 1}
  IN /\ scheduler_lock = None
     /\ thread_queue' = IF first = 0 THEN <<>>
                        ELSE SubSeq(thread_queue, first + 1, Len(thread_queue))
     /\ current_thread' = [current_thread EXCEPT
                             ![c] = IF first = 0 THEN c ELSE thread_queue[first]]
     /\ status' = [t \in Proc |-> IF t \in caught THEN status[t] \cup {"STOPPED"}
                                  ELSE status[t]]
     /\ scheduler_lock' = IF first = 0 /\ thread_queue # <<>> THEN c ELSE None

process_switchNextThread(c) ==
  /\ pc[c] = "switch"
  /\ scheduler_get(c)
  /\ Go(c, "load")
  /\ UNCHANGED <<preempt_ticks, context, sleep, sleep_state, process_vars,
                 sleep_queue, sleep_queue_lock, reap_queue, stack, resume,
                 woken, panic>>

\* process_yield(0), which every sleeper calls right after going to sleep.
process_yield(c) ==
  /\ pc[c] = "yield"
  /\ context' = [context EXCEPT ![stack[c]] = resume[c]]
  /\ resume' = [resume EXCEPT ![c] = "user"]
  /\ scheduler_get(c)
  /\ Go(c, "load")
  /\ UNCHANGED <<preempt_ticks, sleep, sleep_state, process_vars, sleep_queue,
                 sleep_queue_lock, reap_queue, stack, woken, panic>>

\* The tail of lapic_timer_irq: the idle thread leaves its HLT and looks for
\* work; any other thread is charged a tick, and yields when its slice is used.
lapic_timer_irq(c) ==
  LET t == stack[c] IN
  /\ pc[c] = "irq"
  /\ \/ /\ t = c
        /\ Go(c, "switch")
        /\ UNCHANGED <<thread_vars, thread_queue, scheduler_lock, current_thread>>
     \/ /\ t # c
        /\ preempt_ticks[t] > 1
        /\ preempt_ticks' = [preempt_ticks EXCEPT ![t] = @ - 1]
        /\ Go(c, "user")
        /\ UNCHANGED <<status, context, sleep, sleep_state, thread_queue,
                       scheduler_lock, current_thread>>
     \/ /\ t # c
        /\ preempt_ticks[t] <= 1
        /\ preempt_ticks' = [preempt_ticks EXCEPT ![t] = Timeslice[t]]
        /\ context' = [context EXCEPT ![t] = "user"]
        /\ scheduler_get(c)
        /\ Go(c, "resched")
        /\ UNCHANGED <<sleep, sleep_state>>
  /\ UNCHANGED <<process_vars, sleep_queue, sleep_queue_lock, reap_queue, stack,
                 resume, woken, panic>>

\* Variant: process_yield ignores its argument.
yield_reschedule_never(c) ==
  /\ pc[c] = "resched"
  /\ Go(c, "load")
  /\ UNCHANGED <<thread_vars, process_vars, queue_vars, current_thread, stack,
                 resume, woken, panic>>

\* process_yield(1) puts the previous thread back while still on its stack.
yield_reschedule(c) ==
  /\ pc[c] = "resched"
  /\ IF "SLEEPING" \in status[stack[c]]
       THEN UNCHANGED thread_queue
       ELSE scheduler_insertThread(stack[c])
  /\ Go(c, "load")
  /\ UNCHANGED <<thread_vars, process_vars, scheduler_lock, sleep_queue,
                 sleep_queue_lock, reap_queue, current_thread, stack, resume,
                 woken, panic>>

\* mem_switchDirectory and arch_load_context.  Loading a thread whose stack
\* another CPU still stands on corrupts that stack.
arch_load_context(c) ==
  LET t == current_thread[c] IN
  /\ pc[c] = "load"
  /\ IF \E d \in CPU \ {c} : stack[d] = t
       THEN /\ panic' = "double_run"
            /\ UNCHANGED <<stack, pc>>
       ELSE /\ stack' = [stack EXCEPT ![c] = t]
            /\ Go(c, IF t = c THEN "halt" ELSE context[t])
            /\ UNCHANGED panic
  /\ UNCHANGED <<thread_vars, process_vars, queue_vars, current_thread, resume,
                 woken>>

-----------------------------------------------------------------------------
(* Sleeping and waking                                                     *)

\* The sleep structure is attached without a lock.  It is queued in sleep_append
\* and the flag follows in sleep_mark; the thread then yields and resumes at `back'.
sleep_on(c, state, back) ==
  LET t == stack[c] IN
  /\ sleep' = [sleep EXCEPT ![t] = TRUE]
  /\ sleep_state' = [sleep_state EXCEPT ![t] = state]
  /\ resume' = [resume EXCEPT ![c] = back]
  /\ Go(c, "append")
  /\ UNCHANGED <<status, preempt_ticks, context, process_vars, queue_vars,
                 current_thread, stack, woken, panic>>

sleep_append(c) ==
  /\ pc[c] = "append"
  /\ sleep_queue_lock = None
  /\ sleep_queue' = Append(sleep_queue, stack[c])
  /\ Go(c, "mark")
  /\ UNCHANGED <<thread_vars, process_vars, thread_queue, scheduler_lock,
                 sleep_queue_lock, reap_queue, current_thread, stack, resume,
                 woken, panic>>

sleep_untilNever(c) ==
  \/ pc[c] = "wait_sleep" /\ sleep_on(c, "NOCOND", "wait")
  \/ pc[c] = "reaper_sleep" /\ sleep_on(c, "NOCOND", "reaper_check")

sleep_mark(c) ==
  /\ pc[c] = "mark"
  /\ status' = [status EXCEPT ![stack[c]] = @ \cup {"SLEEPING"}]
  /\ Go(c, "yield")
  /\ UNCHANGED <<preempt_ticks, context, sleep, sleep_state, process_vars,
                 queue_vars, current_thread, stack, resume, woken, panic>>

\* Variant: the wakeup is dropped.
sleep_wakeup_lost(t) == UNCHANGED sleep_state

\* sleep_wakeup(t): nothing happens unless the thread has a sleep structure.
sleep_wakeup(t) ==
  sleep_state' = [sleep_state EXCEPT ![t] = IF sleep[t] THEN "WAKEUP" ELSE @]

\* Variant: the woken sleeper is not unlinked.
list_delete_forgotten(queue, i) == queue

list_delete(queue, i) == RemoveAt(queue, i)

\* sleep_callback, from the timer interrupt of any CPU, up to the first
\* sleeper that is due: the node is unlinked and freed, which ends the loop.
\* Whether a timed sleeper is due is left open.
sleep_callback(c) ==
  /\ pc[c] \in {"user", "halt"}
  /\ sleep_queue_lock = None
  /\ \/ /\ \A i \in DOMAIN sleep_queue : sleep_state[sleep_queue[i]] # "WAKEUP"
        /\ Go(c, "irq")
        /\ UNCHANGED <<status, thread_queue, sleep_queue, sleep_queue_lock, woken>>
     \/ \E i \in DOMAIN sleep_queue :
          LET t == sleep_queue[i] IN
          /\ sleep_state[t] # "NOCOND"
          /\ \A j \in 1 .. i - 1 : sleep_state[sleep_queue[j]] # "WAKEUP"
          /\ sleep_queue' = list_delete(sleep_queue, i)
          /\ status' = [status EXCEPT ![t] = @ \ {"SLEEPING"}]
          /\ scheduler_insertThread(t)
          /\ sleep_queue_lock' = c
          /\ woken' = [woken EXCEPT ![c] = t]
          /\ Go(c, "woke")
  /\ UNCHANGED <<preempt_ticks, context, sleep, sleep_state, process_vars,
                 scheduler_lock, reap_queue, current_thread, stack, resume,
                 panic>>

\* Only after the thread is back in the run queue is its sleep pointer cleared: it
\* may point to the node of its next sleep by then.
sleep_callback_clear(c) ==
  /\ pc[c] = "woke"
  /\ sleep' = [t \in Proc |-> IF t = woken[c] THEN FALSE ELSE sleep[t]]
  /\ sleep_queue_lock' = None
  /\ woken' = [woken EXCEPT ![c] = None]
  /\ Go(c, "irq")
  /\ UNCHANGED <<status, preempt_ticks, context, sleep_state, process_vars,
                 thread_queue, scheduler_lock, sleep_queue, reap_queue,
                 current_thread, stack, resume, panic>>

-----------------------------------------------------------------------------
(* Processes                                                               *)

\* A system call of the program that the CPU is running in user mode.  After a
\* failed process_execute nothing is mapped, and only the page fault is left.
Calls(c, call) ==
  /\ pc[c] = "user"
  /\ stack[c] \in User
  /\ call \in Program[stack[c]]
  /\ "STOPPING" \notin status[stack[c]]

process_fork(c) ==
  LET p == stack[c] IN
  /\ Calls(c, "fork")
  /\ \E child \in User \ created :
       /\ created' = created \cup {child}
       /\ parent' = [parent EXCEPT ![child] = p]
       /\ node_parent' = [node_parent EXCEPT ![child] = p]
       /\ children' = [children EXCEPT ![p] = Append(@, child)]
       /\ scheduler_insertThread(child)
  /\ UNCHANGED <<thread_vars, stopped, destroyed, waiters, old_waiters, wait_pid,
                 scheduler_lock, sleep_queue, sleep_queue_lock, reap_queue,
                 cpu_vars, panic>>

\* process_execute on a file that loads: a new main thread replaces the old
\* one, which the waitpid_queue may still list.
process_execute(c) ==
  LET p == stack[c] IN
  /\ Calls(c, "exec")
  /\ status' = [status EXCEPT ![p] = {}]
  /\ preempt_ticks' = [preempt_ticks EXCEPT ![p] = 0]
  /\ sleep' = [sleep EXCEPT ![p] = FALSE]
  /\ woken' = [d \in CPU |-> IF woken[d] = p THEN None ELSE woken[d]]
  /\ waiters' = [waiters EXCEPT ![p] = 0]
  /\ old_waiters' = IF waiters[p] > 0 THEN old_waiters \cup {p} ELSE old_waiters
  /\ UNCHANGED <<context, sleep_state, created, stopped, destroyed, parent,
                 node_parent, children, wait_pid, queue_vars, current_thread,
                 stack, pc, resume, panic>>

\* process_execute on a file that elf_check accepts and elf_load refuses.
process_execute_fails(c) ==
  /\ Calls(c, "badexec")
  /\ status' = [status EXCEPT ![stack[c]] = @ \cup {"STOPPING"}]
  /\ UNCHANGED <<preempt_ticks, context, sleep, sleep_state, process_vars,
                 queue_vars, cpu_vars, panic>>

sleep_untilTime(c) == Calls(c, "usleep") /\ sleep_on(c, "TIME", "user")

\* sys_exit, or the page fault of a process whose image is gone.
process_exit(c) ==
  LET p == stack[c] IN
  /\ \/ Calls(c, "exit")
     \/ pc[c] = "user" /\ p \in User /\ "STOPPING" \in status[p]
  /\ stopped' = stopped \cup {p}
  /\ status' = [status EXCEPT ![p] = @ \cup {"STOPPING"}]
  /\ Go(c, "exit_notify")
  /\ UNCHANGED <<preempt_ticks, context, sleep, sleep_state, created, destroyed,
                 parent, node_parent, children, waiters, old_waiters, wait_pid,
                 queue_vars, current_thread, stack, resume, woken, panic>>

\* If the parent waits, wake it and leave the rest to it; a thread that exec
\* replaced is in the list too, but its sleep pointer is NULL.
exit_notify(c) ==
  LET q == parent[stack[c]] IN
  /\ pc[c] = "exit_notify"
  /\ IF q \in destroyed
       THEN /\ panic' = "use_after_free"
            /\ UNCHANGED <<sleep_state, pc>>
       ELSE /\ IF q # None /\ (waiters[q] > 0 \/ q \in old_waiters)
                 THEN /\ IF waiters[q] > 0 THEN sleep_wakeup(q)
                                           ELSE UNCHANGED sleep_state
                      /\ Go(c, "switch")
                 ELSE Go(c, "exit_queue") /\ UNCHANGED sleep_state
            /\ UNCHANGED panic
  /\ UNCHANGED <<status, preempt_ticks, context, sleep, process_vars, queue_vars,
                 current_thread, stack, resume, woken>>

exit_queue(c) ==
  /\ pc[c] = "exit_queue"
  /\ reap_queue' = Append(reap_queue, stack[c])
  /\ Go(c, "exit_wake")
  /\ UNCHANGED <<thread_vars, process_vars, thread_queue, scheduler_lock,
                 sleep_queue, sleep_queue_lock, current_thread, stack, resume,
                 woken, panic>>

exit_wake(c) ==
  /\ pc[c] = "exit_wake"
  /\ sleep_wakeup(Reaper)
  /\ Go(c, "switch")
  /\ UNCHANGED <<status, preempt_ticks, context, sleep, process_vars, queue_vars,
                 current_thread, stack, resume, woken, panic>>

\* What process_destroy and the reaper's loop change, as one record, because
\* the reaper destroys several processes in one critical section.
Family == [queue |-> reap_queue, i |-> 0, children |-> children,
           node_parent |-> node_parent, destroyed |-> destroyed, panic |-> panic]

\* Variant: the node stays in its parent's list of children.
tree_remove_listed(f, p) == f

\* Variant: the children are dropped with the node, as in tree_delete.
tree_remove_dropping(f, p) ==
  LET g == f.node_parent[p]
  IN IF g = None THEN f
     ELSE IF g \in f.destroyed THEN [f EXCEPT !.panic = "use_after_free"]
     ELSE [f EXCEPT !.children[g] = Remove(@, p)]

\* tree_remove: the node leaves its parent's list.  list_append_node clears the
\* moved node's next, so the loop over the children ends after the first one;
\* the others keep a parent pointer to the freed node.
tree_remove(f, p) ==
  LET g == f.node_parent[p]
      moved == IF f.children[p] = <<>> THEN <<>> ELSE <<Head(f.children[p])>>
  IN IF g = None THEN f
     ELSE IF g \in f.destroyed THEN [f EXCEPT !.panic = "use_after_free"]
     ELSE [f EXCEPT !.children[g] = Remove(@, p) \o moved,
                    !.node_parent = [q \in Proc |-> IF q \in Range(moved) THEN g
                                                    ELSE @[q]]]

process_destroy(f, p) ==
  IF \E c \in CPU : stack[c] = p
    THEN [f EXCEPT !.panic = "stack_freed"]
    ELSE tree_remove([f EXCEPT !.destroyed = @ \cup {p}], p)

Adopt(f) ==
  /\ reap_queue' = f.queue
  /\ children' = f.children
  /\ node_parent' = f.node_parent
  /\ destroyed' = f.destroyed
  /\ panic' = f.panic

\* One turn of the reaper's loop, whose bound reap_queue->length shrinks as it
\* pops.
reap_one(f) ==
  LET p == Head(f.queue)
      popped == [f EXCEPT !.queue = Tail(@), !.i = @ + 1]
  IN IF f.i >= Len(f.queue) \/ f.panic # None THEN f
     ELSE IF p \in f.destroyed THEN [f EXCEPT !.panic = "use_after_free"]
     ELSE IF PROCESS_IN_USE(p) THEN [popped EXCEPT !.queue = Append(@, p)]
     ELSE process_destroy(popped, p)

process_reaper(c) ==
  /\ \/ /\ pc[c] = "reaper_check"
        /\ Go(c, IF reap_queue = <<>> THEN "reaper_sleep" ELSE "reap")
        /\ UNCHANGED <<reap_queue, children, node_parent, destroyed, panic>>
     \/ /\ pc[c] = "reap"
        /\ Adopt(FoldLeft(LAMBDA f, n : reap_one(f), Family, reap_queue))
        /\ Go(c, "reaper_sleep")
  /\ UNCHANGED <<thread_vars, created, stopped, parent, waiters, old_waiters,
                 wait_pid, thread_queue, scheduler_lock, sleep_queue,
                 sleep_queue_lock, current_thread, stack, resume, woken>>

\* Variant: the waiter does not enter itself in waitpid_queue.
waitpid_queue_append_skipped(p) == UNCHANGED waiters

waitpid_queue_append(p) == waiters' = [waiters EXCEPT ![p] = @ + 1]

\* process_waitpid, up to its entry in waitpid_queue; also each later turn of
\* its loop, after the sleep.
waitpid_enter(c) ==
  LET p == stack[c] IN
  /\ \/ /\ Calls(c, "wait") \/ Calls(c, "nohang")
        /\ \E pid \in {None} \cup (created \ {InitProc, Reaper}) :
             wait_pid' = [wait_pid EXCEPT ![p] = pid]
        /\ \/ Calls(c, "wait") /\ Go(c, "scan")
           \/ Calls(c, "nohang") /\ Go(c, "scan_nohang")
     \/ /\ pc[c] = "wait"
        /\ Go(c, "scan")
        /\ UNCHANGED wait_pid
  /\ waitpid_queue_append(p)
  /\ UNCHANGED <<thread_vars, created, stopped, destroyed, parent, node_parent,
                 children, old_waiters, queue_vars, current_thread, stack,
                 resume, woken, panic>>

Awaited(p, child) == wait_pid[p] \in {None, child}

\* The scan of the children under reap_queue_lock.
waitpid_scan(c) ==
  LET p == stack[c]
      dead == SelectInSeq(children[p], LAMBDA q : Awaited(p, q) /\ q \in stopped)
  IN
  /\ pc[c] \in {"scan", "scan_nohang"}
  /\ IF dead # 0 /\ ~PROCESS_IN_USE(children[p][dead])
       THEN Adopt(process_destroy(Family, children[p][dead]))
       ELSE UNCHANGED <<reap_queue, children, node_parent, destroyed, panic>>
  /\ Go(c, IF dead = 0 /\ children[p] # <<>> /\ pc[c] = "scan" THEN "wait_sleep"
           ELSE "wait_return")
  /\ UNCHANGED <<thread_vars, created, stopped, parent, waiters, old_waiters,
                 wait_pid, thread_queue, scheduler_lock, sleep_queue,
                 sleep_queue_lock, current_thread, stack, resume, woken>>

waitpid_return(c) ==
  LET p == stack[c] IN
  /\ pc[c] = "wait_return"
  /\ waiters' = [waiters EXCEPT ![p] = @ - 1]
  /\ wait_pid' = [wait_pid EXCEPT ![p] = None]
  /\ Go(c, "user")
  /\ UNCHANGED <<thread_vars, created, stopped, destroyed, parent, node_parent,
                 children, old_waiters, queue_vars, current_thread, stack,
                 resume, woken, panic>>

-----------------------------------------------------------------------------
Step(c) ==
  \/ sleep_callback(c)
  \/ sleep_callback_clear(c)
  \/ lapic_timer_irq(c)
  \/ yield_reschedule(c)
  \/ process_switchNextThread(c)
  \/ process_yield(c)
  \/ arch_load_context(c)
  \/ sleep_untilNever(c)
  \/ sleep_untilTime(c)
  \/ sleep_append(c)
  \/ sleep_mark(c)
  \/ process_fork(c)
  \/ process_execute(c)
  \/ process_execute_fails(c)
  \/ process_exit(c)
  \/ exit_notify(c)
  \/ exit_queue(c)
  \/ exit_wake(c)
  \/ process_reaper(c)
  \/ waitpid_enter(c)
  \/ waitpid_scan(c)
  \/ waitpid_return(c)

Next ==
  \/ panic = None /\ \E c \in CPU : Step(c)
  \/ panic # None /\ UNCHANGED vars   \* corrupted: nothing more is claimed

Spec == Init /\ [][Next]_vars

\* A CPU never stops executing, and a timer interrupt that is pending while
\* interrupts are masked is taken as soon as they are not.
Fairness == \A c \in CPU : /\ WF_vars(panic = None /\ Step(c))
                           /\ SF_vars(panic = None /\ sleep_callback(c))

FairSpec == Spec /\ Fairness

-----------------------------------------------------------------------------
(* Properties                                                              *)

Live(t) == t \in created \ stopped /\ "STOPPING" \notin status[t]

Occurrences(t, queue) == Cardinality({i \in DOMAIN queue : queue[i] = t})

\* The CPUs that hold t: executing it, or about to put it back.
Holders(t) == {c \in CPU : \/ current_thread[c] = t /\ pc[c] \notin {"mark", "yield"}
                           \/ stack[c] = t /\ pc[c] = "resched"}

Places(t) == Occurrences(t, thread_queue) + Occurrences(t, sleep_queue)
             + Cardinality(Holders(t))

\* No thread is in two places: in whatever order threads yield, sleep, wake and are
\* preempted, a live thread is never in two of the run queue, the sleep queue and
\* the CPUs, nor twice in a queue.
NeverInTwoPlaces == panic = None => \A t \in Proc : Live(t) => Places(t) <= 1

\* No thread is queued twice, on any number of CPUs: whatever the order in which
\* they put a thread to sleep, wake it, preempt it and put it back, it is at most
\* once in the run queue and the sleep queue together.  (It may be queued while a
\* CPU still stands on its stack: process_yield, "It is very unlikely, but
\* possible".)
QueuedOnce ==
  \A t \in Proc : Live(t) =>
    Occurrences(t, thread_queue) + Occurrences(t, sleep_queue) <= 1

\* No thread is lost: every live thread is in the run queue, in the sleep
\* queue or on a CPU (process_yield "Whether to readd the process back to the
\* queue").
NeverLost == panic = None => \A t \in Proc : Live(t) => Places(t) >= 1

\* No lost wakeup: while a parent sleeps in process_waitpid without a wakeup
\* pending, none of its own children it waits for is dead, except one that is just
\* about to notify it.
NoLostWakeup ==
  panic = None =>
    \A p \in User : context[p] = "wait" /\ sleep_state[p] = "NOCOND"
                    /\ "SLEEPING" \in status[p] =>
      \A q \in Range(children[p]) :
        parent[q] = p /\ Awaited(p, q) /\ q \in stopped =>
          \E c \in CPU : stack[c] = q /\ pc[c] = "exit_notify"

\* Whoever looks for a thread to run, for a sleeper to wake or for a dead child does
\* not find a destroyed process: it is in neither queue of threads, not what a CPU
\* runs, and in no list of children.  (The reap queue is ReapQueueLive's subject.)
DestroyedUnreachable ==
  \A p \in destroyed :
    /\ p \notin Range(thread_queue) \cup Range(sleep_queue)
    /\ \A c \in CPU : current_thread[c] # p
    /\ \A q \in created \ destroyed : p \notin Range(children[q])

\* A process has a parent that can wait for it until it is destroyed: it is in one
\* list of children, that of its node's parent, which exists (tree_remove_reparent:
\* "Remove a node, but move its children into the children of parent").
ChildrenAdopted ==
  \A q \in created \ (destroyed \cup {InitProc, Reaper}) :
    /\ node_parent[q] \in created \ destroyed
    /\ \A p \in created \ destroyed :
         Occurrences(q, children[p]) = IF p = node_parent[q] THEN 1 ELSE 0

\* The run queue is fair: a thread in it gets a CPU.
RunnableRuns ==
  \A t \in Proc : (t \in Range(thread_queue)) ~>
                  (panic # None \/ \E c \in CPU : stack[c] = t)

\* Once an own child that the parent waits for is dead, the parent leaves its sleep
\* in process_waitpid.
WaiterServed ==
  \A p, q \in User :
    (context[p] = "wait" /\ "SLEEPING" \in status[p] /\ q \in Range(children[p])
       /\ parent[q] = p /\ Awaited(p, q) /\ q \in stopped)
    ~> (panic # None \/ "SLEEPING" \notin status[p])

\* A process is on the reap queue only while it exists: it is destroyed by the
\* reaper or by its waiting parent, not by both (process.c, process_exit).
ReapQueueLive == Range(reap_queue) \cap destroyed = {}
=============================================================================
