# A TLA+ model of lmkd

lmkd, the low memory killer daemon, watches memory pressure and kills the least
essential process when memory runs out. This directory holds specifications of
its parts, the configurations TLC checks them with, and machine-checked proofs
about its kill thread pool, its watchdog, its kill decision and its counters.
Names follow the sources; `PROJECT.json` maps every definition to the lines it
stands for.

## The system

One **main thread** runs `mainloop`: `epoll_wait`, then a handler for each event
of the batch, or a poll of the memory state. Its handlers are

* the **control socket**: system_server and others connect (at most
  `MAX_DATA_CONN` at a time), register processes with an `oom_score_adj`
  (`LMK_PROCPRIO`), remove them, purge their own, set minfree levels, ask for kill
  counts, subscribe to kill events, and have properties reloaded;
* **memory pressure**: PSI events at three levels and a poll after them,
  `__mp_event_psi`, which decides whether to kill and down to which
  `oom_score_adj`; the older `mp_event_common` for vmpressure and minfree levels;
  vendor events of the memory event listener;
* **the end of a kill**: the pidfd of the victim becomes readable
  (`kill_done_handler`), or a thread reports a failure (`kill_fail_handler`).

A **pool of reaper threads** sends the signal, so that the main thread need not
wait in the kernel while memory of the victim is reclaimed. A **watchdog thread**
kills something by itself when a handler hangs.

What these share is where the difficulties lie: the process records (hash chains
and rings), the descriptor table, the pending kill (`last_kill_pid_or_fd`),
`polling_params`, `maxevents`, and the claims of clients on records.

## Modules

| module | models | composed of |
|---|---|---|
| `Reaper` | threads of `reaper_main`, queue, condition variable, failure pipe, descriptor table | |
| `ReaperClient` | the pool with its most general caller | `Reaper` |
| `KillService` | what the pool promises, abstractly | |
| `KillPath` | the main thread from a registration to the death of the victim | `Reaper`, refines `ReaperClient` |
| `ProcTable` | records, lists by `oom_score_adj`, claims | |
| `VictimSearch` | `find_and_kill_process` among commands, dying processes and the watchdog | `ProcTable` |
| `AdjList` | the rings and hash chains behind the table, pointer by pointer | `ProcTable` |
| `Watchdog` | timer, watchdog thread and `pid_invalidate` beside a main thread that changes the records | `AdjList` |
| `Connections` | control socket, slots, two-pass batches, claims, subscriptions | `ProcTable` |
| `PollLoop` | `mainloop`, `call_handler`, `polling_params`, `prev_level` | |
| `KillDecision` | the rules and statics of `__mp_event_psi` | |
| `MinfreeTargets` | `cmd_target` | |
| `KillCount` | `inc_killcnt`, `get_killcnt` | |
| `OldStrategy` | `mp_event_common`, by pressure level or by minfree levels | `MinfreeTargets`, `KillCount` |
| `Monitors` | `main`, `init`, monitors, property reload, boot completion, restarts | |
| `ReaperTypeProofs`, `ReaperFdProofs`, `ReaperProofs` | proofs about `ReaperClient` | `ReaperClient` |
| `AdjListProofs`, `WatchdogListProofs`, `WatchdogProofs` | proofs about `Watchdog` | `Watchdog` |
| `KillDecisionProofs`, `KillCountProofs` | proofs about `KillDecision` and `KillCount` | |

An operator whose name ends in `_Something` next to a definition, under a
comment "Mutant", is a wrong version of that definition; replacing it shows that
a property can fail.

### Reaper, ReaperClient, KillService

A thread is a `pc` through `reaper_main`: take a request from the back of
`queue_` or wait, signal, report a failure (the mutex is held over the blocking
write), set the priority of the victim's threads (a directory descriptor is
opened and closed), `process_mrelease`, close, count the request off. Steps under
`mutex_` are atomic; the write to the pipe is not. Condition variables may wake
spuriously. The descriptor table is explicit, with the lowest free number given
out first, since what the code must get right is which number denotes what.
`dup` may fail. The caller of `ReaperClient` opens, closes and uses pidfds in any
order. `KillService` says: an accepted request is settled once, by a signal to
its process or by a report; never more requests than threads.

### KillPath

Records have a pidfd and remember the process it was opened for. Pids are
reused. `kill_one_process` is split where another thread can act or a descriptor
changes hands: `KillBegin` (`start_wait_for_proc_kill`), `KillCall`,
`KillAsync`/`KillSync`, `KillFailedStop`, `KillEnd` (`pid_remove`). `EpollWait`
returns a batch; events in it can be stale when handled. A `world`, chosen at the
start, says which processes exist and which faults may happen (epoll refusing,
a victim that ends before the signal, a victim without pages).
`ImplementsCaller` maps the main thread to the caller of `ReaperClient`, so that
what is proved about the pool holds for lmkd, except after the two faults with
which a pidfd is closed twice.

### ProcTable, VictimSearch

The hash is a function from pids to records, a list the sequence of its pids,
newest first. The search runs level by level, retries after `-1`, stops on any
other size, and walks the list record by record when it looks for the heaviest
process. Processes start, end (zombie, then gone) and are invalidated at any
time. `steady` (processes alive since the search began), `kills` and `failed`
are history variables. `cmd_procs_prio` is a sequence of `LMK_PROCPRIO`.

### AdjList, Watchdog

A record is named by its pid, the anchor of a ring by its `oom_score_adj`; `next`,
`prev`, `pidhash` and `pidhash_next` are the pointers. `slot`, the lists of
`ProcTable`, is updated beside them and `RingsAreLists` says that the pointers
represent it. The main thread's `pid_remove` and registrations are split at
`adjslot_list_lock`: out of the chain (no lock), out of the ring (lock), free.
The watchdog holds the lock shared within one `find_victim`, which is one step,
and over the whole of `pid_lookup`, which is one step for each record.
`proc_insert` publishes a record without the lock: the watchdog may read the
zeros of `calloc` in place of its pid and `pidhash_next` until the lock is taken.
A wilder reordering of the two stores than that is not modelled. Processes end at
any time, numbers of closed pidfds are given out again, a SIGALRM sent before the
handler returned stays pending. A crash is followed by a restart with empty
tables. `quiet` marks a bite during which the main thread did not change the
lists.

### Connections

An event names a slot, not a connection. `EpollWait` reports what is ready up to
`maxevents`; hangups are handled in the first pass. `recvmsg` blocks on a
connection with no data and fails on a free slot. When no slot is free, all
connections are dropped. `data_sock[].pid` is set by the first command and is not
reset by a new connection. lmkd answers commands and tells the subscribers of a
kill; `write` waits while the client has `MaxUnread` packets it did not read, and
fails once the client has closed. The sources do not handle SIGPIPE; should such
a write end lmkd, that is `Crash` in `Monitors`.

### PollLoop

Time is three flags: the polling interval, the polling window and
`kill_timeout_ms` have passed or not. `Updated` is what `call_handler` makes of
the update a handler asked for. What `__mp_event_psi` and `mp_event_common`
decide is open. A kill of `mp_event_common` pauses polling unless it freed nothing
and its report is left out. `hazards` is chosen once per behaviour from
`HazardSets`.

### KillDecision

The rules are a sequence of records tried in order (`Rules`), which reads like
the `else if` chain. Thrashing percentages are numbers, other figures are the
outcomes of the comparisons the code makes. A shift by 64 or more is undefined in
C++ and any outcome of the machine's shift is possible.

### MinfreeTargets, KillCount, OldStrategy

`cmd_target` copies targets while their text fits the property buffer; the text
is modelled by its length. Requests that come too soon are turned down. Counters
wrap at their width; `get_killcnt` is asked about scores from -1000 on, the code
does not check the lower end. `OldStrategy` is `mp_event_common`: `signals` are the
eventfd counters or PSI triggers, `batch` the handlers `mainloop` is about to
call; the handler of one level reads the counters of all. A poll calls the
handler like an event does.

### Monitors

The helpers that set up and tear down monitors work on a record of the statics
(`epoll`, `maxevents`, `mpevfd` and so on) and yield the set of their outcomes,
for every call that may fail. `props` is what `update_props` keeps; `init_monitors`
reads `use_psi` and then `use_new_strategy` for itself (`live`), and a change may
come between any two of these reads. `lmkd.rc` runs `--reinit` when one of the
properties in `Triggers` changes and `--boot_completed` once; a request sent while lmkd does not listen is lost. lmkd
may crash or exit at any time and is started again. That ActivityManager sends
`LMK_START_MONITORING` at the completion of boot is an assumption about code
outside this repository.

## What is checked

| run | shows | distinct states | instance |
|---|---|---|---|
| `reaper_pool` | descriptor ownership, capacity, wakeups; refinement of `KillService`; requests settle | 180 thousand | 2 threads, 1 process, 3 descriptors, 3 kills, pipe of 1 |
| `kill_path` | pidfd ownership, epoll set, waits, refinement of `ReaperClient` | 1.3 million, symmetry | 2 processes on 2 pids, without faults or without pages, or on 1 pid, without pages or with all faults; 3 descriptors, 2 kills, 1 thread |
| `kill_double_close` | violated, see below | | |
| `victim_search` | lists and table agree, choice of the victim, termination | 480 thousand | 3 processes, 2 levels (one perceptible) |
| `watchdog` | rings, no freed record read, choice of the victim, a bite ends, a hang is answered | 630 thousand | 2 processes in one hash chain, 3 levels (one negative), 2 descriptors |
| `watchdog_empty` | violated, see below | | |
| `connections` | claims, subscriptions, `maxevents`, with failures; events reach their connection and all are served though writes wait, without | 370 thousand | 3 connections of 2 clients, 2 slots, 1 unread packet |
| `poll_loop` | window, level gate, end of polling, end of waits | 380 thousand | 3 levels; no hazard, slow handlers, the old strategy with them or with victims without pages, all failures |
| `kill_decision` | who is spared, what is forgotten after a kill | 87 thousand | up to 2 percent of refaults a window |
| `decision_first_kill` | violated, see below | | |
| `strategy` | kill counts, minfree levels, no level overlooked | 1 million | 3 configurations, 3 requests of up to 3 targets, counters of 1 bit, 3 kills |
| `monitors` | `maxevents`, reload like restart, properties in force, monitoring starts | 180 thousand | 5 sets of properties, 3 kernels, any number of reloads and restarts |

Why these bounds suffice for the cases of interest: in the pool a third request
finds both threads busy, and three descriptors let the table run full; on the
kill path one thread makes the second kill synchronous and two processes on one
pid reuse it; two records in one chain and one ring are neighbours of each other,
so that each can be removed while the watchdog is at it (the proofs cover longer
lists); a level below 0 must not be reached; two slots and three connections
overflow; one perceptible and one higher level exercise both ways to choose; a
limit of one percent with refaults of two lets the limit be passed, cut and
passed again; three kills make a counter of one bit wrap and two counters for
three values run out; three targets in a buffer of 16 characters overrun it with
the last one, as six may overrun 92.

Deadlock is checked except in `reaper_pool` and `connections`, where the caller
or the clients have a bounded number of kills or connections and then stop.

### Fairness

* Reaper threads and the main thread are scheduled (weak fairness of their next
  step); the loop reads the failure pipe.
* In `PollLoop` time passes between batches, and strong fairness is needed since
  a batch may always be under way when one looks: an interval or window that can
  end again and again does end.
* `Watchdog`: the watchdog thread is scheduled and its timer runs out. Nothing is
  assumed of the main thread, which may hang anywhere.
* `VictimSearch`: a search or purge under way is carried on; it waits for nothing.
* `Monitors`: the start request is sent once boot has completed, and `mainloop`
  serves it.
* `Connections`: the main thread is scheduled, and clients read what lmkd sends
  them or close. The second is an assumption about clients: without it a write
  keeps lmkd waiting for ever, and `ConnectionsServed` does not hold.
* Nothing else is assumed of clients, of processes, or of memory pressure.

### Where code and comments disagree

Three runs are expected to fail:

1. `kill_double_close`. A synchronous kill that fails closes the pidfd in
   `stop_wait_for_proc_kill` and again in `pid_remove`. In between, a thread may
   open a directory under that number.
2. `decision_first_kill`. The recheck of the watermarks before the first kill
   keeps the reason found before the recheck.
3. `watchdog_empty`. `proc_adj_prev` reads through the null pointer
   `adjslot_tail` returns for an empty list, when the one record of the list was
   removed since the last `find_victim`.

Properties that the code does not have, found while stating the ones it has, are
recorded as conditions of those and in the notes of the hazards: a failed kill
makes the search skip to less expendable processes; dead records at one level can
end a search; a victim without pages starts a second wait; a closing silent
connection unclaims records of another; a failed registration with epoll lowers
`maxevents`; a vendor event becomes the paused handler, so that `prev_level` is
not reset; a failure and a death in one batch resume polling twice, and the death
after a kill that was not reported resumes what was not paused, which stops it; a
reload before the completion of boot loses the direct reclaim threshold until the
next one; a property that changes between `update_props` and `listen` is missed
until the next reload; `use_psi`, `use_new_strategy` and
`delay_monitors_until_boot` have no trigger in `lmkd.rc`; the old strategy after a
switch from the new one has no low level; the total of the kill counters is more
than their sum once they have run out.

## What is proved

**The reaper pool** (`ReaperProofs`, for every finite set of threads and any
processes, descriptors, pipe size and number of kills). `ReaperClient` keeps
`TypeOK`, `RequestNamesItsProcess`, `NoSharedDescriptor`, `NoLeakedDescriptor`,
`KilledWasAsked`, `CapacityKept` and `NoLostWakeup`. The assumptions are those of
`ReaperAssumption`: threads are finite, descriptors are natural numbers, the
special values are not processes or threads. The inductive invariant `IInv` is
the conjunction of these with three facts that make it inductive: a thread past
`dequeue_request` has a request (`BusyHasRequest`); inside `Reaper::kill` the
argument is a pidfd the caller owns (`CallTarget`); requests name processes that
were asked for (`RequestWasAsked`). The ownership part rests on two lemmas.
`FreeIsUnheld`: a number that is free in the table is held by nobody, so whoever
gets it is its only owner. `KeptExclusive`: a number a step does not hand to
anyone keeps its one owner. `CapacityKept` and `NoLostWakeup` relate the length
of the queue to the number of threads in a set of locations; `MoveThread` says how
that number changes when one thread moves.

**The watchdog and the records** (`WatchdogProofs`, for finitely many
processes and any levels, hash function and descriptors). `RingsStayLists`: every ring is the list it
represents in both directions. `FreedRecordsAreNotRead`: the watchdog follows
pointers to allocated records only, and no list holds a freed one, although the
hash chains are changed without the lock. Neither is inductive. The invariant
`Inv` says which records are in the rings, namely all but the one the main thread
is moving, inserting or about to free (`Lists`); that chains lead only to records
`pid_remove` has not begun with (`Chains`); and that the record `pid_lookup` is at
is not about to be freed (`Walk`), which holds since `proc_unslot` waits for the
lock between the unlinking and `free`. That `pid_remove` leaves no pointer at its
record needs the chains to be acyclic; `Acyclic` says so by a strict order that
contains the links, and `InsertAcyclic` and `RemoveAcyclic` give the order after a
change. `RingInsert` and `RingRemove` in `AdjListProofs` show that the pointers
written make the ring of the longer or shorter list. The assumptions are
`ProcTableAssumption`, `AdjListAssumption` and `WatchdogAssumption`: pids are
finite, every pid has a hash, and pids, levels and the special values are
different things.

**The kill decision** (`KillDecisionProofs`, for every threshold `update_props`
admits). `PerceptibleAreSpared` and `ThrashingIsForgotten`. The invariant adds
that a call begins without a reason, and that a call right after a kill has no
refaults to go by. Both rest on `RuleApplies`, by which the rule taken is one
whose condition holds. The ranges in `TypeOK`, which need facts about powers of
two, are model-checked only.

**The kill counters** (`KillCountProofs`, for any widths and any table size
that leaves `KILLCNT_INVALID_IDX` unused).
`CountersStayExact`: no two `oom_score_adj` values share a counter, and each
counter is the number of kills modulo its width.

Model-checked only: liveness (`RequestsSettle`, `WaitEnds`, `PollingEnds`,
`MainThreadReturns`, `ConnectionsServed`, `BiteEnds`, `HangIsAnswered`,
`MonitoredAfterBoot`), which is out of the prover's reach; the refinements; what
`find_victim` chooses, since `Back` is defined by recursion over the ring and its
meaning would need induction; the folds of `Monitors`, for the same reason; and
the properties of the other modules.

## Not modelled

* Kernels without `pidfd_open` on the kill path, where lmkd polls `/proc`.
* The arithmetic from `/proc` figures to comparisons (watermarks, swap
  utilization, PSI averages): the decision takes the comparisons as inputs.
* The ring buffer of the memory event listener and the reclaim timestamps.
* Packet layout, parsing of `/proc` files, logging, statistics, cgroup and
  priority calls, libpsi, the client library: I/O and formatting, that works or
  fails where the outcome matters.
* Vendor hooks, which do nothing by default, except that
  `lmkd_update_props_hook` may refuse (`Monitors`).
