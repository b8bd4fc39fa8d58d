# A verification project for UIUC-Code

UIUC-Code collects one student's programs for courses of the University of
Illinois. Most of its 19619 files are data, images, vendored headers and
notebooks. Its own concurrent and stateful logic is in `CS 341` (systems
programming, in C), and that is what this project models: TLA+ modules, TLC
configurations that check them on small instances, and proofs checked by TLAPS.

Contents: [inventory](#1-inventory), [modules and code](#2-the-modules-and-the-code),
[runs](#3-the-runs), [fairness](#4-fairness), [proofs](#5-the-proofs),
[what the code does not keep](#6-what-the-code-does-not-keep),
[not modelled](#7-not-modelled), [plan](#8-plan).
Paths are relative to the repository; `critical_concurrency/...` and the like are
under `CS 341/`. `PROJECT.json` maps every definition to its lines.

## 1. Inventory

### Modelled

| component | state | operations | who meets whom |
|---|---|---|---|
| `critical_concurrency/queue.c`: blocking queue | `head`, `tail`, `next`, `data`, `size`, `max_size`; mutex `m`, condition variable `cv` | `queue_create`, `queue_push`, `queue_pull`, `queue_destroy` | any number of pushers and pullers; all of them wait on the one `cv`. `parallel_make` and `password_cracker` use it |
| `critical_concurrency/barrier.c`: reusable barrier | `times_used`, `count`, `n_threads`; `mtx`, `cv` | `barrier_init`, `barrier_wait`, `barrier_destroy` | n threads, again and again; two waits on one `cv` |
| `critical_concurrency/semamore.c`: two-sided semaphore | `value`, `max_val`; mutex `m` | `semm_init`, `semm_wait`, `semm_post`, `semm_destroy` | waiters and posters; the value is read and written partly without `m` |
| `parallel_make/parmake.c`, graph part | dependency graph (read only), `all_rules`, `fresh_rules`, the waitlist; `visited_rules`, file times | `contains_cycle`/`DFS_verify`, `create_waitlist`/`find_children`, `run_target_threadless`/`DFS_run` | main alone, recursively |
| `parallel_make/parmake.c`, threads | `waiting_rules`, `queue_size`, `job_done`, `successful_rules`, `failed_rules`; `queue_mtx`, `queue_cond`, `verify_mtx`, `verify_cond` | `run_target`, `worker_thread`, the loop of `parmake` | main queues rules and waits for the root; workers pull rules, wait for children, run commands, broadcast |
| `charming_chatroom/server.c`, `utils.c`: chat server | `clients[]`, `clientsCount`, `threads[]`, `endSession`, `mutex`; the kernel's descriptors and connections | `run_server`, `process_client`, `write_to_clients`, `cleanup`, `close_server` (SIGINT) | main accepts, one thread per slot reads and broadcasts to all slots |
| `nonstop_networking/server.c`, `common.c`: file server | `clients[]`, `events[]`, per slot the header, the file's data, its size and the progress of the reply; the files' directory; `errno` | `run_server`, `process_client`, `server_get`, `server_put`, `server_list`, `server_delete`, `delete_directory` (SIGINT) | one thread, an edge-triggered epoll, any number of clients whose requests come piece by piece |
| `malloc/alloc.c`: allocator | `head`, `end`, `heap_size`, `free_head`, `free_total`; headers, tags and links in the heap itself | `malloc`, `calloc`, `free`, `realloc`; `find_next_fit`, `expand_heap`, `merge_*`, `init_old_block` | one program that calls them in any order |
| `password_cracker/cracker1.c`, `cracker2.c`: password cracker | `password_queue`, `qai`; mutexes `mtx`, `thread_assignment_mtx`; `strtok`'s static place | `start`, `run_thread`, `download`, `password_guesser` | main reads lines, queues them and "NULL", creates workers; the workers pull lines and all split them with `strtok` |

### What is hard about them, and what makes them correct

* **Queue.** One condition variable, two kinds of waiters, one `signal` per
  operation: the wakeup can go to the wrong kind. Correct means: the list keeps
  its shape under every interleaving and to its last `free`; items come out in the
  order they went in, once; never more than the limit; nobody sleeps for good
  while there is something to do.
* **Barrier.** A fast thread comes back for the next round while slow ones are
  still in this one; broadcasts for one wait wake the threads of the other; the
  count is reset by one thread and starts at 1. Correct means: nobody returns from
  round k before everybody has called it k times, and everybody returns.
* **Semamore.** A test without the lock, then an update without the lock, then a
  spin with the lock. Correct would mean: the value stays in `0..max_val` and
  whoever must wait gets through when the other side keeps calling. Section 6 says
  how far the code gets.
* **parmake.** Main changes `queue_size` and broadcasts without the workers' lock;
  workers record outcomes and broadcast without the waiters' lock; workers hold a
  rule while they wait for its children, so the order of the queue must exclude a
  circular wait; file times are read before the children are made. Correct means:
  dependencies first, no rule after a failed dependency, every target decided
  before the end, workers rejoined.
* **Chat server.** A thread closes its descriptor before it takes the lock to clear
  its slot, and the kernel hands the number to the next connection; two writes per
  message and receiver, each of which looks the descriptor up again; a write that
  blocks with the lock held; SIGINT at any time; `pthread_create` that fails after
  the slot was filled. Correct means: slots and count agree, whoever is in the room
  receives every message once and in the one order, nobody is cut off by somebody
  else's close, a departure is noticed, and the server ends.

* **File server.** A request stops wherever its bytes run out and goes on at a later
  event, others in between; events come once per arrival and say a slot's number that
  may be an old one; the file that is sent may be replaced or removed between two calls;
  `errno` of one call is read by another. Correct means: a slot is one client's and clean when
  it is given away; a reader gets one upload, not parts of two; nobody is told OK and then
  an error; nobody the server has accepted is forgotten. Section 6 says how far it gets.
* **Allocator.** Size, tag and links of a block are written by splits and merges of its
  neighbours; `realloc` frees a block and then copies from it. Correct means: the
  blocks tile the heap, the free list has exactly the free ones, no call writes into anybody's
  block, and `realloc` keeps the contents. Section 6 says how far it does.
* **Password cracker.** All threads get the address of one structure that main writes to
  again; a worker waits in `queue_pull` with `mtx` held; one "NULL" has to reach all
  workers; `strtok` keeps its place in one static variable for all threads. Correct
  means: every line goes to one worker and is freed once, the threads' numbers are their
  own, all are rejoined, and a worker guesses its own user's password.

`PROJECT.json` lists the hazards one by one, at their lines, with the properties
that watch them or the reason why none does.

### Not modelled

See [section 7](#7-not-modelled); `PROJECT.json` lists the components.

## 2. The modules and the code

```
Fifo  <------refines------ BoundedQueue      <-- BoundedQueueProofs
BarrierPromise <--refines-- Barrier          <-- BarrierProofs
                            Semamore         <-- SemamoreProofs
Makefile <----extends------ MakeTargets      <-- MCMakeTargets (TLC), ParmakeProofs
MakePromise <---refines---- Parmake          <-- MCParmake (TLC), ParmakeProofs
         (Parmake extends Makefile too; both MC modules use MakeRules)
                            ChatServer       <-- MCChatServer (TLC), ChatProofs
                            NonstopServer    <-- MCNonstopServer (TLC), NonstopProofs
AllocatorPromise <-refines- Heap             <-- MCHeap (TLC), HeapProofs
                            Cracker          <-- CrackerProofs
```

Each module has one action per operation, or per stretch of an operation between two
points where another thread can come in. In code that runs under a mutex such a
stretch reaches from `pthread_mutex_lock` to the next `pthread_cond_wait` or
`pthread_mutex_unlock`; in code that does not, every read and every write of shared
memory is a step of its own (`Load`/`Store`). A thread that waits on a condition
variable is in a set of sleepers (or at a place "asleep"); a signal takes one of
them out, a broadcast all of them, and a spurious wakeup any of them at any time.

A definition whose comment begins with "Mutant:" is a wrong version of the
definition that follows it. No specification uses it; putting it in the place of the right
one breaks the property that `PROJECT.json` names with it.

**BoundedQueue** (queue.c). `head`, `tail`, `next`, `data`, `size` are the
structure's and the nodes' fields, `allocated` the nodes not freed, `waiting` the
sleepers. `CallPush`/`CallPull` enter an operation, `PushWait`/`PullWait` are
the loop's body, `Push`/`Pull` the rest of the operation with its signal. `Destroy` is
`queue_destroy`, called after all threads have been joined (`Finish`), as its
callers do. `max_size` is the `ssize_t` argument modulo `SizeMod`, as its
assignment to a `size_t` makes it. **Fifo** is the abstract channel.

**Barrier** (barrier.c). `Enter` is a call up to the first point where it sleeps or
returns; `FirstAgain` and `SecondAgain` are the loops' tests after a wakeup.
`SecondPhase` is shared by the ways into the second half. `arrived` and `left` count
calls and returns and are what **BarrierPromise** speaks of.

**Semamore** (semamore.c). `Call` is the test without the lock, `Lock` and `Spin` the
slow path, `Load` and `Store` the two halves of `value--` and `value++`, `Store` with
the unlock of a caller that took the slow path.

**Makefile** is what the two parts of parmake share: the graph as a function from rules to
sequences of rules, the targets, the file times, `all_rules`, and the words for a graph
that the properties are about (`Below`, `Cyclic`, by paths).

**MakeTargets** is the sequential `parmake`: for one target after the other the cycle
check, then with threads the passes of `create_waitlist`, without them
`run_target_threadless`. Each of the three recursions is a loop over children that calls
itself, so each runs on one `stack` with a frame for each call that has not returned (the
node, the child its loop is at, its result so far), one step per call, per child that
needs none, and per return: `Verify...` is `DFS_verify`, `Pass...` `find_children`,
`Run...` `DFS_run`. Which commands fail, which write their file, and the file times are
arbitrary. **MakeRules** has `create_waitlist` in one go, as a recursive operator. Only the
MC modules use it: `EveryTargetQueued` says that the machine of MakeTargets ends with just
what this operator computes, and MCParmake gives it to Parmake.

**Parmake** is `parmake` with threads. Main is at `mainAt`, a worker at `at[w]`; the
names of the places are the steps of `run_target` and `worker_thread`.
`Load`/`Store` are main's `queue_size++` without the lock; `Take` is the worker's
`queue_size--`, which may write what the worker read at the test or read again, as
the compiler likes. `Decide` is the end of every path of a worker: the set
addition, the broadcast, and back to the queue. `Pull` uses the queue of
BoundedQueue through its promise (Fifo, no limit). The cycle check and
`create_waitlist` are CONSTANT operators, so that the module has no recursion and can
be proved about; `WaitlistAssumption` says what is assumed of the second, and
`CreatesWaitlists` proves of MakeTargets that each target's passes push just that. MCParmake
supplies MakeRules' operator, of which TLC evaluates the assumption for the run's graphs,
and `Cyclic` for the cycle check, as `VerifyFindsCycles` allows. **MakePromise** says what
a make promises.

**ChatServer** (server.c). `fds` is the kernel's table: whose connection is behind a
descriptor, `Nobody` when it is closed; accept returns the lowest free number.
`clients` has the descriptor of each slot. A broadcast holds `mutex` and goes from slot
to slot (`cursor`), first the size and then the body (`body`); every write looks up
`clients[cursor]` and then `fds`, so what the code does with a reused number is what
the model does. `Close` and `Clear` are the two halves of a thread's end. `Say`,
`Receive` and `HangUp` are the people; a connection holds `Capacity` pieces, and a
write waits for room with the mutex held. `Exit` ends the process (a failed `shutdown`,
or SIGPIPE, which nothing handles). `joinedAt` and `inherited` are history variables
that the properties need and no guard reads.

**NonstopServer** (server.c, common.c). Main's loop is at `at`: 0 in `epoll_wait`, else
the slot it has come to. `Wait` takes the events, of any size up to the array's and with
the rest of the array left as it was; `Accept`, `Skip` and `Process` are the loop's body
for one slot. `process_client` and the four `server_...` operators are the functions of
those names: each maps what the slot remembers, what has been read and what has been
written to the same after the call. A client's stream is a sequence of pieces (its
header, for PUT the size and the data, the end); `Arrived` says what
`read_all_from_socket` gets and `Room` what `write_all_to_socket` can write. `edge` has
the connections with an event to report: one per arrival, not per state. `Interrupt` is
SIGINT. `disturbed` is a history variable: the clients whose slot somebody else was put
into, which line 313 does when the event's index is that of a slot in use.

**Heap** (alloc.c). Memory is an array of units, each a header's part, a tag or a datum,
so that what the code overwrites is overwritten in the model, and what it reads back is
what is there. The functions are operators on the heap with the code's names. The
program fills what it gets and calls in any order. `Settled`, at the end of each call,
forgets what is left of dead data and headers; `StaleSize` is what `realloc` reads as
the old block's size after that memory has been handed out again. The list, the chain of
blocks and the doublings of `expand_heap` are recursive functions on addresses and sizes.
**AllocatorPromise**:
a block of its own for each pointer, and no call changes what another block holds.

**Cracker** (cracker1.c; cracker2.c is the same program). A token of a line is the
line's number and which part it is, so that a mixture shows. Each call of `strtok` that
goes on is two steps, `Load` of the static place and the `Split...` that uses it and
stores the new one; `Scan` is what `strtok` finds, which in a freed line may be
anything. `overlapped` is a history variable: the workers another one has come between.
The queue is that of BoundedQueue through its promise (Fifo, no limit).

## 3. The runs

| run | instance | distinct states | question |
|---|---|---|---|
| `queue` | 2 pushers, 2 pullers, 2 values, 2 nodes, limit 2 | 34281 | Is the list a bounded first-in first-out channel, to its destruction, and does the one condition variable keep it moving? |
| `barrier` | 4 threads, 3 rounds | 750 | Does the barrier keep its promise when it is used again, and does everybody return? |
| `semamore_pair` | 1 waiter, 1 poster, values 0..3 | 204 | What do the races leave intact with one thread on each side? |
| `make_targets` | all 512 graphs of 3 rules with all lists of 1 or 2 targets; 20 graphs with all file times 0..2 and all outcomes of commands | 485632 | Do the graph algorithms compute what they are for? |
| `parmake` | 2 workers, 2 graphs of 4 rules, 3 lists of targets, 2 sets of file times | 133610 | Do the threads keep the promise of a make, whatever their races? |
| `parmake_root` | 1 worker, a chain of 3 rules | violated | Does main notice that its target has been decided? |
| `chat` | 3 people, 2 slots, 2 messages, 1 of 2 people may leave | 182546 | Who receives what, and does everything come to an end? |
| `chat_whole` | the same | violated | Are messages received whole? |
| `nonstop` | 3 clients, 2 slots, 1 file, 4 mixtures of requests, connections that hold 3 pieces | 2339962 | Who gets which file, who gets an answer, and are slots reused clean? |
| `heap` | 3 blocks of sizes 1, 2 and 7, a heap of 11 units that can double once | 21516 | Do splits and merges keep the heap and the program's data? |
| `heap_realloc` | 2 blocks of sizes 1 to 3, 12 units that can double | violated | Does `realloc` preserve the contents? |
| `cracker` | 3 workers, 0 to 2 lines, room for 2 | 53535 | Who gets which line, whose token is guessed, and does the program end? |

**queue.** `ListShape`: the allocated nodes are one list from `head` to `tail`, as
long as `size`. `ImplementsFifo`: the list refines Fifo. `SleepersBounded`,
`NoStranding`, `NoMissedWakeup`: with at most twice as many threads as places a
signal to the wrong kind of waiter does no harm. `KeepsFlowing`: unless a thread stops,
pulls go on for ever. Bounds: 4 threads on 2 places is the largest balanced instance of its
kind; it has the full and the empty queue, waiters of both kinds at the same
time, and reuse of freed nodes (2 nodes for any number of pushes).

**barrier.** 3 rounds are one more than two rounds can overlap; 4 threads let two of them
be in each wait. `PhasesAgree` ties the counters to the places; `NoLostWakeup`
says that no sleeper sleeps through its own condition.

**semamore_pair.** With one thread on each side the races cannot take the value
out of its range (`InRange`), and the spin ends unless it blocks the other side
(`SpinEnds`). Values up to 3 let the value move between its limits.

**make_targets.** The graph algorithms against definitions by reachability:
`RefusesCycles` (exactly the targets above a cycle are refused), `ChildrenFirst` (the
queue has children before parents, also for later targets), `EveryTargetQueued` (the
loop of `create_waitlist` ends, with everything below the target queued, as MakeRules'
operator has it). For `DFS_run`:
`OnceAndInOrder` and `ResultIsTrue` (`FALSE` exactly when a command failed). Three rules
with every edge set, self-loops included, have every shape of cycle, diamond and chain
that two children per level allow, and a second target above, below, beside or equal to
the first.

**parmake.** `ImplementsMake`: the refinement of MakePromise; `WaitsForHeld` and
`HangsOnlyByRaces`: no circular wait. Several hangs are reachable in this run, and the
property names each one's cause: when all threads wait (`Halted`) and a rule is held, one
that holds a rule sleeps though its child is decided; when none is held, main sleeps though
its target is decided, a worker sleeps beside a queued rule, or one pulls from an empty
queue. All of these are missed broadcasts or a wrong `queue_size` (section 6); nothing else
hangs. `NeverWraps`: the unlocked counter never goes below 0. The graphs are a diamond,
and two rules over a shared one with a cyclic fourth; the target lists have one target, a cyclic one before a good one, and
one that an earlier target has made. Workers are interchangeable in the
specification and in these properties, so the run uses symmetry; it checks no liveness.

**chat.** Two slots for three people make somebody wait for a slot or be turned away, and
a departure with an arrival behind it has the descriptor reused; one
message each of two speakers lets broadcasts compete; a connection that holds one piece
makes every second write wait. `RoomIsRoom`: below the limit the search finds a
slot without a thread. `EveryMessageOnce`: whoever joined under a number that no slot
held any more receives all pieces since, once and in order. `NobodyCutOff`,
`LeavingIsNoticed`, `ServerEnds`: see section 1.

**nonstop.** The mixtures: two uploads of one file, one of which sends too much, with a
reader; a file read in two calls and deleted; a listing whose client may leave and a
header in two pieces; an upload of too little. Three clients on two slots make slots
reused and taken over; three pieces of room let a file of two be answered at once or in
two calls. `SlotsServed`: each connection is in one slot at most, an emptied slot is as
new, and an accepted connection has lost its slot only by line 313. `GetReturnsAPut`: a
reader gets just what one PUT has sent. `OneVerdict`: OK and an error only for a GET
whose file is deleted half sent. `NobodyForgotten`: at any time, an accepted
client that has sent all has been answered, has an event to be reported, or has its slot
still to come in this round, with three named exceptions (`Stuck`) in which the code moves
nothing on. In `epoll_wait` with nothing to report nobody else is therefore unanswered. In
the blocking `accept()` the server may sleep with somebody's event or turn still to come
(section 6): the model has that, and the property does not exclude it.

**heap.** Sizes 1 and 2 are rounded and split in different ways and 7 needs all of the
first heap or its growth; 22 units have it grow once and then refuse. Three blocks give
a block free neighbours on both sides, one, or none. `HeapTiled` and `FreeListExact` are
what header, tag, links and counters have to say together; `ImplementsAllocator` refines
the promise; `SpoiledOnlySlidingDown` says exactly when the contents of a block can be
lost: in its own `realloc`, when it moves down into a smaller free block. `heap_realloc`
shows that it happens. Deadlock is checked in both: the program can always call.

**cracker.** With room for two lines both ends of the reading loop happen, and the last
buffer's second `free`; three workers on two lines let two mix their lines and a third
meet "NULL". `EachLineOnce`, `OwnIds`, `SplitAlone` and `AllJoined` are the four parts
of section 1. Lines are well formed and solvable; a worker that gets none of its own
tokens may end the process.

Types are checked where a run says `TypeOK`, and proved for the queue, the barrier and the
semaphore, whose runs check their deeper invariants instead.

CHECK_DEADLOCK is FALSE in the other runs because every one of these programs ends, or, in
the case of the queue and the barrier, has callers that stop calling. Wrong
stops are what `NoStranding` and the liveness properties exclude; those of `parmake` do
occur, and `HangsOnlyByRaces` says which.

## 4. Fairness

* **queue**: weak fairness of each thread's steps. A thread that is awake inside an
  operation is scheduled again; one that is outside calls again unless it has
  returned for good. Nothing is promised of spurious wakeups, nor of which waiter a
  signal picks. A push or a pull needs no fair mutex here: the mutex is
  held within single steps only.
* **barrier**: weak fairness of each thread, which makes all its calls.
* **semamore**: weak fairness of each thread, which calls again and again: the
  program of the comments, in which the other side keeps coming.
* **make_targets**: one thread that does not stop.
* **parmake_root**: strong fairness of main and of each worker, stronger than what
  pthreads promise; that the property fails even so makes the run stronger. `parmake`
  assumes none.
* **chat**: weak fairness of main and of each thread, and the people who stay go on
  reading. Weak fairness is enough for the mutex because everybody has finitely many
  messages to send. That people read is no fact about the server:
  without it a single one blocks everybody, which section 6 says.
* **cracker**: weak fairness of main and of each worker: a thread that can go on does. Reading
  stdin is a file's reading, so lines come. A guess ends, because the lines are solvable.
* **nonstop**, **heap**: none, no liveness is claimed. `NobodyForgotten` is
  an invariant. That whoever has an event or a turn to come is answered in the end is not
  claimed and would not be true: `accept()` may block the loop.

## 5. The proofs

For every value of the constants, from the named assumptions of the modules
(`QueueAssumption`, `BarrierAssumption`, `SemamoreAssumption`, `ParmakeAssumption`,
`WorkersAssumption`, `WaitlistAssumption`, `ChatAssumption`, `NonstopAssumption`,
`CrackerAssumption`, `HeapAssumption`).

**BoundedQueueProofs.** Any finite sets of pushers and pullers, any limit, any nodes.
`ListInv` is `TypeOK`, `ListShape` and `Membership` (who sleeps is inside, who has
returned is not): `ListShape` alone does not survive `Pull`, which needs that the puller
is inside and the head a node. The positions of a list are unique (`ListUnique`, from
the least element of a set, LeastNumber), so `Contents` is a function of the state,
`PushExtends` and `PullShifts` say what an operation does to it, and
`QueueImplementsFifo` follows. `VisitsAll` shows that `queue_destroy` frees every node.
`BalancedSleepers` is the other half: that a queue with at most twice as many threads as
places never strands is not inductive, since a signal may wake the wrong kind;
`SleepersBounded` bounds the sleepers of each kind by the room left, is inductive, and
implies `NoStranding` (`BalancedNeverStrands`). With no more threads of either kind than
places it also says that an empty queue has no sleeping pusher and a full one no
sleeping puller (`OneKindSleeps`); then `NoMissedWakeup` is inductive
(`RoomyMissesNothing`). With one pusher or one puller, which is how `parallel_make` and
`password_cracker` use the queue, being balanced is enough (`OneSidedMissesNothing`): the
signal of the single thread can only wake the other kind, so unless none of them sleeps as
many are awake inside as there are places, or items (`PlacesCovered`, `ItemsCovered`). With
two threads on the smaller side it is not enough (section 6).

**BarrierProofs.** Any finite nonempty set of threads, any number of rounds. The
invariant is `TypeOK /\ PhasesAgree /\ NoLostWakeup`: the disjunction of `Gathering` and
`Releasing` inside `PhasesAgree` is the phase the code never writes down.
`BarrierImplementsPromise` follows from it step by step.

**ParmakeProofs.** Any number of workers, any graphs, targets, file times. `ControlInv`
has the types, the ownership of `queue_mtx` and where main can be when; `NoWrap` rests on it:
main only ever stores one more than what it read. `OrderInv` adds that what is held depends
on rules that are held or decided, and what is in line on rules further ahead: it
makes `WaitsForHeld` hold after `Pull` and `Plan`, which `WaitsForHeld` alone
cannot. `VerdictInv` says what a worker has seen when it gets to the commands, and
main when it gets to a target; `ParmakeImplementsMake` follows. All of it assumes
of `create_waitlist` what `WaitlistAssumption` says, which the second half of the module
proves of MakeTargets.

`OnlyRacesHang` (`HangsOnlyByRaces`) needs more: `Arranged` says that every nonempty set
of rules in `all_rules` has one without a dependency in the set, which each waitlist
keeps because it lists children first (the least position in the set,
LeastNumber). A least held rule then waits for nothing that is held, and by `OrderInv`
not for the queue either (`NoCircle`): if the worker that holds it waits all the same, its
child is decided and it has missed the broadcast. When no rule is held, `LateInv` (main's
target has been queued; no worker sleeps on `queue_cond` once `job_done` is set, none has
exited before) leaves the other causes. It needs a worker (`WorkersAssumption`).

The second half is about MakeTargets: any graphs, any targets, any file times and
outcomes. Since the recursions run on a stack, what would be an induction over calls is an
invariant of the stack, and the properties follow from three.

* `TargetsInv`, for `DFS_verify`: each frame is the child its caller's loop is at, what is
  called is below all that called it, and no rule has two frames. The grey vector is the
  stack, what is black has all it depends on black and is on no cycle, and the targets refused
  are the cyclic ones among those done (`VerifyFindsCycles`). A grey child closes a cycle,
  because the calls from it to the top are a path; a target whose exploration ends is below no
  cycle, because the black rules are closed under dependencies.
* `QueueInv`, for `find_children`: while the `children_full` of a frame is true, all the
  children its loop has passed are queued. Hence what is pushed has its dependencies before
  it, for all targets together (`QueuesChildrenFirst`); nothing is pushed twice but a later
  target (`QueuesAllBelow`), because no rule with a frame is in `all_rules`, the target's own
  excepted. That the target is the last one pushed gives `CreatesWaitlists`: wherever in the
  queue one takes its part to begin, that part has the target, and each rule behind those of
  its dependencies that were not queued before.
* `MakeInv`, for `DFS_run`: a rule whose commands have run has its dependencies visited and
  none of them on the stack (`RunsOnceAndInOrder`). A failure is kept by the result of a frame
  that is still open, although `DFS_run` answers `TRUE` for a rule it meets again: whoever met
  it first still has the `FALSE` (`ReportsFailures`).

Parmake's own assumption about its constants is hidden there: nothing about MakeTargets
rests on it.

**SemamoreProofs.** `TypeCorrect` for any threads, any limit. `PairInRange`: with one
waiter and one poster the value stays in range, from what each has seen at its place
(`PairInv`). With more threads on a side it is not true (section 6).

**ChatProofs.** Any people, slots and messages. `ChatInv` is `TypeOK` with `Owned` (an
open descriptor is that of one live thread, or of main while it lets somebody in; an
empty slot has no thread) and `Closing` (why a thread closes): two slots may name one
descriptor, but one of their threads at most is live. `RoomForWhoIsAdmitted` and
`NobodyIsCutOff` follow. For `EveryMessageOnce` there is also `Seated` (who was given a
number no slot held is named by one slot only), `Queueing` (the backlog has nobody
twice), `Sender` (who writes has the mutex) and `Heard`: what each person has heard is
what is `Due` at their slot, which depends on how far the one broadcast has come.

**NonstopProofs.** Any clients, requests, files, slots and capacities. One lemma per
function says that what it leaves `Fits`, given that what it starts from is `Called`:
nothing read that has not come, no more written than there is room for, and a slot whose
parts agree (`Coherent`). On that rest `Types`, `Progress` and `Seats`, and
`SlotsAreServed`.

The second half is about what clients are told. None of the three invariants is
inductive: none says how a slot's index, the data it holds and what has been read and
written belong together. `Tale` does, for a connection nobody has disturbed: nothing is
written before the command is known, of GET and LIST as much as the index says and no
less than one call can write, and of PUT and DELETE nothing until they end, while a
PUT's buffer is a prefix of what its client sends. Each function's second lemma says
that it `Tells` its connection no more than that and `Keeps` the files but for the one
its command names; `Answers` is what replies in parts share. `Holders` follows the
commands of connections that have lost their slot, which go on acting for the one that
took it. With these `Books`, `Stored` (a file is one PUT's data, or a disturbed one's),
`Seen` (who has been told OK has a PUT's data), `Lasting` (the file of a GET that goes
on is there unless a DELETE has been read) and `OneVerdict` are kept by every call
(`ServeStored` to `ServeVerdict`), and `VerdictIsOne` and `GetsReturnPuts` follow.
`Heard` says `NobodyForgotten` slot by slot: who has sent everything has an
event to report, a slot still to come, or is stuck; a call that goes on although
everything has come leaves the connection stuck, which only the shape of `Tale` shows.
`NobodyIsForgotten` follows. The proof needs that "ERROR" is no connection, which
`NonstopAssumption` says, since an error is told from data by its first part.

**HeapProofs.** Any names, any sizes, any `HEAP_INIT_SIZE` and `Limit`. What the two
invariants of the run say of `FreeChain` and `Blocks` is recursive; the proof speaks of a
set of blocks B and a set of free blocks F instead (`Shape`): B tiles the heap, F is its
free ones, and the links relate each free block to the next one in F and to the one
before. `ChainOf` and `BlocksAre` show that the two recursive functions then give F and B.
The invariant is `HeapInv`, three parts that need each other. `Whole`: the shape, and no
two free blocks are neighbours. `Owns`: the blocks in use are the program's, each with one
name and with the room asked for. `Quiet`: what the program's blocks hold is data or
nothing, never a header, a tag or a link left over; what `Settled` forgets would
otherwise depend on it.

Each function of alloc.c has a lemma that says what it makes of B and F, given only the
part of the shape that holds when the code calls it: `InsertIs`, `RemoveIs`, `MergeFreeIs`
(the predecessor and the block are both in the list), `OldIs` (split or taken whole),
`ExpandedIs`, `MallocIs`, `FreedIs` (neither neighbour, one, or both free), `WidenIs`,
`ReallocIs`. `free` puts the block into the list before it merges, so between its steps
two free blocks are neighbours: the lemmas allow it, and `FreedIs` shows that the end does
not. `ReallocIs` has to show that the `malloc` after the `free` cannot fail: the block
freed, merged or not, is in the list and large enough. `BlocksFillTheHeap` and
`FreeListIsExact` follow. For the refinement each lemma also says which cells are as
before (`SparedStays`): links and tags are written into headers, free blocks and the
block of the call only, so all other blocks keep what they hold (`OthersStay`); with
`BlocksDisjoint` this is `HeapKeepsItsPromise`.

The block of a `realloc` that is freed and allocated again is nobody's in between, so the
lemmas above say nothing of what it holds. `Held` does: the units behind a header that may
be one no longer are as they were. `FreedHolds` shows it of the merges in `free`;
`MallocHolds` of the `malloc` after it, if the free block in which the old units lie
starts there or has room for the new block before them; `ReallocCarries` adds that the
size read from the old header is the old size and that the copy is complete. The one case
left out is the slide down into a free block smaller than the new size, where it is false:
hence `OnlySlidingSpoils`.

**CrackerProofs.** Any numbers of threads, lines and places. `Numbers`: of all threads
only the one created last may still have to read its number. `Lines`: the lines pulled
and the queue together count up, and "NULL" is the last; who finds it leaves the queue
as it was, so all find it. `Buffers`: a pulled line has one worker or has been freed.
`Splits`: a worker nobody came between has its own line's parts, and `strtok`'s place is
behind its last one. `LinesHandedOutOnce`, `NumbersAreOwn` and `AloneSplitsRight`
follow.

**Only model-checked.** Liveness (`KeepsFlowing`, `AllReturn`, `SpinEnds`,
`EveryTargetQueued`, `LeavingIsNoticed`, `ServerEnds`, `AllJoined`), which the prover
does not do: among it that `create_waitlist`'s loop ends and agrees with the recursive
operator of MakeRules.

## 6. What the code does not keep

Three runs end with a counterexample; `PROJECT.json` quotes the lines they contradict.

* `parmake_root`: the broadcast comes without `verify_mtx`, between main's test and its
  wait; main sleeps for ever.
* `chat_whole`: a newcomer under a reused descriptor receives the body of a message without
  its size.
* `heap_realloc`: `realloc` to a smaller size frees the block, which merges it with the
  free one before it, and writes the new tag and header into the old contents before it
  copies them.

Met on the way, without a run of their own:

* Queue: with more threads than twice the places (1 pusher, 2 pullers, limit 1)
  `NoMissedWakeup` fails: a signal wakes the wrong kind of waiter and all sleep on,
  although the comments at `queue.c:105` and `:135` speak of a broadcast. It also fails
  for 4 pushers and 2 pullers on 3 places, where not all sleep for good.
* Semamore's `GetsThrough` fails with values 0..2: a waiter that saw 0 queues on the
  mutex; the poster posts up to the limit without it, then takes it and spins; neither
  moves again.
* `DFS_run` answers `TRUE` for a rule met before, so without threads the second rule above
  a failed one runs its commands; only the result of the whole is right.
* Semamore's `InRange` fails with two waiters: both pass the test at value 1.
* Parmake's `Rejoined` fails with two workers: main's `queue_size++` undoes a
  worker's `--`, the count stays above the queue, and a worker waits in `queue_pull`
  for ever.
* The broadcasts of `verify_cond` come without `verify_mtx` for the workers as for main: a
  worker that has found its child undecided and is not yet asleep sleeps through the child's
  outcome (`:271-275`, `:314`), and with it all the workers and main may sleep for good.
  `run_target`'s broadcast of `queue_cond` (`:215`) comes without `queue_mtx`, and is missed
  in the same way by a worker between `:233` and `:237`. The run `parmake` reaches all of
  these, and `HangsOnlyByRaces` says that there is no other way to hang.
* Parmake's `UpToDate` fails with two workers, `StaleChild` of MCParmake as `StartTimes`
  and rule 2 in `Writes`: rule 1's times are read before rule 2 is made again. `DFS_run`
  does the same.
* Chat server: SIGINT between the test of `endSession` and `accept` is noticed only at the
  next connection; a write to somebody who has left raises SIGPIPE, which ends the server;
  `run_server`'s local `serverSocket` hides the one that `cleanup` closes; after a failed
  `pthread_create` the slot stays taken for good; one person who stays and does not
  read blocks every join, departure and message.
* File server: an event's index decides the slot, so a connection accepted at the index
  of a slot in use takes it over (`server.c:296-313`, against the comment at
  `:194-196`), and the one displaced stays open and unserved; an entry of `events[]` that a
  call has not overwritten may still name the listening socket, and then `accept()` blocks
  the whole server when nobody is waiting (`:297`): with events c1, listener a second client
  c2 gets slot 2, and with c2, old listener c1's slot is served and c2, whose event has been
  used up, waits until a third client connects and takes its slot; an event of a client whose
  header has not come ends the server, since -1 is compared as a `size_t` (`:485`); a
  GET that goes on in a later call reads its file from the start into the middle of the
  buffer (`common.c:91-99`); LIST is refused when any call before has left `errno`
  (`:834`), and the directory stays for the same reason (`:1104`); a PUT of size 0 is
  never finished, and a reply longer than one call's room goes on only at somebody
  else's event; a PUT whose data comes after its size is refused as too little
  (`:698-704`); a write to a client who has left raises SIGPIPE; LIST of an empty
  directory writes in front of its buffer (`:838`).
* Password cracker: two workers in `strtok` mix their lines, read freed ones, and may end the
  process; with 10000 lines or more main frees the last line a second time.

## 7. Not modelled

* Within the modelled components: wording and logging, the calls before the servers' and
  threads' loops that exit on failure, `barrier_destroy` and `semm_destroy` (they
  release what the models have no state for), what a chat message says, a
  chat message of size 0, which ends its sender's connection (`:212`), a failed `accept()`
  of the chat server, which exits (`:146`), the race inside
  the set library of parmake (it is not in the repository; additions are taken as
  atomic). Of the file server: malformed headers, errors of the file system and of
  `accept()`, and SIGINT in the middle of a slot's turn (`Interrupt` comes between
  two slots, or while the server waits in `epoll_wait` or `accept()`); its
  client is part of the environment (it connects, sends, reads, may leave). Of the
  allocator: the zeroes of `calloc`, sizes so large that their sum with header and tags
  overflows, and a first `sbrk` that fails: `init_head` (`:326`) does not look at its
  result and goes on. Of the
  cracker: malformed and unsolvable lines (a fully unknown password or an empty line
  gives `strlen(NULL)`, an unsolvable one exits through `incrementString`), and the
  guesses themselves, which are one step.
* `savvy_scheduler`, `mapreduce`: planned.
* `shell`, `teaching_threads`, `ideal_indirection`, `vector`: candidates after these.
* `critical_concurrency/rendezvous*.c`, `deadlock_demolition/libdrm.c`: templates, or a
  solution that does not compile.
* `finding_filesystems`, `mini_memcheck` and the small sequential programs of CS 341:
  input, output and a list.
* The other courses: exercises on images and containers (CS 128, CS 225), a web
  application (CS 222), assembly for a simulated robot (CS 233), written homework (CS
  374), interpreters in Haskell (CS 421), learning and analysis exercises in Python (CS
  440, CS 477).

## 8. Plan

All of the first plan has been carried out but its last two modules. Left, in this order:

1. **Scheduler**: `savvy_scheduler/libscheduler.c`, the six orders and the starvation under
   round robin (`:125`); **MapReduce**: processes and pipes of bounded capacity (`:101`).
2. Proofs: exactly which numbers of threads and places `NoMissedWakeup` holds for.
3. `shell.c`'s processes and SIGINT, and `ideal_indirection/mmu.c` as a refinement of
   address translation.
