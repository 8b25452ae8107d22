# TLA+ models of Eskiu

Eskiu is a systems language: a C++ compiler (`lexer/`, `parser/`, `ast/`, `sema/`,
`codegen/`, `main.cpp`, `repl.cpp`, `pkg.cpp`), a self-hosted compiler (`selfhost/`), a
standard library written in the language (`stdlib/`), and a small bare-metal kernel
(`kernel/`). This directory holds TLA+ models of two halves of it, TLC configurations that
check them, and proofs checked by TLAPS:

- the asynchronous runtime (executor, event loop, futures, combinators, channels, the
  frames of `async` functions), whose correctness depends on the order of events;
- the compiler `eskiuc` (`Toolchain.tla` and its parts), from the packages on disk and the
  prompt's session to the passes: what each computes, held against what the language
  manual, C, or the other passes that compute the same thing say.

Run everything from this directory:

    tlc -config MCExecutor.cfg MCExecutor.tla     # any MC module with its cfg
    tlapm ExecutorProofs.tla                      # any *Proofs module

## 1. Inventory

| component | source | state it keeps | operations | who it talks to |
|---|---|---|---|---|
| executor | `stdlib/executor.esk` | list of wakers, `signaled`, lock, self-pipe | schedule (any thread), drain, run, stop, free | event loop (pipe readable), futures (wakers) |
| event loop | `stdlib/eventloop.esk` | slot per fd (callback, active, gen), timer table, kernel interest set | add_read/add_write, del, del_free, add_timer, del_timer, run, stop, free | every leaf future registers a callback here |
| future | `stdlib/future.esk` | atomic state, waker, on_drop, value | poll, complete (any thread), drop (any thread), spawn, free | producer and awaiter |
| combinators | `stdlib/future.esk`, `stdlib/futureval.esk` | result future, two inputs, counter | select2, join2, select2v, join2v | futures |
| leaf futures | `stdlib/timer.esk`, `stdlib/net_async.esk` | a registration and a future | timer_after, net_read_async, ... | event loop, future |
| channel | `stdlib/channel.esk` | ring buffer, one parked receiver | new, send, recv, free | future |
| coroutine frames | `sema/async_transform.cpp` | frame: state, awaited future, pending cleanups | resume, cascade drop, detached cleanup | future |
| semaphore | `stdlib/threading.esk` | count under a mutex and a condition variable | post, wait, try_wait | threads |
| HTTP/2 server engine | `stdlib/http2_server.esk` | stream slots, flow-control windows, out buffer | feed frames, pump, respond, goaway, timers | socket driver |
| HTTP server | `stdlib/http_async.esk`, `stdlib/http.esk` | open connections, wait-group | accept loop, drain | futures, channel, event loop |
| HPACK | `stdlib/hpack.esk` | dynamic table, size | encode, decode, resize | HTTP/2 |
| allocators | `stdlib/alloc.esk`, `stdlib/sysheap.esk` | arena, free lists | Bump, Arena, Pool, FirstFit | every container |
| containers | `stdlib/map.esk`, `stdlib/list.esk` | open-addressing table, growable array | set/get/del/grow | programs |
| kernel scheduler | `kernel/sched.esk`, `kernel/trap.esk` | task table, current task, interrupt mask | spawn, schedule, join, preempt | timer interrupt |
| kernel devices | `kernel/` (UART, console, allocator) | device registers | put, get | |
| packages | `pkg.cpp` | manifest, lock file, mirrors, checkouts, all on disk | new, add, fetch, build (run, test) | git, the drivers |
| compiler front end | `lexer/`, `parser/`, `ast/`, `sema/` | macro table and conditional stack; parser position and known names; facts at a program point; the states of an `async` body | preprocess and expand; fold constants; parse and recover; check; transform `async`; fold sizes | drivers (files), code generator (AST) |
| code generator | `codegen/` | current block, cleanup scopes, jump targets, landing pads; struct slots | statements, throw and catch, layout of types, C signatures, calls and callbacks | LLVM |
| self-hosted compiler | `selfhost/` | the same passes in Eskiu | | |
| drivers | `main.cpp`, `repl.cpp` | the prompt's pending lines; the session's declarations, versions and JIT symbols | compile, run, read a line, run an input, reset, format, serve an editor | packages, front end, generator |
| network and processes | `stdlib/net.esk`, `process.esk`, ... | handles | wrappers of the operating system | event loop |
| text and data | `stdlib/json.esk`, `csv.esk`, `regex.esk`, `string.esk`, ... | parser positions | pure functions | |
| docs, site, editor and playground | `docs/`, `site/`, ... | none of the system's | | |

### How the parts interact

A program calls an `async` function. The constructor that the compiler generates
(`sema/async_transform.cpp`) allocates a frame whose first field is the function's
future, runs the body up to its first suspending `await` and returns. An `await` polls a
future (`Future_poll`): it either takes the value at once or parks, leaving a closure (the
*waker*) in the future. A leaf future (`timer_after`, `net_read_async`, `Chan_recv`) is
completed by a callback that the event loop runs, or by another thread that schedules the
resume on the home executor. `Future_complete` publishes the value and runs the waker,
which resumes the frame, which may complete its own future, and so on, nested inside one
callback. Cancelling is the reverse path: `Future_drop` marks the future, calls its
`on_drop` hook (deregister a leaf; cascade from a frame or a combinator to what it awaits)
and frees the memory.

Nothing in the runtime is reference counted. Each heap block (future, frame, waker env,
hook env, callback env, counter) is freed by hand at exactly one place, and which place that
is depends on the order of completion, drop and resume. That, with the two places where
threads meet (the executor's queue and the future's state word), is what is hard there.

`eskiuc` is started for one thing: a package command, the prompt, or a compilation
(`compilerMain`). A package command resolves the manifest, pins commits in the lock and
checks them out of mirrors on disk, then compiles. A compilation reads the files through
the preprocessor, which imports others at their line; parses; checks; rewrites `async`
functions to state machines; and emits LLVM. The prompt collects lines to an input,
compiles each with everything the session has declared, and links it to the JIT's symbols.

Little in the compiler is concurrent. It is hard for other reasons: state on a disk that a
crash may cut anywhere; a session whose compiled code outlives the declarations it was
compiled from; and facts computed several times over, by passes that were written apart and
must agree (the value of a constant in four places, the size of a type in two, a cleanup's
order in the block it leaves and in the `async` state it is cut into, an argument's place on
both sides of a C call).

### What is hard, and where the properties look

| behaviour | components | properties |
|---|---|---|
| threads interleave on a lock, a flag and a pipe | executor | `NoLostWake`, `PipeSound`, `ImplementsWakerQueue` |
| two compare-and-swaps race a poll and a drop | future | `HandedOver`, `NoTouchAfterFree` |
| callbacks change the tables of the loop that is calling them | event loop | `EnvsOwned`, `KernelAgrees` |
| identifiers outlive what they name | event loop timers | `CancelledByOwner` |
| completion, drop and resume nest on one call stack | combinators, coroutine frames | `NoUseAfterFree`, `NoLeak`, `Settled`, `Released` |
| a cancelled task goes on running to clean up | coroutine frames | `EventuallyFreed`, `NoCompletionAfterDrop` |
| re-entry through a completed receiver | channel | `NoStranded`, `NoDangling`, `ImplementsMailbox` |
| something must happen in the end | runtime | `EventuallyRun`, `EventuallyStops`, `EventuallyFinal`, `TimerFires`, `EventuallyReleased`, `EventuallyFreed` |
| a crash between any two steps on the disk, a refused write | packages | `CacheComplete`, `CrashesHeal` |
| remotes move between commands | packages | `LockPins`, `LockCloses`, `FailureChangesNothing`, `PinnedBuilds` |
| compiled code outlives its declarations | prompt | `LinkedToLatest`, `LayoutAgrees`, `StateKept` |
| an input ends only if the next line does not go on with it | prompt | `InputsAsWritten` |
| imports, conditionals and macros decide about each other | text pass | `PreprocessedAsC` |
| integers at the limits of their types, computed four times | constants | `ConstantsAsC` |
| one text, two readings, decided by names and context | parser | `ParsesAsWritten` |
| every exit of a block runs its cleanups, once, in order | code generator, async transform | `CleanupsAsWritten`, `EmissionEnds`, `AsyncAsWritten` |
| a throw finds the innermost handler through cleanups | code generator | `CaughtByInnermost` |
| what is known is joined over branches, loops, jumps, handlers | flow checks | `CheckerSound` |
| bitfields, packing, unions and sum types on six targets | layout | `FieldsAsC` |
| the last registers of a call | C ABI | `PassedAsC` |

## 2. Modules

    WakerQueue <--- Executor <--- ExecutorProofs      Mailbox <--- Channel <--- ChannelProofs
                       ^                                              (also the MC module)
                    MCExecutor
    Future <--- FutureProofs      EventLoop <--- EventLoopProofs
       ^                              ^
    MCFuture                      MCEventLoop
    Combinators <--- CombinatorsProofs                Coroutine <--- CoroutineProofs
       ^                                                 ^
    MCCombinators                                     MCCoroutine

    Toolchain <--- MCToolchain (and the families of inputs: MCDrivers, MCPreprocessor,
      |                         MCSyntax, MCCompiled, MCAsync, MCLayout)
      |-- Packages <--- PackagesProofs        disk: commands, faults, remotes
      |-- LineReader, Repl <--- ReplProofs    the prompt
      |-- Preprocessor                        conditionals and imports
      |-- Macros <--- Constants               expansion, integer constants
      |-- Syntax, Grammar                     the parser, and the text of a tree
      |-- Lowering, FlowChecks <--- Compiled  checks, emitted blocks, execution
      |-- AsyncLowering <--- AsyncRuns        the async transform, and what its states do
      '-- Layout <--- LaidOut <--- CAbi <--- CCalls    memory layout, C calls

`A <--- B`: B extends A, or instantiates it for the refinement. The runtime's components share the
future, each at the level its own questions need: `Future.tla` has every access to the
header as a step; `Combinators.tla` and `Coroutine.tla` run on one thread, where poll,
complete and drop are atomic up to the callbacks they make, and track every heap block;
`Channel.tla` keeps of a future only whether it is parked, ready or gone. That each
coarser view is right on one thread is what `Future.tla` shows for home-loop producers
(its producers outside `Foreign`).

### 2.1 Executor (`Executor.tla`, abstract `WakerQueue.tla`)

Source: `stdlib/executor.esk`. State: the list (`queue`), `signaled`, the owner of
`ex.lock`, the bytes in the self-pipe, `lp.running`, and per thread where it is in
`Executor_schedule`. `Executor_schedule` is five actions, one for each access to shared state
(call, `ScheduleLock`, `ScheduleLink`, `ScheduleSignal`, `ScheduleSend`); `_ex_drain` is
`Wake`, `DrainRecv`, `DrainLock`, `DrainTake`, `DrainClear` and then the batch, waker by
waker. Wakers, other callbacks of the loop and the main program may all schedule and stop.
`linked`, `ran` and `dropped` are histories.

The abstract `WakerQueue.tla` is a FIFO of wakers with no lock, flag or pipe;
`ImplementsWakerQueue` maps its queue to `batch \o queue`.

Fairness: weak on the loop thread's steps and on each thread inside `Executor_schedule`,
strong on taking `ex.lock`. The lock is a pthread mutex held for a few instructions, so a
thread that keeps asking gets it; with weak fairness only, a thread could be overtaken for
ever and the model would report a liveness failure the program does not have. No call is
ever required to be made.

Bounds (`executor`): two foreign threads and the loop thread, four wakers, a pipe of two
bytes. Two foreign threads are enough for the race on `signaled` (one links while the
other sends while the loop drains); the fourth waker lets a second batch form while the
first runs; the pipe has room for two bytes so that "at most one byte" (`OneToken`, a part of
`PipeSound`) does not hold for want of space.

Proved (`ExecutorProofs.tla`), for any threads, wakers and pipe capacity: `TypeOK`,
`LockHeld`, `OneToken`, `NoLostWake`, `RecvNeverBlocks`, `Fifo`, `ImplementsWakerQueue`.
`PipeSound` is the conjunction of `TypeOK`, `LockHeld`, `OneToken` and `RecvNeverBlocks`. The
first five are conjuncts of one inductive invariant `IInv`; none is inductive alone,
since `NoLostWake` needs the token, the token needs mutual exclusion, and mutual exclusion
needs to know where the loop thread may call the executor (`Control`). Order needs the
extra fact (`OrderInv`) that a batch is empty when the next one is taken and that nothing
is linked after `Executor_free`. The refinement then goes action by action: linking,
starting a waker and freeing map to abstract steps, everything else to a stutter.

### 2.2 Future (`Future.tla`)

Source: `stdlib/future.esk`, `Future_poll`, `Future_complete`, `Future_drop`,
`Future_free`. Every load, store and compare-and-swap on the header is a step. A producer
is either a callback of the home loop (`Producers \ Foreign`: it cannot run while the home
thread is inside another call, and `on_drop` deregisters it) or a thread of its own
(`Foreign`: its waker queues the resume on the home executor, and `on_drop` cannot stop
it). `taken` and `resumes` are histories.

Fairness: calls that have begun finish, queued resumes run, and each producer does
complete its future. The last is the assumption under which "an awaiter is resumed" makes
sense; nothing makes the owner poll or drop.

Bounds (`future`): three futures, two of them completed by loop callbacks and droppable,
one completed by a thread. Futures do not share state except through the home thread, so
two of one kind and one of the other show every interference there is.

`future_race` is a disagreement (section 3): a future that another thread completes is
dropped.

Proved (`FutureProofs.tla`), for any futures and producers under `Discipline` (one
completion per future; a future a foreign thread completes is not dropped): `TypeOK`,
`HandedOver` (its parts are `NoLostResume`, `ResumedOnce` and `TakesTheValue`), `NoTouchAfterFree`. The inductive invariant
ties each producer's program counter to the future's state (`ProducerInv`) and each
owner's to the state, the value and the number of resumes (`OwnerInv`).

### 2.3 Event loop (`EventLoop.tla`)

Source: `stdlib/eventloop.esk`, epoll backend. State: the slot table (callback, `active`,
`gen`, mode), the kernel's interest set, level-triggered readiness, the timer table with
its doubling, and the position of `EventLoop_run`: test, wait, batch, callback, timer
scan, timer callback. While a callback or a timer runs (or before and after the run), the
program may do anything the interface allows: add or replace for reading or writing,
deregister, arm, cancel, stop. `freed` counts the frees of each callback env.
`_el_wait`'s narrowing of the timeout to a 32-bit int is modelled with a width (`IntMax`).
Descriptors are closed and reused: readiness may change at any time, and a new
registration of the same descriptor is a new closure.

Fairness: the loop thread runs, callbacks return, time passes.

Bounds (`eventloop`): two descriptors, two callback envs, a clock of two instants, a timer
table that starts with one slot. Two envs and two descriptors are what a replacement, or a
deregistration by another descriptor's callback in the same batch, needs; one slot makes
the table grow with the second timer, also during the scan. The clock goes no further than
the distinction between a deadline in the past and one in the future.

Constants that name restrictions on the program: `Replace` (may a callback replace a
registration it has itself made on its own descriptor?) and `StaleCancel` (may a timer be
cancelled after it fired?). Both are `FALSE` in the passing run; section 3 says what happens
otherwise.

Proved (`EventLoopProofs.tla`), for any descriptors, envs, clock and table size, with both
restrictions: `EnvsOwned` and `KernelAgrees`. `FreedOnce` and `NoLeak` are the two halves of
`EnvsOwned`, one ownership statement: each registered env that is not freed has exactly one owner, a
slot, a timer or the call in progress. The inductive invariant (`Ownership` with `Owners`,
`Kept` and `Call`) states it, and `Call` adds what `gen` is for: while a callback runs, its
env is installed on its descriptor exactly if the generation has not moved.

### 2.4 Combinators (`Combinators.tla`)

Source: `select2`, `join2` and `_spawn_hdr` of `stdlib/future.esk`, `select2v` and `join2v`
of `stdlib/futureval.esk`, over leaves that the loop completes. Control is kept as an
explicit call stack (`todo`): an operation pushes the operations it calls, so that a waker
that drops a loser, completes its result, resumes the awaiter and only then frees its own
env does so in that order. `live` is the set of allocated blocks and `Uses` says which
blocks each operation reads or frees; `NoUseAfterFree` says that an operation finds them
all allocated, which covers double frees as well.

The program builds, awaits, spawns and drops what it owns between callbacks, in any order. The
result of a combinator may be the input of another. `Cleanup` gives a leaf's `on_drop` something
to do beyond deregistering (none in the passing run).

What an awaiter frees follows what it was given: the two inputs of a join, a select2's
winner, nothing of a select2v. It takes a result by `Settle`, which goes on to the result's own
inputs: an awaited `join2` over a `select2` leaves the winner of that select2 to the same awaiter.
`taken` remembers which results were taken.

Nobody takes the result of a combinator that is spawned, or is dropped after it has resolved, by the
program or by the cascade of the combinator above it: the code frees that one future, and what its
owner was to free is lost (section 3). The model does the same. `Forgotten` says which combinators
went that way and `Orphans` what they leave, with what those leave in turn; `NoLeak` allows orphans
that have resolved, with their `on_drop`, and no other block: no env of a waker, no counter, no future that
still waits, and nothing of a tree in which no combinator went that way.

Fairness: calls return, and each registered leaf fires. `EventuallyReleased` is stated of
what the program awaits or spawned.

Bounds (`combinators`): three leaves under two combinators, nested in both positions, all
sixteen pairs of kinds. Two levels are needed for a drop cascade to pass through a
combinator and for a resolution to run a second resolution inside it; deeper trees repeat
the same pairs of neighbours.

Assumed, by name in the module: a combinator is built from two futures that were there before
it, so that in any set of combinators one was built first and one last (`TreesAssumption`), and
the empty closure is no block (`NopAssumption`).

Proved (`CombinatorsProofs.tla`), for any leaves and any nesting of any number of combinators:
`NoUseAfterFree`, `NoLeak` and `Settled`, under `Discipline`: no on_drop completes another leaf, without
which `NoUseAfterFree` fails, as `combinators_cleanup` shows. Nothing else is asked of the program. The
invariant `IInv` has to hold between any two operations of the call stack, in the middle of a waker that has dropped one input and not yet resolved
its combinator:

- `Ordered`: what may lie below what. A waker or a completion runs above nothing but frees of closures,
  and no two operations on the stack free, drop or settle the same thing.
- `OneOf`: a closure, a counter or a registration is allocated exactly while it has a purpose (it is hooked
  on an input that waits, say) or a free of it is on the stack, and never both.
- `OwnerOK`: whatever is allocated, or has resolved and was not taken, is held by the program, by an
  awaiter, by an operation on the stack or by a combinator, a forgotten one included (`Holder`), and `OpenOK` and `FullOK`
  say what a combinator holds before and after it resolves.
- `Doomed`: a drop reaches only futures of which nothing is left to run. This is what fails when an
  on_drop completes another input.
- `ReasonOK`: a combinator that resolved did so because of inputs that did.

A step changes one future, or a combinator and its two inputs. The rest of the tree sees each changed
future either as it was or as gone for good (`Faint`), and `StepFrame` carries the invariant over for
it. `NoLeak` and `Settled` follow from the invariant with an empty stack: a live future that is no orphan,
or a result nobody took, would be held by a combinator that is live or untaken too, and there is no last
one built; and of the combinators that wait although their inputs resolved there would be a first one.

### 2.5 Channel (`Channel.tla`, abstract `Mailbox.tla`)

Source: `stdlib/channel.esk`. State: the ring (`buf`, `head`, `count`; the tail is computed
from them, as the index of the next free cell), the parked receiver, whether the channel
is alive, and for each future returned by `Chan_recv` whether it is parked, ready, taken or
dropped and whether its hook refers to the channel. A send to a parked receiver is two
actions, `HandOver` and `SendReturn`: between them the resumed awaiter may send, receive or
free the channel, and such calls nest (`calls`).

`Mailbox.tla` is a bounded queue with at most one waiting receive; `ImplementsMailbox` maps
its queue to the cells from `head`, in order.

Bounds (`channel`): capacity two, four sends, four receives: a full turn of the ring and a
second lap, with a receive to spare. The program keeps to one outstanding receive, as
the comment on `Chan_recv` asks (`channel.esk:60-63`).

Proved (`ChannelProofs.tla`), for any capacity (zero included), receives and number of
sends: `TypeOK`, `NoStranded`, `NoDangling`, `InOrder`, `ImplementsMailbox`. The invariant adds
`Contents` (which values are in the ring, in which cells, and that the earlier ones are
each held by exactly one receive) and `Unresolved`; the refinement rests on two lemmas about
the ring read as a sequence, one for a send and one for a receive.

### 2.6 Coroutine frames (`Coroutine.tla`)

Source: the lowering of an `async` function in `sema/async_transform.cpp`, over
`Future_poll`, `Future_complete`, `Future_drop` and `_spawn_hdr`. A task is a body with one
await (of a leaf or of another task) under a list of pending cleanups (defers and finally
blocks), each of which either runs through or awaits a leaf. `k` is the frame's state
number, seen as the cleanups still to do. The call stack is explicit, as in 2.4. A plain
cleanup runs arbitrary program code (`user` on the stack): it may drop, spawn or complete
other tasks. `CallTask`, `Poll`, `Extract`, `Run`, `Finish` and `Publish` are the normal path;
`Future_drop`, `Cascade`, `Cleanup`, `Release` and `End` the cancelled one, with the states
DETACHED, ORPHANED and CLEANED by which `Future_drop` and a cleanup that awaits agree on who
frees the frame.

Fairness: weak on the call stack; strong on the return of a plain cleanup and on the
completion of each registered leaf. Inside a cleanup both "return" and "the program calls
something else" are possible, and a completed leaf may be awaited again by the next
cleanup, so weak fairness would allow a run in which the program stays in the cleanup for
ever, or in which one leaf's completions always overtake the other's; the loop, which
serves every ready descriptor of a batch, does neither.

Bounds (`coroutine`): a task that awaits a task that awaits a leaf, a second task, and
every mix of up to two cleanups per task, plain and awaiting. Two levels are needed for
the cascade, and two cleanups for a drop in the middle of one with another still pending;
a cleanup list mixes the two kinds in both orders.

Left out: exceptions (and the regions and handlers around each state), branches and loops
between awaits, and the hoisting of locals. They change which statement runs next, not who
frees what, except for one hazard listed in section 3.

Assumed, by name in the module: a node stands for one call, so it is awaited at one place, or
called by the program if it is a root, and no task awaits itself through others
(`ForestAssumption`); the null closure is no block (`NullAssumption`). The code gives each call a
frame and a future of its own, and a frame is allocated before what it awaits.

Proved (`CoroutineProofs.tla`), for any forest of tasks, any number of cleanups and any nesting:
`NoUseAfterFree`, `Released` (every cleanup once and in order before the frame goes, no leak) and
`NoCompletionAfterDrop`. `NoUseAfterFree` is about the head of the call stack only, so
`IInv` has to say what the operations below it will still find. It has three parts. `Ordered` says which
operation may be above which: a frame has at most one operation that runs it on the stack, and only
one of `Beneath` waits for another. Then, for each task and each node, which of
its blocks are live is tied to what the stack still owes it (a resume closure is live as long as
an await is parked or its extract is due; a hook until its release; a frame
until its `release`, its `end` or its awaiter's `extract`), so that each block has one operation that frees it. The
links (`awaiting` and the state of the awaited future, the owner of each node) say that a
completion finds its awaiter and a drop its awaited future. An action changes one task, one
node, or a task and what it awaits: `Concluded` is the frame lemma that carries the rest of the forest
over, and each action's lemma only argues about the nodes it touches. `NoLeak` is the one place that
needs the forest to be well founded: with the stack empty and the program holding
nothing, a live frame would be awaited by a live frame, for ever.

### 2.7 Toolchain (`Toolchain.tla`)

Source: `compilerMain` (`main.cpp`), which runs one of the parts below. A behaviour is one
invocation in one part; meanwhile the other parts stand still, with a new disk, no lines, a blank
session, or `Off`. The parts that have state of their own between steps (packages, reader,
session, text pass, function) are state machines, extended or instantiated with their variables;
the parts that only compute are one action, `RunPass`, that takes a job to its `Output`.
The properties of packages, reader and session are those of their modules, so that what the
run checks of them is what is proved of them. The properties of the parts that check the same
promise are put together here: `PreprocessedAsC` is about lines and about expansion,
`ConstantsAsC` about `#if` and about the other three readers, `CheckerSound` about the three flow
checks, `FieldsAsC` about declarations and sum types.

No fairness is assumed and no liveness is checked: each part is a sequential program that
may be stopped, and that a pass ends at all is a safety property where it is in doubt
(`EmissionEnds`). The bounds of each part are families of inputs in a module `MC<Part>`, given
under each part; they are families and not one small set because the inputs are programs,
and what matters is that each pair of neighbouring constructs occurs in every role.

### 2.8 Packages (`Packages.tla`)

Source: `pkg.cpp`. State: the manifest, the lock, a mirror per package, the `COMMIT.tmp` and
`COMMIT` directories, and the command that runs (`proc`: its queue, the entries done, the
revisions resolved, the mirrors refreshed). `Start` and `StartAdd` begin a command;
`WriteManifest`, `Resolve`, `Checkout`, `Clone`, `FillFiles`, `Rename`, `OpenLock` and `Done` are its steps
on the disk, each of them the last one before a `Crash` may cut what was being written. A git
command may fail, and the disk may refuse a write (`Fault`): of the manifest or the lock when it is
opened or half way through, reported or, because `writeText` looks at its stream before the stream is
flushed (`pkg.cpp:229-234`), unnoticed; and of the old manifest that a failed `add` puts back
(`FailsWith`), which the code does not look at. What a cut file holds is `Cut` for the manifest and
`CutLocks` for the lock: the first entries in the order of names (`Rank`), and then nothing, a line that
does not read, or an entry whose commit is cut short, which `readLock` accepts (`Stubs`). `last` says how a
command ended: "unwritten" and "unrestored" are reported refusals, "lost" is an exit with success under a
lock that is not whole. Between commands the remotes move on (`Push`), the package is taken
to another machine without its cache (`NewMachine`), the user repairs a manifest cut short.
git is external: a mirror is its URL, the branch its HEAD names, the revisions and the commits it has.
A clone gives it the remote's HEAD; a fetch renews branches and tags only (`Fetched`, `Seen`), so a mirror
whose clone was cut short (`CutClones`) goes on naming the branch `git init` gave it, which the remote may
have or not. The remote's HEAD stays on the same branch, called HEAD here, and that branch moves.

Bounds: packages `a`, `b` and a local one, two of them at two commits, one of them at two URLs; a
branch that moves once; three commands and one fault, a crash or a refused write, and four commands
without faults for `packages_pinned`. Three commands are add, a fault in the second, and a later
build, add or fetch over what it left, with the remotes moved in between and perhaps on a new machine. What
needs more, two faults on top of each other, is covered by the proofs, which bound neither.

Proved (`PackagesProofs.tla`), for any packages, remotes, manifests and numbers of commands and
faults: `CacheComplete`, `LockCloses`, `LockPins` and `FailureChangesNothing`. The one assumption
is `WellFormed`, which the run evaluates: the remotes name commits that have a manifest, and a
dependency is the root, a git package at a known URL, or a directory with a manifest. None of the
four is inductive alone. `IInv` adds what a step relies on from the steps before it: `Control` (at
the rename, what lies in `COMMIT.tmp` is whole; a commit is only looked for when its item heads the
queue), `Kept` (until its last step, a command has not touched the lock, and only `add` the manifest),
`Pins` (what is done agrees with every entry of the lock the command goes by, which has one entry
per name) and `Closing` (every requirement seen so far is done or still in the queue, so that an
empty queue means a closed lock). The steps are first reduced, in one lemma per action, to
what they do to the command (`Skips`, `Brings`, `Repeats`, `GivesUp`), and each conjunct of `IInv` is
then shown kept by these cases.

`CrashesHeal` is proved with a second invariant, `Healing`, and needs remotes that keep what they
have, as the predicate `Lasting` says, which the run evaluates too: no remote forgets a commit, every
rev that a manifest names is known to its remote at all times (without that, "no such rev" is the
right answer, crash or not), and a URL has one name. Two things do not heal by themselves, and
`CrashesHeal` names both: a dependency without `--rev` over a mirror whose HEAD was never set, and a commit
cut short in the lock, under which every command but `fetch` asks for a commit that no remote has.
`Healing` says what a command may rely on when it does not ask the remote again: mirrors, locks
and resolved revs never claim more than the remotes have; a commit to check out is locked or was
resolved in this command (`Pinned`); and a mirror that was asked in this command, and so will not
be asked again, has every commit that the command knows of its URL and every revision of the
remote but a HEAD it does not follow (`Refreshed`, `Follows`). The last is where one name per URL
is needed: revs are remembered per URL (`revCache`, `pkg.cpp:445`) and mirrors kept per name, so
that with two names for one URL a commit resolved in the mirror of one, pushed since the other was
fetched, is then looked up in the other in vain.

### 2.9 The prompt (`LineReader.tla`, `Repl.tla`)

Source: `repl.cpp`. `LineReader` is `Repl::run` with its helpers: the pending text, what is held for
an `else` or a `while`, and the inputs sent. A line is reduced to its first word, the brackets
and conditionals it opens and what it ends in. What is typed is a sequence of statements, read line by
line; `due` is a ghost, the statements read whole that are to run. What an author may mean as
one statement is the predicate `Authored`: a line of its own (blank, a command, an operator in front),
or lines after each of which, but for the last, something is open or the next line goes on
with an `if` or `try`; none but a line inside brackets is blank. It says nothing of the reader: a script
is what it is before any of it is read. Bounds: every script of up to three of
fifteen statements, in layouts with blank lines inside, commands between and lines that
close and open.

Proved (`ReplProofs.tla`), for scripts and statements of any length: `Authored` gives
`InputsAsWritten`. The inductive invariant `Reading` knows where in its statement the reader is.
At a statement's beginning nothing is pending, or a finished `if` or `try` that is held and due;
within it the pending text is exactly the lines of it read so far, and all that was due was sent.
The step that counts is the first line after a held statement: no statement begins with a
word that goes on with it, so what is held goes out before the line is looked at.

`Repl` is the session: for each input, which symbols are stale (`isStale`, from the epochs of the
names they depend on), which variables are reset, which symbols the module defines itself
and which it refers to; then the run, which may throw half way. A version of a symbol keeps
the declaration and the layouts it was compiled against and what it was linked to, so that
`LinkedToLatest` can compare these with the session's latest. Bounds: a type with a method, a
type that holds it, two variables, two functions, generic functions that call each other,
sixteen inputs, four of them in a row; the fourth uses, through a caller compiled in the third,
what the first defined and the second redefined.

What the inputs are kept from is written as predicates on them: no name is a function's and a
variable's (`KindsApart`), a type that a variable's type holds is only declared together with
that type (`HeldTogether`), and no variable's name begins with another name and an underscore
(`PrefixesApart`). Each excludes something the session gets wrong (section 3); the checker itself
sees to the rest (`Shape`: an input declares a name once). The run evaluates all four.

Proved (`ReplProofs.tla`), for any types, names, inputs and length of the session: `LinkedToLatest`
and `LayoutAgrees` under `Discipline` (`Shape`, `KindsApart`, `HeldTogether`), and `StateKept` when
`PrefixesApart` holds too. The inductive invariant adds to the types:

- `Declarations` and `Session`: a name is stamped with the last input that declared it, and every
  variable has a type that is declared with the types it holds.
- `Fresh`: the program of the session is in the JIT and nothing of it is stale, and a symbol that
  is not stale, of the program or not, is compiled from the program as it is now (`Right`). This
  cannot be said of the program's symbols alone: a generic function that nobody uses stays in the JIT,
  and an input that uses it again links to it.
- `Refers`: every reference, of replaced code too, finds what it was compiled against.

An input that declares a type again stamps the prefix of all functions, and the variables of that type
by name. So code it does not stamp saw only layouts that are still the same; for a variable
this is where `HeldTogether` is needed, since only its own type is looked at. New code
refers to symbols of its own module, which are right once the input is linked, and a version never
changes its layout afterwards, so old code stays in step with the storage it refers to.
`KindsApart` is needed because the stamp of all functions is asked of what a name is in the new program,
and its old code may be of the other kind.

### 2.10 Text pass and constants (`Preprocessor.tla`, `Macros.tla`, `Constants.tla`)

Source: `lexer/preprocessor.cpp`, `parser.cpp`'s import hook, `main.cpp`'s loop over the inputs. `Preprocessor`
reads line by line with a stack of conditionals for each file being read; `Import` hands over
to the imported file at its line, with the one macro table. What it leaves is compared with
a definition without a stack: the lines each file contributes if the conditionals are read as
brackets. Bounds: every file of four free lines, and three files that import each other
in 144 combinations, under and beside conditionals.

`Macros` is `ppExpand`: a text is expanded token by token, a replacement read again with the rest,
a name painted while it is being replaced. It is compared with C's algorithm of hide sets.
Bounds: two object-like macros and a function-like one of one or two parameters, whose
replacements name each other in every combination of eight shapes each.

`Constants` has the four readers of an integer constant expression: `PPExprEval`, `foldDim`,
`foldConstIntT` and the generated code, each with the types it sees, over expressions written
out by `Render` and read back by the text readers. C's own meaning, in unbounded integers with a
value reduced only where C reduces it, is the reference. Widths are scaled: bytes of 3
bits, `int` of 4, `int64` of 7, which keeps their order and their promotions; an expression's
limits are all inside the range of TLC. Bounds: every operator on fourteen values at the
limits of each type, every pair of operators in both shapes on five triples, casts, unary
operators and conditionals around these, and divisions by zero and shifts out of range in
operands that are and are not evaluated.

### 2.11 Parser (`Syntax.tla`, `Grammar.tla`)

Source: `parser/*.cpp`. Every parsing function takes the parser's state and returns a tree and the
next state; the state has the names that decide between two readings, the half-consumed `>>`
and the errors. `Syntax` has all expressions, types, statements and declarations, the scans that
look ahead (generic call or comparison, cast or parenthesis, `?` as propagation or ternary,
declaration or expression, struct literal or block) and the recovery after an error.

`Grammar` goes the other way, from `docs/lang/grammar.md`: it writes a tree as tokens, with the
parentheses its levels call for and with no others, or with all of them. `ParsesAsWritten` says
that reading gives the tree back, and that a broken declaration gives one error at its place
and leaves the declarations around it as they are. Bounds: every pair of operators, each
expression inside each, each reading that depends on a name with the name declared and not,
each statement in each position, imports, a dozen errors in each kind of declaration.

### 2.12 From the checker to execution (`FlowChecks.tla`, `Lowering.tla`, `Compiled.tla`)

Source: `sema/typecheck_decl.cpp`, `typecheck_stmt.cpp`, `typecheck_expr.cpp` (does a body end without returning, is a variable
assigned, is a pointer known non-null); `codegen/codegen_stmt.cpp` and `codegen_closure.cpp` (blocks, cleanup scopes,
jump targets, landing pads). `Lowering` emits a body to blocks of instructions; `Compiled` compiles
a function and then runs the blocks, with every outcome of every call and condition. The
execution carries what the language promises beside what the code does: the stack of
cleanups registered and not yet run, and the try that must catch what is in flight.
`CleanupsAsWritten`, `CaughtByInnermost` and the three parts of `CheckerSound` compare the two.

Bounds: a loop with a cleanup around and inside it, one or two nests (block, loop, switch,
match, try) in it and one exit of each kind; try with handlers, finally and cleanups that throw;
null tests of a local and a global in every shape with every act after them; a number
assigned on some of the paths through conditionals, loops, switches, defers and tries.

### 2.13 Async transform (`AsyncLowering.tla`, `AsyncRuns.tla`)

Source: `sema/async_transform.cpp`. `AsyncLowering` is the transform itself: awaits are made statements of
their own and the effects before them spilled, locals get fields and names of their own,
captured variables are boxed, the body is cut into states, cleanups are emitted at every
exit, states are wrapped in the handlers of their region. `AsyncRuns` runs a body as it is
written, and its states under the resume function, on the same answers of conditions, calls
and awaits (at once, after parking, or dropped while parked), and compares the logs.
`Coroutine.tla` takes from there: it has frames that own each other and no bodies.

Bounds: awaits in every kind of operand with effects around them; loops of five forms with
cleanups that do and do not await and every exit; switch and match; nested tries with plain and
awaiting finallys; names declared again and closures over them; four answers, forty steps.

### 2.14 Layout and C calls (`Layout.tla`, `LaidOut.tla`, `CAbi.tla`, `CCalls.tla`)

Source: `codegen/codegen_decl.cpp`, `codegen_adt.cpp`, `codegen_cabi.cpp`, `sema/typecheck_type.cpp`.
`Layout` is the LLVM type the generator builds, with LLVM's own placement of it; `LaidOut` has the size the checker folds, the reads and
writes of fields, and C's rules of each target. `CAbi` has the lowered signature of an extern,
the call through it and the thunk for a callback; `CCalls` the registers and stack each
target's convention gives the declared types, and what LLVM does with a lowered signature.
`PassedAsC` follows every byte of every argument and result, in calls, callbacks and `va_arg`.
LLVM and the ABIs are external: written from how the code uses them and from what its
comments say of clang.

Bounds: six targets (x86-64 and AArch64 and 32-bit ARM and x86 on Linux, two on Windows), structs and
unions of two or three fields from pools with bitfields, packing and unnamed fields, sums of two
payloads; for calls, nine ABIs, 36 aggregates, after as many scalars as leave none, one
or two registers of each kind.

## 3. Disagreements and restrictions

Five runs are expected to be violated. Each states something the repository says and
shows that the code does otherwise.

- `future_race` (`NoTouchAfterFree`). `docs/dev/async-design.md` §3.2 to §3.4 allow a complete
  and a drop on different threads and let the swap arbitrate; `future.esk:85-87` calls a
  completion that loses to a cancel a no-op. `Future_drop` frees the future whatever its
  producer is doing, and the producer then writes `value` and swaps `state` in freed
  memory. On one thread, where `on_drop` stops the producer, this cannot happen: the
  passing run and the theorem `MemorySafety` say so.
- `eventloop_cancel` (`CancelledByOwner`). `eventloop.esk:271-272` says that cancelling a timer
  is safe after it has fired. The id is a slot number without a generation, so it cancels
  whichever timer has the slot now.
- `combinators_cleanup` (`NoUseAfterFree`). `future.esk:154-156` says that a dropped combinator
  can no longer be reached. Its cascade drops input `a` before it unhooks input `b`, so a
  cleanup of `a` that completes `b` runs `b`'s waker on a counter or a future already freed.

- `compiled_finally` (`EmissionEnds`). `docs/lang/spec.md:1212` allows `break` and `continue` in a
  finally. `runCleanupsToDepth` emits the finally while it is still among the pending cleanups, so
  such a jump, emitted on the way of an early exit, emits the finally again without end.
- `packages_pinned` (`PinnedBuilds`). `docs/lang/getting-started.md:1309-1311` says that later builds
  use the locked commits and run no git command. The lock has one revision per name; where two
  packages require a third at different revisions of one commit, the other one is resolved
  again by every build, and conflicts once the remote has moved.

The runtime's models hold only because a constant or a guard keeps the program from doing
something; each is worth knowing when using the library.

| restriction | where | what happens without it |
|---|---|---|
| a future is completed once | `Future.tla`, `Discipline` of `FutureProofs` | `Future_complete` overwrites the value of a READY future before its swaps fail (`future.esk:90`) |
| `Replace = FALSE` | `EventLoop.tla` | a callback that registers its own descriptor twice loses the env of the first (`eventloop.esk:300`); `EnvsOwned` fails |
| deadlines below 2^31 ms | `IntMax` in `EventLoop.tla` | the cast to int turns the timeout negative (`eventloop.esk:211`); with a small `IntMax`, `TimerFires` fails |
| a ready descriptor keeps its registration during a batch | stated nowhere; not a property | an entry of the batch is delivered to a registration made after the wait (`eventloop.esk:375` tests `active`, not `gen`) |
| `EventLoop_stop` on the loop's thread, after `EventLoop_run` began | `EventLoop.tla` | the request is forgotten (`eventloop.esk:359`) or seen only at the next event (`:350`) |
| one outstanding receive | `Channel.tla` | the second receive replaces the parked one, which is never completed (`channel.esk:73`) |
| a task is not dropped while it is running or from inside what it awaits | `Chain` and `Busy` in `Coroutine.tla` | its frame is freed under its own feet |
| cleanups do not throw | `Coroutine.tla` | an exception that leaves a resumed frame in a state that is also a drop site makes a later drop run that site's cleanups again (`async_transform.cpp:1446`) |

One more is in the model without any restriction: a combinator that is spawned, or is dropped after it
has resolved, frees itself and not what its owner was to free (`future.esk:125-197`, `Future_drop`); the
inputs of a `join2` and the winner of a `select2` are then lost. `NoLeak` says that nothing else is.

The compiler's families of inputs leave out what the code is known to do differently. These
are deviations met while modelling, each from a doc, a comment or another pass; the
families say nothing about them, and the properties would fail with them in.

Packages and prompt:
- Modelled, and left open by what `CrashesHeal`, `FailureChangesNothing` and `LockCloses` say: a bare clone
  cut short before its HEAD is set is kept for good (`pkg.cpp:503-507` looks at the URL only and `:526`
  fetches no HEAD), so that dependencies without `--rev` fail, or follow another branch, until the mirror is
  removed by hand; a lock cut inside its last commit is read (`:361`), and an empty commit makes
  `pkgs/NAME` itself the package (`:332`); a failed flush in `writeText` goes unnoticed (`:229-234`); a manifest
  whose write fails is not put back, for that write is outside the `try` (`:719`), and neither is a
  lock (`:395-396`).
- Left out: a lock's commit cut to digits that git still resolves, whose directory then bears the short name.
- Two processes check out one commit through the same `COMMIT.tmp` (`pkg.cpp:468-482`); one mirror
  per name, so two URLs of one name replace each other's; revs are remembered per URL, so a commit
  resolved through one name of a URL may be missing from the mirror of its other name.
- `let x: int`, a function `x`, `let x: int` leaves the first entry in the session's globals; the
  prefix test of `isStale` resets unrelated variables (`Point_count` with `Point`); redefining `A` leaves
  variables of a type that contains `A` (`spec.md:3337`); an input that fails at the lookup of its
  entry is kept (`repl.cpp:1178`).

Macros and constants:
- An argument's painted name is expanded again (`#define foo foo + 1`, `ID(foo)`; `preprocessor.cpp:113-119`).
- `-2147483648` is 64 bits wide in folds and an `int` elsewhere (`parse_expr.cpp:268`, `typecheck_expr.cpp:1636`).
- A dimension takes a named constant's value and not its type (`type.cpp:739`, `spec.md:1696`), and the
  checker's fold does not convert an initializer to its declared type (`const uint8 N = 200 + 100`:
  300 and 44; `typecheck_type.cpp:513`).
- `sizeof` is unsigned in folds and `int64` in the code (`typecheck_expr.cpp:1861`).
- `foldDim` evaluates both operands of `&&` and `||` and both arms of `?:`.
- In instances of templates a wide literal is typed `int`, a mixed conditional by its first arm,
  and unary `+` not at all (`codegen_type.cpp:413-495`).

Parser:
- A struct literal in the parentheses of a `match` subject is not read (`spec.md:1774`).
- Loop variables of ranges, caught names and match bindings are not local names to the parser;
  the variable of a `for` stays one to the end of its block.
- `(const T*)x`, `(?*T)x` and `(fn ...)x` are not casts; inside `Node`'s methods `(Node*)p` is not either.
- `g * b;` with a global `g`, and `a < b > c;`, are read as declarations; `a < P > (d)` with a local `P`
  that hides a type as a generic call.
- `match f()? {..}` before `case x:` or a label is read as a conditional, against
  `parse_expr.cpp:38-41`.
- An error in a struct is reported again at the uses of its name; the second import of a
  missing file is not reported.
- A statement that starts with a lambda is rejected; `?` before `fn` is dropped; `const volatile let`
  and `for (++i; ..)` are rejected (`parse_decl.cpp:197`); suffixes are read stars first.

Checker and code generator:
- A nested defer or try with finally in the braces of a defer, with exceptions on, recurses
  (`spec.md:1457`); a try body's finally that throws unwinds to its own landing pad
  (`codegen_closure.cpp:322`, `spec.md:1210`).
- A defer's body is checked where it is registered (`typecheck_stmt.cpp:469`, `spec.md:1485`); what is
  known of a global survives a loop that changes it (`typecheck_stmt.cpp:146`, `spec.md:242`); defers on
  throw paths do not count as reads (`typecheck_decl.cpp:841`).
- `struct { float f; int64 a : 8; float g; }` is passed with `g` in an integer register on x86-64
  (`codegen_cabi.cpp:85`).
- A sum whose payload has a `#pragma pack(4)` struct between chars folds to 24 bytes and is laid
  out in 16 (`codegen_adt.cpp:22`, `spec.md:732`).
- Fields of packed structs are accessed at the alignment of their type.

Async transform (`async_transform.cpp`):
- A statement without an await that returns through its own defer completes the future before
  that defer runs (`:1351`).
- In `(await f() + g()) + await h()`, `g()` runs after `h()`'s await; a variable read before an
  await in one expression is read after it.
- A loop without an await snapshots once the variables of a lambda made in its condition.
- A switch whose cases await evaluates its subject once per case (`spec.md:1104`); a defer in a
  case runs before the fall-through.
- An exception that leaves the function outside any try skips its pending defers (`:1796`,
  `spec.md:1113`).

## 4. Runs

| run | spec | what it checks | shows |
|---|---|---|---|
| `executor` | `MCExecutor`, `FairSpec` | 2 invariants, refinement, 2 liveness | no lost wake-up and FIFO in every interleaving of three threads |
| `future` | `MCFuture`, `FairSpec` | 2 invariants, 1 liveness | poll, complete and drop meet safely when `on_drop` stops the producer |
| `future_race` | `MCFuture`, `Spec` | 1 invariant, violated | they do not when it cannot |
| `eventloop` | `MCEventLoop`, `FairSpec` | 2 invariants, 1 liveness | callbacks may change the loop under itself |
| `eventloop_cancel` | `MCEventLoop`, `Spec` | 1 action property, violated | a stale timer id |
| `combinators` | `MCCombinators`, `FairSpec` | 3 invariants, 1 liveness | every nesting of completions, spawns and drops frees each block once, but for what a forgotten combinator owed |
| `combinators_cleanup` | `MCCombinators`, `Spec` | 1 invariant, violated | a cascade overtaken by a cleanup |
| `channel` | `Channel`, `Spec` | 2 invariants, refinement | re-entrant sends keep order and memory safe |
| `coroutine` | `MCCoroutine`, `FairSpec` | 2 invariants, 1 action property, 1 liveness | cleanups run once, frames are freed once and in the end |
| `toolchain` | `MCToolchain`, `Invocation` | 14 invariants, 4 action properties | every part of the compiler over its family of inputs |
| `compiled_finally` | `MCToolchain`, `Invocation` | 1 invariant, violated | a finally with a jump of its own |
| `packages_pinned` | `MCToolchain`, `Invocation` | 1 action property, violated | a diamond of revisions is not pinned |

Deadlock is not checked: every one of these systems may stop (a loop nobody wakes, a
program that has nothing left to call, a pass that has its result). That the runtime does not
stop too early is what its liveness properties say. The largest state spaces are those of
`executor`, `coroutine` and `toolchain`; every run ends within a few minutes on two workers.

`mutants` in `PROJECT.json` name, for each property, a plausible slip in a definition (a
forgotten reset, a missing clamp, a directory published before its files) that the run catches.
The mutated forms stand beside the originals in the modules, under a comment that lists them.

## 5. What the proofs add, and what they do not

The theorems are in `ExecutorProofs`, `FutureProofs`, `EventLoopProofs`, `ChannelProofs`,
`CombinatorsProofs`, `CoroutineProofs`, `PackagesProofs` and `ReplProofs`. They
use the named assumptions of each module (distinct constants, a pipe of at least one byte, capacities that are
naturals, awaits that form a forest, combinators over futures that were there before), for `Future`,
`EventLoop`, `Combinators` and `Repl` the predicate `Discipline`, for `Packages` the predicate
`WellFormed` (for `CrashesHeal` also `Lasting`), and for the prompt's reader `Authored`, each written
as a hypothesis of each theorem.
`EventLoopProofs` proves its own typing (`Shape`) and not `TypeOK`, whose bound on the clock
is a bound of the run.

Only model-checked: all liveness (`EventuallyRun`, `EventuallyStops`, `EventuallyFinal`,
`TimerFires`, `EventuallyReleased`, `EventuallyFreed`), which is out of the prover's reach;
the parts of `Toolchain` other than packages and the prompt, whose passes are recursive functions of their input, and recursion over data is out of its reach too; and the
five violated properties.

## 6. What is not modelled, and why

- The rest of the checker (name resolution, overloads, templates and their instances,
  interfaces, inference of `auto`): sequential look-ups in symbol tables, whose state space is the
  language; the repository's tests reach them well. The lexer's characters.
- The rest of the generator (closures' environments, vtables, debug information, floating point).
- The self-hosted compiler, which is the same passes again; the formatter, the language server and
  the command line; text and data libraries and containers (pure functions of their
  input); wrappers of the operating system; the kernel's devices; the documentation.
- The kqueue and Windows backends of the event loop: `EventLoop.tla` follows epoll. The Windows one
  keeps a single global poll set, so two loops in a process would share it.
- In `Coroutine.tla`, exceptions: the transform's regions are in `AsyncLowering.tla`, but not with
  frames that own each other.

What would come next, in this order:

1. `HttpServer`: the accept loop of `http_async.esk` with its bound on open connections and
   its wait-group over a channel, composed with `Channel.tla`: the count never passes the bound
   and returns to zero, and the server finishes once every handler has.
2. `H2Flow`: stream slots and flow-control windows of `http2_server.esk`, with a peer that
   changes its initial window at any time: never more data in flight than the peer granted,
   and a response waiting for window goes out once it has it.
3. `Sched`: `kernel/sched.esk` and `trap.esk` with the interrupt between any two steps, and
   `Sem` of `threading.esk` over a monitor with spurious wake-ups.
4. `FirstFit` of `alloc.esk`: the free list stays sorted and fully merged, and blocks never
   overlap.
