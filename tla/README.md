# AuraLang: a verification project

TLA+ models of the parts of AuraLang whose behaviour depends on the order in
which things happen, TLC runs that check them on small instances, and TLAPS
proofs of the results that matter most. The reference is the code: the paths
below are relative to the repository, `concurrent/` stands for
`aura/core/aura/lang/concurrent/` and `vm/` for `seed/compiler/src/vm/`.

## 1. The system

AuraLang is a language with a compiler and a virtual machine in Rust
(`seed/compiler`), a standard library in Aura (`aura/core`), a second, self-hosted
compiler and VM in Aura (`aura/compiler`), a native backend (`aura/photon`) and
tools (`aura/toolchain`). A source file is parsed, checked, lowered to HIR and
then to MIR (`codegen/mir.rs`), emitted as bytecode and run by `vm/interp.rs`.

### Components

`photon/` stands for `aura/photon/aura/lang/compiler/photon/`.

| Component | Source | State | Operations | What makes it correct | Here |
|---|---|---|---|---|---|
| Mutex | `concurrent/Mutex.aura` | one 64-bit word | lock, tryLock, unlock | exclusion; the word returns to 0 | modelled, proved |
| Barrier | `concurrent/Barrier.aura` | guard, remaining, generation | wait | nobody is early, nobody is left behind | modelled, proved |
| RwLock, Semaphore, Atomic | `concurrent/` | a guard and a few words each | read and write lock and unlock; acquire, tryAcquire, release; store, add, sub, cas | readers or one writer; permits conserved; no lost update | modelled, proved |
| Condvar | `concurrent/Condvar.aura` | a guard and a generation | wait, signal, broadcast | no signal is lost between the unlock and the wait | modelled; safety proved |
| Future, Promise | `concurrent/Future.aura`, `Promise.aura` | three words each | spawn, await, cancel; create, resolve, reject, await, tryAwait | an await answers with the result, after it is there | modelled, proved |
| Native concurrency registry | `vm/concurrent_native.rs` | global tables of primitives, threads and futures, each behind a lock | mutex, rwlock, condvar, barrier, semaphore, future and thread natives | exclusion; no lost wakeup; no wait with the registry locked | partly; safety proved |
| Thread pool | `vm/thread_pool.rs` | task queue, shutdown flag, worker threads | execute, shutdown, drop | each task once and in order; shutdown drains and returns | modelled; safety proved |
| Channel runtime | `vm/channel.rs`, `vm/event_notifier.rs` | buffers, pending notifications | send, recv, recv_timeout, try_recv, select | FIFO, bound, no notification without a message | modelled, proved |
| TCP and IPC channels, process actors | `vm/channel_tcp.rs`, `vm/ipc.rs`, `vm/actor_process.rs` | a connection, what is on its way | framed send and receive, close | values arrive whole and in order, and the end is told from a failure | partly: the framing, proved |
| Exceptions | `codegen/mir.rs`, `vm/mod.rs`, `vm/interp.rs` | frames, handlers, callbacks in progress | try, throw, break, call, return, callback | a throw unwinds to the innermost open try that accepts it | partly: all but class hierarchies; proved |
| Actor runtime | `vm/actor.rs` | mailboxes, supervision links, pending requests | spawn, send, ask, reply, kill, supervise | a kill reaches the whole tree, once | partly: all but the blocking ask, which is unused; proved |
| Photon native backend | `photon/RegisterAllocator.aura`, `photon/X86Emitter.aura` | spans and colours; the emitted code | allocate; emit | a read of a value finds that value, in its register or its slot | partly: allocation and emission; proved |
| Package manager | `seed/compiler/src/package.rs` | the cache of packages and of latest tags, a lock file for each project | install, update, publish, clear | what is locked from a repository is in the cache at the locked commit, and stays locked | partly: all but parsing and templates; proved |
| Interpreter, values, heap | `vm/interp.rs`, `vm/heap.rs` | registers, objects | one per instruction | - | not modelled |
| VM coroutines | `vm/coroutine.rs` | - | - | - | dead code: never emitted |
| JIT, AOT, FFI, debugger, front end, optimiser, tools | see `PROJECT.json` | - | - | - | not modelled |

### How they interact

* The classes of `concurrent/` other than Mutex, Future and Promise carry their own
  copy of its lock (`spinAcquire`/`spinRelease`) as the guard of their words. All of
  them stand on one primitive, the native fetch-and-add of `vm/native.rs:1483`, and run
  on OS threads. A Condvar also takes and gives back a Mutex of its caller. Future and
  Promise have no lock at all: their words are written in an order that is meant to do.
* A program can use the natives instead. Those share a registry for each kind, a table
  behind a lock, and most of them keep that lock while they sleep. A future of either
  sort joins a thread of the thread registry, which gives its result out once.
* A VM runs on one thread. Channels, actors and coroutines belong to a VM and are
  driven by that thread through native functions: they have no concurrency, but
  they block, and what they wait for (a message, a response) can then come from
  nobody. A channel and its event notifier are two memories that the operations
  must keep in step.
* Two processes talk over a connection that delivers bytes; a value is a length and a
  body, and sender and receiver agree on nothing but where the next length begins.
* The compiler and the VM share the exception protocol: the compiler decides where
  `PUSH_HANDLER` and `POP_HANDLER` go, the VM keeps one stack of handlers for all
  frames. Neither side knows what the other assumes about jumps. A native function
  may call back into the VM (`call_callback`), which swaps the frames but not the
  handlers.
* Photon's allocator gives some values a register and its emitter gives all others a
  slot. The emitter trusts the allocator that no two values in one register are alive
  together, and the allocator trusts the emitter that it reads what the stream of
  instructions names.
* The thread pool is a Rust facility of its own: its tasks share nothing with a VM.
* All projects of a user share one cache of packages, and each has its own lock file. A
  clone, the mark that it is there, and the lock file are three writes to the disk by a
  process that may end between any two of them.

### What is hard here

Interleavings of the spin-lock words; state read outside a lock and used later (the
pool's two looks, the generations of barrier and condition variable, the two stores of a
future); a lock held by who sleeps, and by who must wake him; slots that are used again;
notifications that outlive their message; a time limit that strikes inside a value;
jumps, calls and callbacks that leave the handler stack out of step with the program;
jumps that lead into code emitted for another history of the registers; operations that
block the only thread; a package manager that ends halfway, and another that finds what
it left. `PROJECT.json` lists each at its line under `hazards`, with the
properties that cover it.

## 2. The modules

| Module | Role |
|---|---|
| `AbstractLock` | what a lock promises: at most one holder |
| `SpinLock` | Mutex.aura, one atomic instruction per step |
| `SpinLockProofs` | its invariant, exclusion, refinement of `AbstractLock` |
| `Barrier`, `BarrierProofs` | Barrier.aura over `INSTANCE SpinLock`, and its theorems over `INSTANCE SpinLockProofs` |
| `Guarded` | what the next four share: guard, look, change, retry |
| `AbstractRwLock` | what a readers-writer lock promises |
| `RwLock`, `Semaphore`, `Atomic`, `Condvar` | the four classes, each EXTENDS `Guarded` |
| `GuardedProofs` | the theorems about `Guarded`, the four classes and `MCGuarded` |
| `MCGuarded` | three threads on one object of one of the four, chosen at the start |
| `Natives` | the locks of concurrent_native.rs behind their registries |
| `Futures` | futures of both sorts, promises, and the threads they join |
| `ThreadPool` | thread_pool.rs |
| `MCThreads` | a program that uses one of the three, chosen at the start |
| `ThreadsProofs` | the theorems about the three and about `MCThreads` |
| `Channel` | channel.rs with its notifiers |
| `Frames` | the framing of channel_tcp.rs over a stream of bytes |
| `MCChannels`, `ChannelsProofs` | either, chosen at the start; and the theorems about both |
| `Exceptions`, `MCExceptions` | try/catch/finally in compiler and VM; the exception types and try statements of its runs |
| `ExceptionsProofs` | the theorems about `Exceptions` |
| `Allocator` | RegisterAllocator.aura |
| `Emitter` | X86Emitter.aura and the run of what it emits, EXTENDS `Allocator` |
| `Packages` | package.rs |
| `CompilerProofs` | the theorems about `Packages`, the Photon backend and `MCCompiler`, EXTENDS `ExceptionsProofs` |
| `MCCompiler` | the programs of `Exceptions`, the streams of `Emitter` or the projects of `Packages`, chosen at the start |
| `Actor`, `ActorProofs` | actor.rs, and its theorems |

Definitions named *Slip* in a comment are plausible mistakes in the operation that
follows them. No specification uses them; `PROJECT.json` pairs each with the
property it breaks, which shows that the property says something about the code.
Variables marked *history* in their declaration record the past for the properties
and are never read by an action.

### SpinLock

`word` is the 64-bit lock word, `at[t]` the place of thread t between two atomic
instructions. `ProbeLock`, `TryLock` are the fetch-and-add of +1 with the test of
the old value; `UndoLock`, `UndoTry`, `Unlock` the fetch-and-add of -1. A failed
probe stays in the word until it is undone, and everything difficult about this
lock comes from that. `CallLock` and the decision to unlock are the client's. The
client keeps to the protocol: it does not lock twice or unlock what it does not hold.

### Barrier

The four words of the object, each load and store of `wait` that another thread can
see being a step: `Arrive` (under the guard: read the generation, decrement),
`Open` (reset and bump: nobody reads `remaining` without the guard, so the two
stores are one step), `Release`/`ReleaseLast`, and `Pass`, the unguarded reread.
`Spin` is the guard's own step, taken from `INSTANCE SpinLock`.

### Guarded, RwLock, Semaphore, Atomic, Condvar

A call enters the guard (the steps of `INSTANCE SpinLock`, every probe and undo of
them), looks at the words, changes them, and leaves the guard; if what it saw will not
do it leaves and goes round again. The look and the change are separate steps: that
nothing falls between them is what the guard is for, and nothing the model assumes.
`pc[t]` is the place of thread t in its call, `call[t]` the method. `mode` in `RwLock` is
what a thread holds, and a thread unlocks what it holds and holds one thing at a time.
In `Semaphore` anybody may release. In `Atomic`, `Store` is one store without the guard,
as in the code, and `overlapped` records which sections it fell into. `Condvar` has its
guard and the client's mutex, a second `INSTANCE SpinLock`: `Observe` reads the
generation, `WaitUnlock` gives up the mutex, `WaitPass` is the unguarded reread.

### Natives

`registry[k]` is who has the lock of kind k's registry: a native of the first four kinds
has the lock of its kind from its start to its return, also while it sleeps in the
object; acquire and release of a semaphore take the object out and let the registry go.
What a native does to its object is one step, since it happens under that lock. A woken
thread and one that wakes for no reason look again. Semaphores are made and destroyed,
and the slot of one is given to the next. A program is the set of methods it calls, so
that the behaviours in which everybody waits for everybody do not hide the others.

### Futures

A future is `"native"`, `"class"` or `"promise"`. `Look` and `Answer` of an await are two
critical sections, with the join between them; each word of the class is loaded and
stored on its own. The threads' table is `threads`: the first join takes the entry out,
and whoever comes later gets 0 at once. The client cancels a class future, whose words
are freed, only when nobody is in a call.

### ThreadPool

Each critical section of the two mutexes is one step. `FindEmpty` and `Check` are
the two looks of a worker, at the queue and, later and under another lock, at the
flag. `Execute` notifies nobody, as in the code. `Panic` is a task that unwinds its
worker. `WakeSpuriously` may happen and never has to.

### Channel

`channels` is the runtime's table: bound, buffer, and the notifier with the number of
notifications it holds. On Linux an eventfd adds notifications up and a wait takes
all; elsewhere a pipe holds a byte for each and a wait takes one. `Send` stops at the
notifier's write (`Notify`), `Recv` of an empty channel at its read (`Wake`); these
are the two places where the VM's thread can block. `Take` is the common part of the
five receives.

### Frames

`bodies` are the values sent, `writing` the one being written, unit by unit; the
receiver's `at`, `need` and `taken` are its read in progress. `TimeOut` ends a read that
finds nothing for the time limit and forgets what it has taken, so that the next read
begins in the middle of a value; what it then takes for a length, or decodes, is any
length and any value or an error. The sender may be slow, close, crash inside a value,
or reset the connection, which loses what is on its way.

### Exceptions

The program is arbitrary: at each step the running function takes any statement.
`frames[i].nest` is where function i stands in the source, as the nest of loops, try
bodies, catch blocks and finallys around the statement; `handlers` is the VM's
stack. `Try` and `EndBody` do what lower_try emits; `Break` and `Continue` what
lower_stmt emits for them, with `direct` telling whether the jump itself closed the
block that received the POP_HANDLER; `Raise`, `Land`, `Return`, `Callback` and
`Exit` what the VM does. The handler's frame index and the nest it was registered in
are kept, so that a landing in the wrong function ("wild") is visible.

### Allocator and Emitter

`BuildSpans` gives each node the span of instructions it is alive in: from its first to
its last mention, widened over the loops it meets, at most eight times.
`TryColorLocal(n)` and `LeaveUncoloured(n)` take the nodes in their order: one that lives
in one block and across no call gets the first register that no coloured node of an
overlapping span has. `EmitNext` turns the next instruction into items: moves between
registers and slots, a use of a node in a place, a definition of one, and jumps. The
processor is not modelled and nothing is computed: `holds` says for each register and
slot of which nodes it has the value, a definition makes every other copy of the node
stale, and a use asks whether it finds its node. A store and load the emitter takes out
as a pair leave an item behind that only records it (`elided`). The run takes every
branch both ways.

`WellFormed` and `NeverTooEarly` say what selectBlock makes: a label, the values of the
block and a terminator, and, since the values come from a program in SSA form, no read of a
value that some way to the read has not made. `Known` names the values made on every
way; the module assumes that there is such a table for each stream, and uses it for nothing
but this assumption, so no action depends on it.

### Packages

A package is a name; its repository is a number of commits, each with the version its
`aura.toml` says, and the tags that publish made. `dirs[n, v]` is what the cache holds for
version v: nothing, a clone that was begun, a directory with nothing but the mark, or a
clone of a commit. The mark is a file in that directory. The actions follow install and
update of a project through the stages between two looks or writes: look for a cached tag,
have git tell it, write it down; look for the clone, have git make it, mark it; truncate the
lock file, write it. Each may be the last (`Crash`), and other projects work at the same
cache between them. So git may find a directory that was not there at the look
(`CloneRefused`), and a clone that fails takes with it what others have put in its
directory (`CloneFails`): the mark of a path dependency of that version. `undone` remembers
such marks until they are made again, and `LockedIsCached` says how far the damage goes. The
model has what the code does with versions, which is little: the latest tag is cached for
ever, a clone is of the last commit whatever the version, the constraint of a dependency is
not looked at. Of git: it creates a directory and puts its first file there in one step, a
clone in progress has no commit, and its end is one step. Two package managers do not work
in one project, and the cache is not cleared during a clone.

### Actor

`actors` is the table of actors (mailbox, alive, parent, children, strategy). A kill
recurses over a copy of the children, so its progress is an explicit stack, `calls`,
one entry for each activation of kill_with_reason; `Enter` is the part of the
function before the recursion, `Descend` the next turn of its loop, `Finish` the part
after it. `response_queue` and `tokens` are the response queue and its notifier,
`before` is the table at the call of the kill in progress (a history variable, which
no action reads). `Vec::retain` is `Kept`, written out so that it can be proved about.

## 3. The runs

Passing runs. Properties are defined, with what they say, at the end of each module.

| Run | Instance | What it asks | Why the bounds are enough |
|---|---|---|---|
| `spin_lock` | 4 threads | the word counts holder and probes in flight (`WordCounts`), exclusion, `ImplementsLock`, `ObstructionFree` | no counter, no bound: the state space of 4 threads is complete; with 3 the first probe of a third thread already overlaps a holder and an undo |
| `barrier` | 3 threads, count 2, calls up to generation 3 | rounds are full (`RoundsAreFull`), nobody is early (`NoEarlyRelease`), an opened round is left (`OpenedRoundIsLeft`) | three threads on a count of two is the least where a thread is still leaving round g while round g+1 fills and opens; four generations let a straggler fall behind twice |
| `guarded` | 3 threads; 1 permit and 2 releases; 3 updates; 2 signals | `ImplementsRwLock`, `RwProgress`; `SemConserves`; `AtomicUpdates`; `SignalWakes` | two readers and a writer; two threads after one permit while the third releases; an add, a cas and a store on one word; a second signal before the first waiter has looked |
| `threads` | 3 threads, 4 native calls, barrier count 2, 2 semaphores of no permits; one future or promise and three callers; a pool of 2 workers, 3 tasks | exclusion (`NativeExclusion`), no permit lies while somebody sleeps for it (`SemNoLostWakeup`), a release returns (`SemReleaseReturns`); what an await answers (`AwaitAnswers`, `PromiseKept`); tasks start in order and once, shutdown returns and leaves no worker (`StartedInOrder`, `ShutdownDrains`, `ShutdownReturns`) | two sleepers and a releaser, a slot used again while a sleeper has its old semaphore; two awaits that race for the one join, with a cancel; a task more than workers, panics that may take every worker |
| `channel` | 2 channels of bounds 0 and 2, both notifiers, pipe of 2, 3 sends each; a connection with 3 values of bodies up to 3, limit 2, 2 failed calls | `Fifo`, the bound, each message has its notification and each notification is used once (`NotificationsInStep`); what a receiver of frames may conclude (`FramesArrive`), and that it returns (`RecvReturns`) | three sends fill a channel of two and a pipe of two; a body can be too large and stay in the stream, a call can fail and two more follow, and a value can be cut in its header or body |
| `compilers` | depth 2, 3 constructs, 2 handlers, 1 callback with 2 constructs; streams of 3 blocks with up to 3 instructions each in two of them, 2 values and a call, 1 register; 2 projects, 1 package of 2 commits, 3 calls, 1 clear | the handler stack is the nest of open bodies of every frame no jump left (`NoStrayHandler`), no open body loses its handler (`NoLostHandler`), a throw unwinds to the innermost body that accepts it (`UnwindsToInnermost`); a read finds its value, in a register (`RegistersKeep`) or a slot (`SlotsKeep`); what is locked from a repository is in the cache at the locked commit, what is locked from a path is marked unless a failed clone took the mark (`LockedIsCached`), and both stay locked (`LockKept`) | two frames with nested try statements in one or one each, a handler inside and one outside of a callback; every mix of definitions, reads, calls, loops of one and of two blocks and jumps past a block, with two values that compete for the one register; a project that locks, a second that meets its cache before, within and after, and one call more after a crash, with a commit, a new version and its tag at any moment, each call with the repository, a path or both; the projects are symmetric, since nothing tells one from the other |
| `actors` | 3 actors, 4 calls, stack of 4, notifier of 1 | a kill does to the tree of children what the tree at the call says, and no more (`KillEndsTree`), who is told (`KillTellsParents`), the recursion ends unless the links are a circle (`OverflowOnlyInCircles`, `KillEnds`) | circles of one, two and three, an actor with two parents, links to ids not spawned yet, an escalating or restarting actor in the middle of a chain |

Violation runs: each checks one statement of the repository that the code does not
keep. The statement is quoted in `findings`.

| Run | Statement | What happens |
|---|---|---|
| `channel_send` | `channel.rs:16`: send on an unbounded channel never blocks | receives that find a message leave its notification in the pipe until the pipe is full |
| `exceptions_break` | `runtime_gap_tests.rs:532`: the handler of the first try is deregistered | a break that does not itself close the body's block leaves it; a later throw enters the old catch block |
| `exceptions_callback` | `mod.rs:1860`: a frame that exits drops the handlers registered inside it | the frame of a callback has index 0, so its return drops everybody's |
| `photon_pair` | `X86Emitter.aura:1066`: a store and the load that follows it together have no effect | the store had one: the slot was never written, and a later read of it finds something else |
| `native_barrier` | `tests/concurrent/barrier_semaphore.aura:83-94`: three threads meet at a barrier of three | the first sleeps with the lock of the registry, and the second never arrives (the native of the VM; the test's header builds it with --aot) |

### Deadlock

`spin_lock` checks for deadlock. The others switch the check off,
because the bounds end a behaviour when nobody calls any more, and because the
system may really stop: workers asleep for ever, threads asleep at a native barrier, a
VM thread in a receive that nobody will answer, a run that is over.

### Fairness

* `SpinLock`, `Barrier`, `MCGuarded`: each thread is an OS thread; inside a call it keeps
  taking steps (`WF` of `Inside(t)` for each thread). No thread has to call, or to
  unlock: these are the client's decisions. Strong fairness is not assumed, and with
  weak fairness the spin lock is not starvation free, which is why the properties are
  obstruction freedom and what follows when the others stay away.
* `MCThreads`: a thread inside a release goes on. Each worker of the pool that is
  not asleep goes on, and so does the owner inside shutdown. Nobody is forced to wake
  spuriously, to call, or to release.
* `native_barrier`: every thread inside a native goes on when it can, and no condition
  variable has to wake for no reason; so a thread stays asleep only because nobody can
  come to wake it.
* `Frames`: the receiver goes on inside a receive. That a read ends at all is the
  connection's time limit (300 s, `channel_tcp.rs`), which is fair when nothing comes.
* `Channel`, `Actor`: the VM's thread goes on inside a call when it can.
* `Exceptions`, `Emitter`, `Packages`: safety only.

## 4. The proofs

TLAPS checks these for every value of the constants that the named assumptions admit.
Those are the types of the constants, a positive barrier count, pipe capacity, body
length and limit, and that there are finitely many threads wherever they are counted
(`ThreadAssumption`, `GuardedAssumption`, `NativesAssumption`, `PoolAssumption`): the
invariants there are equations between a word of the code and a number of threads.
`EmitterAssumption` says of the streams what instruction selection makes sure of, and that
the registers to give away (`rbx` to `r15`, `RegisterAllocator.aura:29`) are none of the emitter's
three scratch registers. TLC
evaluates each of them in a run of its module.

The bounds that end a model's runs (calls, sends, commits, failures) are constants like
any other, and the theorems hold for every value of them.

`SpinLockProofs`: exclusion is not inductive. What rules out that a probe wins while
the lock is held is the value of the word, so the invariant `IInv` adds `WordCounts`,
the equation between the word and the number of counted threads; the lemmas
`CountUp` and `CountDown` say how a move changes that number. From it:
`TypeCorrect`, `WordAccounting`, `Exclusion`, and `Refinement`: the lock implements
`AbstractLock`, failed probes and undos being stuttering steps.

`BarrierProofs`: every step of the barrier is a step of the spin lock or leaves it
alone (`NextGuard`), so the spin lock's theorems hold of the barrier's guard
(`GuardIsLock`, `GuardInvariance`), and the barrier's own invariant is proved with
exclusion as a known fact. Its parts: `GuardPlaces` (where a thread is with and
without the guard), `Generations` (how old a local `gen` can be), `FullIsOpening`
(the count is 0 only while the last arriver opens), `CountMatches`, `RoundsAreFull`
and `NoEarlyRelease`. The last needs all others: a thread leaves round g because it
saw a generation above g, a generation counts full rounds, and the count is right
only because stragglers of round g are not counted in round g+1. Theorems:
`GuardIsLock`, `TypeCorrect`, `CountsArrivals`, `FullRounds`, `ReleasedTogether`.

`GuardedProofs`: the steps a guarded class takes on `word` and `at` are steps of the
spin lock (`GuardIsSpinLock`), so that exclusion of the guard (`GuardHeld`) is a known
fact of every class; `Placed` says that a thread is past its look only with the guard.
Each class then adds to its invariant what was seen under the guard and is still so:

* `RwLock`: between the look and the change of a reader there is no writer, and of
  a writer there is nobody; the two words are the number of readers and whether there is
  a writer. `RwTypeCorrect`; `RwRefinement`: the lock implements `AbstractRwLock`, looks,
  failed looks and retries being stuttering steps.
* `Semaphore`: a thread that saw a permit still has one there when it takes it;
  permits taken and left are those made and those given back, where a release counts
  as given from its start and as on its way until it is in the count.
  `SemTypeCorrect`, `Conservation`.
* `Atomic`: what an add or a cas has read is the word's value until it writes,
  unless a store fell between. `UpdatesAtomic`.
* `Condvar`: a local generation is never above the word's, and is below it as soon as a
  signal came after the mutex was given up. So whoever looks after a signal passes
  (`SignalReaches`), which is what `SignalWakes` needs of safety; that he looks is
  fairness, and stays with TLC.

`ThreadsProofs`, with an invariant for each of its three systems:

* the pool (`PoolInv`). That tasks start in order (`TasksInOrder`) is inductive with the
  types. That shutdown drains the queue (`DrainedByLookers`) rests on a worker that the
  flag caught before its look at the queue: it goes on looking until it finds the queue
  empty, and by then every task submitted before the flag has been started (`Looking`);
  and a started task has somebody at it until it is over (`NoTaskDropped`).
* the natives. What a thread holds decides which native it may be in (`Calls`), and the
  words of mutex and readers-writer lock are the numbers of those who hold them (`Locks`):
  `NativeLocksExclude`. A semaphore lets its registry go before it sleeps, so that
  there is no such lock to lean on: `NativeWakeups` is proved for each semaphore
  by counting the awake and the sleeping before and after a step (`SleepsRightly`), also
  for those whose slot has been given away. `NativeTypeCorrect`.
* futures (`FutureInv`). Nothing is locked, so the invariant says who can still have
  written the words a caller reads: of a future only its awaits, each with what a join
  gave (`ResultsKnown`), and the first of them alone while there is no second
  (`OnlyAwait`); of a promise only those who settle it, value first (`PromiseWords`,
  `PromiseSteps`). `AwaitsAnswered`, `PromisesKept`; both are action properties, about
  the step that answers.

`ChannelsProofs`, about the two systems of `MCChannels`:

* channels: each channel's part of the invariant is `Sound(c)`, and the five receives
  share one lemma about `Take`. `ChannelOrder`, `BufferAndNotifier`, `ChannelTypeCorrect`.
* frames: what the receiver has of the value in progress, what is on its way and what
  the sender has not written are one line of units, and as long as no call has
  failed there is no gap in it: each unit is followed by the next of its value, or it is
  the last and the header of the next value follows (`Unbroken`), the receiver
  stands where it thinks it stands (`Reading`), and behind the line come the values that
  are still to be sent (`Sending`, `Wholes`, `NothingMore`). `ValuesArrive`,
  `FramesTypeCorrect`. The induction over the stream that this seems to need is
  not needed: each step takes a unit off one end or puts one on the other.
* `ChannelsTypeCorrect` puts the two together.

`ExceptionsProofs` (`HandlersInv`), for every number of frames, nested statements and
callbacks. The handlers on the stack are compared with the nest of every frame of the running
loop. Without callbacks each body of each frame has its handler, in the order of the bodies
(`Covers`), so that the pop at a body's end takes just that body's. A callback that returns leaves
no handler of any level (the run `exceptions_callback`), and from then on a frame may lack some; what still holds is that the frames below such a frame have no
handler of this level at all (`NoneBelow`), so that no pop takes one of theirs. A frame that
no `break` or `continue` has left askew (`stray`) has the handlers of its innermost bodies
only (`Orderly`). All of it must also hold of the nest that a handler leads to
(`LandingRight`), since that is what a throw makes of the frame, and of the level a callback
returns to. The order of the handlers by level and frame (`Sorted`, `Attached`) is what makes
the retain of `pop_frame` (`Retaining`) and the truncation at a catch (`Landed`) lose no
handler of another frame. The bounds of the depths (`Open`, `OpenNow`) are sums over the
saved stacks, bounded by induction (`SumBounds`). `ExceptionsTypeCorrect`,
`NoHandlerStrays`, `NoHandlerIsLost`, `ThrowsUnwind`.

`CompilerProofs` (`PackagesInv`): what is locked, what will be, and what was fetched are in
the cache (`InCache`), no two managers clone into one directory (`ClonesApart`), and a clone
in progress has no commit yet. So a failing clone takes no other's clone and none of its
marks, and no step of one project takes more from another than the mark of a path
dependency, which `undone` then has (`CacheStays`, `CachedStays`): `LocksAreCached`. The
entries install is making begin with those of the lock file, and those of update are, for
what was locked, the entries that find gave (`KeepsLock`); `FindExtended` says that more
entries at the end change nothing that is found: `LocksAreKept`.

In the same module, of the Photon backend. Of the allocator: a node gets a colour only in its turn, so the nodes not considered
yet have none (`InOrder`); with that, the later of two nodes of one colour was compared
with the earlier, and two nodes alive at a common instruction have different registers
(`NoSharing`); a node with a register is born and dies in one block without a call
between (`OnlyLocals`); and no instruction touches a value outside of its span, since the
spans only grow while they are widened over the loops (`SpansAreWide`; the widening is a
recursive function, and what holds of its values is by induction, `Iterates`).

Of the emitter and what it emits, for all streams that `EmitterAssumption` admits
(`PhotonInv`). The code is annotated with tags: the instruction each item belongs to, and
whether it is a read whose store was taken back. `Fit` says what an item of an instruction
may be, `Link` what two neighbours owe each other: a value is stored or copied at once
after it is given, and a read from a scratch register comes right after the load, or
after what gave the value. That the emitter keeps this (`CodeOK`) goes instruction by instruction;
the peephole is the delicate case, because it takes back an item that an earlier
instruction left. Of the run (`RunOK`): before an item of instruction i, each
value that was made on every way to i and is alive at i is in its register (`InPlace`), each value made
that has no register is in its slot or was elided (`InSlot`), and what the next item
needs in a scratch register is there (`AtHand`). The step that needs an argument is
the one to a new instruction: a register that was given to another value in the meantime.
`Fresh` rules it out: where a span begins, the value is not yet made on some way, so a
value that is known and alive was alive at the instruction before, and by `NoSharing` the
register was its own all the time; by `OnlyLocals` no such span goes through a label or a
call. `RegistersAreKept`, `SlotsAreKept`, `EmitterTypes`. The allocator's theorems are
theorems of the whole, because a step of it is a step of the allocator or leaves it
alone (`AllocatesAlone`).

`ActorProofs` (`ActorInv`) compares the table with the one at the call of the kill. F is
the set of actors some activation has finished with; an actor is marked if it is in F or
has an activation. `Edited`: the marked are dead or restarted, and a child is off its
parent's list just if it is in F; `Told`: the notices are those of the marked; `Walk`:
what an activation has not still to do is in F or called; `Finished`: F is closed under
the children its members end, and there is no circle in it. The last is why a kill that
returns met no circle: all that an actor ends is in F before the actor is, so adding it
closes no circle. When the outermost activation returns, F is a closed set with the root
in it and within the tree, so it is the tree: `TreeEnds`, `ParentsTold`. With as many
activations as actors and one more to come, the pigeonhole gives two of one actor, and
those between them are a circle: `OverflowIsCircular`, from `ActorAssumption`, which
says that the stack holds an activation for each actor (for a deeper tree the process
ends with a stack overflow without any circle). What retain does (`KeptTwice`,
`KeptRange`, `KeptInjective`) is by induction over sequences, which is done on sets with
the least-element principle (`AllNumbers`, `AllSequences`), since the library's
induction theorems take an operator.

The compositions of the runs use one of their parts, chosen at the start, and leave the
others as they are. So each behaviour of a composition is one of each part (`PartsAlone` of
`MCThreads`, `ClassAlone` of `MCGuarded`, `ToolsAlone` of `MCCompiler`), all that is proved
of the parts holds of it, and its type invariant is theirs together: `ThreadTypes`,
`ClassTypes`, `CompilerTypes`. For the parts that had no theorem on types of their own there
are `FutureTypeCorrect`, `AtTypeCorrect`, `CvTypeCorrect` and `PackagesTypeCorrect`. These
need a future, a package and an update to exist: a place that no call has used yet holds some
member of the set.

Only model-checked: liveness (`ObstructionFree`, `OpenedRoundIsLeft`, `RwProgress`,
`SignalWakes`, `SemReleaseReturns`, `ShutdownReturns`, `RecvReturns`, `KillEnds`), which
needs ENABLED. All other properties of the passing runs are theorems.
The modules with theorems reach no RECURSIVE operator.

## 5. What is left out, and why

* Inside the modelled parts.
  SpinLock: a client that unlocks what it does not hold, `destroy` while threads spin,
  64-bit overflow of the word (it would need 2^63 threads; the proved bound is the number
  of threads), `isLocked` (a read). The guarded classes: the same, and a client that
  gives back a read lock it does not have. Futures: a cancel of the class's words under
  a thread that awaits them, which is a use after free. Natives: the natives of Atomic
  (one atomic operation each under the registry's lock), destroy of the kinds other than
  Semaphore. Channel: the bytes, handles and error paths of the notifiers; a negative
  bound. Frames: the encoding of a value, connecting and listening. Exceptions:
  expressions, values, class hierarchies (types have no subtypes), the debugger; ways out
  of a run other than the modelled ones. Actor: `ask` and `ask_with_timeout`, which
  nothing calls, the key-value state and the death reasons. ThreadPool: poisoned mutexes,
  which need a panic with the lock held. Packages: the text of manifests, constraints and
  lock files, `show_deps` and `verify_offline` (which change nothing), `create_new_package`,
  a checkout that git leaves half done, two package managers in one project.
* Photon: spilling and recolouring, which `allocate` does not call; the selection of
  instructions, but for the form and the order of what it makes; the aliases between the slots
  of a phi and its operands, since `setPhiSlotAlias` has no caller; shifts, division, floating point and inlined natives, which go through
  the same two functions for their operands; the encoding into bytes. The allocator also
  takes the immediate of a compare for the number of a node, which can only widen a span.
* The heap's reference counts: the compiler inserts Retain only (`insert_arc`) and no
  stage emits Release or DropRef (`emit.rs:1009-1015`, `interp.rs:497-535`), so counts
  only grow and nothing is freed. VM coroutines: no stage emits their instructions.
  A model of either would be one of code that does not run.
* Interpreter, values, front end, optimiser, code generators, tools: these are
  most of the repository's lines, and sequential functions over unbounded data (trees,
  text, bytes), where a bounded instance says little more than a test. For the share of
  the code with state that several actors see, see section 1.
* The self-hosted compiler and VM in Aura: the Rust implementation is the frozen
  baseline (see the head of every file in `vm/`), and the models follow it.

Statements of the repository that do not hold and have no run of their own:

* `Mutex.aura:58`: tryLock returns false when the lock is held. It does so too when it
  meets another thread's failed probe on a free lock.
* `thread_pool.rs:116`: shutdown waits for all tasks. A worker that found the queue empty
  before the last execute sees the flag and leaves; if all do, the task stays.
* `Atomic.aura:7-8`: add and sub are one atomic instruction. They take the guard, so a
  store between their read and their write is lost.
* `Future.aura:186`: await of a promise. `Future.await` joins thread 0, gets 0 at once
  and writes it over the result.
* `Coroutine.aura:97-102`: spawn returns a handle for ask. Handles begin at 1, indices
  at 0: ask of the only coroutine answers null, and cleanup moves the others.
* `docs/语言-Aura与Kotlin对比分析.md:130`: try/catch/finally is complete. finally is placed
  on two of the ways out (`mir.rs:1038-1055`); break, continue, return, a throw in the
  catch block and an exception no clause accepts skip it. The model has all of them.
* `opt.rs:9`: optimisations keep the semantics. `subst_expr` copies the expression of an
  argument to each place of the parameter, so that its effects happen twice or not at all.
* `package.rs:728`: git_latest_tag gives the latest tag. The first it ever finds goes to a
  file and is the answer from then on, also after `clear`; and without that file it looks at
  a clone of depth one, which has no tag but those of the last commit. So
  `docs/方案-技术方案.md:1319` (update to the latest compatible version) does not hold
  either: update finds no newer version, and resolve_version does not look at the constraint.
* `docs/系统-Aura构建系统设计.md:21`: the lock file records the exact version and rev. The
  rev is that of the last commit at the time of the clone, not of the version's tag, so a
  second clone after `clear` gives the same version another rev.
* `package.rs:849-851`, `1407-1420`: a package is cached if its mark is there, and a lock file
  passes the offline check if all are. A path dependency is marked in the directory a clone
  of the same version would have; when another project's clone into it fails, git removes
  the directory with the mark (`700-725`), and the locked package is not cached although
  nobody cleared anything. `LockedIsCached` without `undone` is violated in the run.
* `package.rs:1316-1345`: a publish whose push fails has made the tag, and each later publish
  of that version fails because there is one.

## 6. The plan

Done: the modules of section 2. What is left, in this order:

1. The inlining of `opt.rs` as a function on small expressions, against their evaluation.
2. The Coroutine class, with its handles and indices.
3. Supervision in `Actor` against what supervise asked for, rather than against the
   lists of children: an actor that restarted is no longer among its parent's.
