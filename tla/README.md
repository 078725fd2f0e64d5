# Nachos multiprogramming: TLA+ models, checks and proofs

Nachos is a small operating system kernel linked with a simulator of a MIPS machine. This
repository extends it with multiprogramming: several user programs at a time, a process
table, frames and page tables, semaphores with names, a synchronous console, an open-file
table, and a set of user programs that use them. This directory models the kernel, its
file system and network, the simulated machine and the tools in TLA+, checks the models
with TLC and proves the central invariants with TLAPS.

Paths are relative to `src/HDH/nachos/nachos/nachos-3.4/code/`, and `c++example/` is beside
it. Three builds are modelled. In `userprog`, `USER_PROGRAM` and `FILESYS_STUB` are
defined and files are files of the host. `filesys` has the file system on the simulated
disk, and `network` adds the post office.

## 1. Inventory

| component | state | operations | what is hard about it | module |
|---|---|---|---|---|
| threads, scheduler (`threads/thread.cc`, `scheduler.cc`) | ready list, `status`, `currentThread`, `threadToBeDestroyed` | Fork, Yield, Sleep, Finish, Run | handlers run inside `Sleep`, before the switch; deletion is left to the next thread | `Threads` |
| semaphores (`threads/synch.cc`) | value, queue | P, V | newcomers overtake woken threads, so a woken thread tests again | `Threads`, `SemContract` |
| locks, conditions (`threads/synch.cc`) | none | all empty, `Wait` is `ASSERT(FALSE)` | their users are not protected | `PostOffice`, `Devices` |
| user registers (`threads/scheduler.cc`, `userprog/addrspace.cc`) | registers, page table pointer | save, restore, start, exit | a deleted address space whose pointer stays | `UserState` |
| process table (`userprog/ptable.cc`, `pcb.cc`) | bitmap, PCBs with three semaphores each | Exec, Join, Exit | PCBs are deleted while pointers to them remain; parent and child release each other | `ProcTable` |
| frames, address spaces (`userprog/addrspace.cc`, `bitmap.cc`, `machine/translate.cc`) | frame bitmap, `addrLock`, page tables, memory | constructor, destructor, translation | holes after exits, a refused constructor that goes on, destructor without lock | `AddrSpace` |
| console (`machine/console.cc`, `threads/synchcons.cc`) | one-character buffer, busy flag, four semaphores | Read, Write, two interrupts | lines of several threads, lost characters, the character 255 | `SynchCons` |
| named semaphores (`userprog/stable.cc`) | table of ten | CreateSemaphore, Wait, Signal | full table, names created twice, negative values | `STable` |
| open files (`userprog/exception.cc`, `filesys/filesys.h`) | one table for all processes | CreateFile, Open, Close, Read, Write, Seek | ids that leak, registers that keep the call number | `OpenTable` |
| integer conversions (`userprog/exception.cc`) | registers | ReadInt, PrintInt | sign, zero, width | `IntConv` |
| programs `test/MayRotNuoc.c`, `sinhvien.c`, `voinuoc.c` | files, semaphores | three processes that pass a turn | shared files, three-way waiting | `WaterPipeline` |
| lists (`threads/list.cc`) | linked cells | Append, Prepend, Remove, SortedInsert, Mapcar | `last`, equal keys | `Lists`, `Chain`, `ItemList` |
| MIPS simulator (`machine/mipssim.cc`) | registers, delayed load, memory | every instruction, exceptions, interrupts | delay slots with interrupts between them | `Mips`, `MipsWord` |
| stand-alone interpreter (`bin/execute.c`) | registers, memory | every instruction | the reference for the above | `Execute` |
| file system (`filesys/*.cc`) | sectors: headers, directory, free map, data | Create, Open, Remove, Read, Write, Seek | several sector writes per operation, stops between them | `FileSys`, `FileMap` |
| file system programs (`filesys/fstest.cc`) | a copy or a print under way | Copy, Print | pieces across sector boundaries | `FsTest` |
| network, post office (`machine/network.cc`, `network/post.cc`) | packet buffer, mailboxes, two semaphores | Send, Receive, delivery, two interrupts | loss, one buffer, locks that are empty | `PostOffice` |
| mail test (`network/nettest.cc`) | two machines | MailTest | restarts in mid-exchange | `MailTest` |
| interrupts, timer (`machine/interrupt.cc`, `timer.cc`) | pending list, clock, level | OneTick, Idle, Schedule, CheckIfDue | order and time of interrupts, a timer that never stops | `Devices`, `Threads` |
| disk (`machine/disk.cc`, `filesys/synchdisk.cc`) | head position, track buffer, one request | ReadSector, WriteSector | rounding of times, a lock that is empty | `DiskTiming`, `Devices` |
| object-file tools (`bin/coff2noff.c`, `coff2flat.c`) | input, output so far | one section at a time | failures in the middle | `ObjFile` |
| stacks (`c++example/`) | array or list | Push, Pop, SelfTest | one interface, two classes | `ArrayStack`, `ListStack`, `StackTest`, `Lifo` |

`PROJECT.json` lists the components with their files, and the hazards at their lines.

## 2. How the modules correspond to the code

**Granularity.** Nachos runs on one simulated CPU. The kernel is interrupted only in
`Interrupt::OneTick`, which `SetLevel(IntOn)` and every user instruction call. `Threads`
models that level: whatever happens with interrupts off is one step. All other kernel code
calls `OneTick` only from `P()`, `V()` and `Fork()`, so the steps of the other modules run
from one such call to the next, and they use semaphores through the contract of
`SemContract`, which `Threads` is shown to implement. A system call without `P`, `V` or
`Fork` is one step.

**`Threads`** has `currentThread`, the ready list, status and saved stack of each thread,
value and queue of each semaphore, `threadToBeDestroyed`, the devices with an interrupt
pending, and the mode of the CPU. Actions: `Fork`, `Yield`, `Finish`, `P`, `V`, `SleepRun`
(the end of `Sleep`, with `Scheduler::Run`), `RetryP` (the loop of `P` after a wakeup),
`StartDevice`, `Interrupt`, `Idle`, `IdleHalt`. Thread objects are addresses, reused after
deletion. Pending interrupts have no times here: any of them may be next. Their times are
in `Devices`. **`SemContract`** is the abstract semaphore: `Wait`, `Take`, `Give`.

**`UserState`** has the machine's registers, abstracted to the program they came from and
the number of changes it made, the page table pointer, and what `Scheduler::Run` saves and
restores for each thread. The scheduler may choose any thread at any time.

**`ProcTable`** has the bitmap and the PCBs with `joinsem`, `exitsem` and `multex`, and for
each process its place in Exec, Join or Exit. A deleted PCB keeps its fields, as memory
does; a step that uses its semaphores is `Crash`. A behaviour is `disciplined` when its
programs join each child once before they exit; `Init` allows both kinds. `children`,
`exitArg` and `execs` are what programs know and did.

**`AddrSpace`** has the frame bitmap, `addrLock`, page tables, and for each frame the page
it was last filled from. A constructor is `Lock`, then `Allocate` and `Load`, or `NoRoom`
and `UnlockAgain`. Writing past the end of `mainMemory` and deleting a file twice are
undefined and may crash the simulator or not. Programs are given by their pages of code,
initialised data and the rest.

**`SynchCons`** has the device's `putBusy` and `incoming`, the four semaphores, and the
calls of `Read` and `Write` step by step. `typed`, `taken` and `display` are history.

**`STable`** has the table; `created`, `signalled` and `passed` are history. The search for
a name or a free slot takes the first one, as the loops do. Initial values are any integers:
a semaphore created with a negative value never blocks, and each Wait lowers it further.

**`OpenTable`** defines each file system call as an operator from the table and the files
to the new ones, the value of register 2 and the symbols read. Register 2 holds the number
of the system call until the handler writes it. **`WaterPipeline`** composes it with three
semaphores and the programs `MayRotNuoc`, `sinhvien` and `voinuoc`, one action per system
call, with the paths on which they give up. Its constants are those of the code: 15 slots,
ids up to 9. With them Exec is the only call that fails: CreateFile aborts Nachos instead of
returning -1 (`machine/sysdep.cc:159`), and the programs do not open 15 files.

**`FileSys`** has the disk as a function from sectors to what was written there (a header,
the free map, the directory or bytes), the open files, and the sector writes that the
operation under way has still to do. Starting an operation computes them, since each
operation reads all it needs first and `filesys.cc` assumes that there is one at a time;
then the disk does one per step, and the machine may stop between any two of them. A stop
between the writes of the directory and the free map leaves two tables that do not fit
together (`torn`). The code has no repair, so the model then formats the disk. **`FileMap`**
is the abstraction: names with byte arrays. Files have at most `MaxFileSize` bytes
(`FileSysAssumption`): Create does not test it, see section 5. **`FsTest`** runs `Copy` and
`Print` on it.

**`PostOffice`** has, for each machine, the two semaphores, the network's buffer of one
packet, the postal worker, the mailboxes and the host's socket as a queue. Any packet may
be lost. The locks are empty, so several threads are inside `Send` at once, and a Receive
on an empty mailbox meets `ASSERT(FALSE)` in `Condition::Wait`: the machine stops.
**`MailTest`** composes the post offices with `nettest.cc`, or with free threads.

**`Devices`** has the clock, the sorted list of pending interrupts, the timer and the disk
under several kernel threads, with the ready list and the queue of `SynchDisk`'s semaphore.
Each pass through `CheckIfDue` is a step, and so is each switch. `SynchDisk`'s lock is empty,
so a thread may come while the disk is active: `ASSERT(!active)` fails and Nachos aborts
(`AssertFails`). **`DiskTiming`** has
`ComputeLatency` and the position of the head as the reference.

**`Mips`** executes one instruction per step, with `PC`, `NextPC` and the delayed load.
**`Execute`** is the other interpreter of this repository, without a load delay.
Its steps are compared with those of `Mips` by applying the pending load; `Differ` lists the
operations in which the two disagree (see section 5). **`MipsWord`** has W-bit arithmetic
and little-endian memory.

**`Lists`** has the cells of `list.cc` on a heap, **`ItemList`** the sequence they stand
for; **`Chain`** follows pointers. **`ArrayStack`** and **`ListStack`** are the two classes
of `inheritstack.cc`, **`Lifo`** what they promise, **`StackTest`** the test programs.
**`ObjFile`** follows the two tools section by section, with failures of reads and writes
and a kill at any step. **`IntConv`** has the two conversions as functions on ints of
`Width` bits.

## 3. Runs

| run | instance | what it shows |
|---|---|---|
| `threads` | 3 threads, a lock, a semaphore signalled by a disk and by a polled keyboard, values up to 2 | ready list, queues, states and saved stacks agree; no wakeup is lost; `P`/`V` implement `SemContract`, also its fairness; a ready thread runs |
| `processes` | 3 thread objects, 3 slots, 2 Execs, disciplined programs and others | pids stay exact, and a Join that returns has seen the child's Exit, its code and its PCB, whatever programs call; with disciplined programs no deleted PCB is used, every Join returns, every child is finished and its slot freed |
| `frames` | 3 processes, 4 bits, 2 frames, programs of 1 and 3 pages | no frame has two owners, none is lost, code is not overwritten, started programs run |
| `segments_in_place` | 8 bits, 4 frames, programs with data | violated: data is copied to the wrong frame after a hole |
| `console` | 2 threads, lines of 0 and 2, reads of 1 and 2, up to 4 characters typed | `PutChar`'s assertion holds, lines are not mixed, no character is lost, Writes complete, input wakes a Read |
| `water` | all inputs of up to 3 time points of 1 or 2 students, one of 3 students, 4 time points, and `input.txt`; Exec may fail | one program works at a time, `output.txt` is right at every moment, main finishes or reports the failure; at the fourth time point the ids run out, and three lines are written |
| `tools` | 8-bit ints and lines of up to 4 of 6 characters; COFF files of 5 sections of 0 or 2 bytes; lists of 3 cells and 4 items; stacks of 2; 3 programs and a kernel thread; 2 processes, 3 names, 2 semaphores with values from -1 to 1, 2 Signals and 2 Waits per name | conversions are exact for naturals and numerals; the tools' images are exact and nothing half-written is left by a failure; the lists implement sequences and the stacks a LIFO; a running program has its own registers and page table; tokens of named semaphores are conserved, also when the table is full, no Wait returns without one, and none rests beside a waiter |
| `mips` | 3336 programs of 3 instructions, 5 register files, W = 12, interrupts anywhere | the CPU implements the stand-alone interpreter, both decode alike, products are exact |
| `filesys` | 3 names, files of 0 or 5 bytes, 10 sectors of 3 bytes, 4 directory entries, one file open, copies in pieces of 2 bytes, stops anywhere | each sector has one owner; Write, Copy and Print are exact; the file system implements `FileMap` |
| `post` | 2 machines, one restart, 2 threads and 2 mailboxes each, 4 sends, any loss | nothing is repeated, reordered or put into another box after the wire; one wake-up per Send; the end of MailTest means both were heard; Sends return and mail that arrives is delivered |
| `devices` | 3 threads, 2 tracks of 3 sectors, 3 requests, 2 random timer intervals of up to 6 ticks after the first, clock up to 8 before the threads stop computing | interrupts come in order and on time, each request has one answer, the latency is that of the rotating disk; requests return and the machine halts, unless the disk's assertion fails |
| `one_at_a_time` | the same with 2 threads | violated: a thread asks for a sector while the disk is active |

The six parts of `tools` do not interact: each behaviour is about one of them.

**Bounds.** Two Execs suffice for a child and a grandchild or two children, and for the
reuse of a slot after a Join. Three processes and four frames suffice for a hole: two small
programs start, the first exits, and the large one gets frames that are not consecutive;
with only two frames of memory they also suffice for a frame that does not exist. Three
threads suffice for a waiter, a woken thread and a newcomer that overtakes it. The table of
two semaphores is full with a third name left; a value of -1 and two Waits are a semaphore
that should block and does not, next to ones that do. Three cells and four items reuse a
cell. A load, a branch or a store, any instruction after it, and a third that reads what
they left make up every pair that can meet in a delay slot; words of 12 bits keep bytes,
halfwords and the edge values of `Mult`. Files of five bytes in sectors of three have a
whole and a partial sector; of the copied pieces of two bytes, one lies inside a sector, one
crosses a boundary and the last is shorter; the disk is full before two files have their
largest size, and the directory has room for two of the three names. Four sends are
MailTest's four messages. The disk's sectors pass in three ticks and the clock advances in
twos, so that requests come at every position of the head; three threads and three requests
suffice for a thread that takes the `V()` of another's request. `MaxValue`, `MaxExec`,
`MaxSignals`, `MaxWaits`, `MaxItems`, `MaxChanges`, `MaxSends`, `MaxFree`, `MaxStarts`,
`MaxTicks`, `MaxRequests` and `MaxDraws` bound counters in guards.

**Deadlock** is checked in `filesys` and `devices`, where a stopped machine can be started
again or steps for ever. Elsewhere kernels halt, programs end, and readers may wait for
input that never comes; the liveness properties state what must not stop.

**Fairness.** Weak fairness of kernel steps: the scheduler is first-in first-out, and with
`-rs` the timer makes a running thread yield. Devices complete: `Schedule` enters the
interrupt and `Idle` advances the clock to it. `processes` assumes of disciplined programs
that they come to join their children and that all but the first end with `Exit(0)`, as
`__start` does. `post` has fairness for the network's two handlers, the worker and a Send
that was woken, none for the programs and none against loss. `devices` assumes that the host
runs the simulator. `P()` lets newcomers overtake, so a waiter can starve while others keep
coming: `SemContract` promises only that somebody gets the unit, and `frames` assumes that
programs are not started for ever.

**Refinement.** `Threads` implements `SemContract` (with fairness), `FileSys` implements
`FileMap`, `Lists` implements `ItemList`, both stack classes implement `Lifo`, and `Mips`
implements `Execute` outside `Differ` and for programs that keep the assembler's rules on
delay slots. In `FileSys` every sector write is one step of `FileMap` or none, so that a
stop at any of them leaves old or new files, except in the window described above.

Every property of a passing run has a mutant of the model in `PROJECT.json`, a plausible
mistake in the mapped code, under which TLC finds it violated. The mutants stand beside the
definitions they mutate.

## 4. Proofs

The theorems hold for every value of the constants that the named `ASSUME`s allow: any
number of threads, processes, machines or slots, and any values of the bounds. None of them
uses fairness. A proof module may serve several models.

| module | about | theorems |
|---|---|---|
| `ThreadsProofs` | `Threads`, `SemContract` | `TypeCorrect`, `ThreadsInPlaceHolds`, `WakeupsCorrect`, `SemaphoresImplementContract` |
| `ProcTableSteps` | `ProcTable` | the invariant, and lemmas on single steps |
| `ProcTableProofs` | `ProcTable` | `TypeCorrect`, `PidsCorrect`, `JoinCorrect` |
| `ProcTableNoCrash` | `ProcTable` | `NoCrashCorrect` |
| `UserProgProofs` | `AddrSpace`, `STable` | `TypeCorrect`, `FramesCorrect`, `BitMapCorrect`, `CodeCorrect`, `NamesCorrect`, `TokensCorrect`, `NeverOverdrawnHolds` |
| `DeviceProofs` | `SynchCons`, `Devices` | `TypeCorrect`, `PutCharCorrect`, `LinesDisplayedHolds`, `LinesTakenHolds`, `OneRequestHolds`, `OnTimeHolds` |
| `PostOfficeProofs` | `PostOffice`, `MailTest` | `DeliveryCorrect`, `WakeupsCorrect`, `EndCorrect` |
| `ProgramProofs` | `WaterPipeline`, `UserState`, `ArrayStack` | `OneWorkingHolds`, `OwnMachineHolds`, `ArrayTypeCorrect`, `ArrayImplementsLifo` |

**Threads**, from `ThreadsAssumption` (finitely many threads, semaphores start at 0 or
more). The inductive invariant `Inv` joins type, ready list, queues, the one running thread
and the saved stacks. None of them is inductive alone: `V()` keeps the ready list free of
duplicates because the sleeper it wakes is BLOCKED, which follows from the queue, which in
turn needs the thread to be on no other list. `NoLostWakeup` is then inductive relative to
`Inv`: `V()` adds a unit and, if anyone sleeps, a woken thread; a woken thread that finds no
unit leaves the woken threads when the value is 0. The refinement maps every step to
`Wait`, `Take`, `Give` or a stutter.

**Process table**, from `ProcTableAssumption`, whatever programs call. The invariant `Core`
adds three parts to type and `PidsExact`. `Locked`: `bmsem` is a lock, with at most one
process between its P and its V. `Slots`: a slot being filled in Exec is marked, live and
nobody's pid, so that a second Exec cannot find it free and no Exit can remove it.
`Handshake`: for each slot there is one token, which the child's Exit puts into `joinsem`,
the parent takes and puts into `exitsem`, and the child takes before it removes itself. A
Join that returns holds the token, so the child has called Exit and waits for the token;
hence `JoinedHasExited`.

`NoCrashCorrect` is for disciplined programs and any tree of processes. `Families` says that
a process not yet joined is a child of a live parent that has not begun its own Exit, that a
parent knows just such children, and that a Join is for one of them. Thus the PCB a Join
uses, and the parent's PCB that a child's Exit uses, exist; and when a PCB is deleted nobody
is inside its semaphores.

**Address spaces**, from `AddrSpaceAssumption`. The invariant adds to `FramesDisjoint` and
`BitMapExact` that a page table is empty until its constructor has allocated and has all
pages while it loads (`TableAgrees`). New frames are clear, hence by `BitMapExact` in no page
table; freed frames are by `FramesDisjoint` in no other. Code then stays intact because a
process only writes its own frames.

**Named semaphores**, from `STableAssumption` (initial values are integers, as those of
system calls are). Tokens can be counted by name only while a name has one semaphore, and a
new semaphore's count is right only because nobody could wait or signal before
(`NothingBefore`). A value that starts at 0 or more stays so (`ValuesKept`), as `P()` tests
it before it takes one; with the count of tokens this gives `NeverOverdrawnHolds`. Of a
semaphore created with a negative value it says nothing: Waits on it never block.

**Console**, from `SynchConsAssumption`. The two line semaphores are locks (`Turns`); a
character being output is waited for by the thread that has the turn to write (`Awaited`),
so that nobody puts a second one. What was displayed last belongs to that thread or ends a
line (`Shows`, `Displayed`), and so the next character continues the line or starts one; the
same holds of the character taken last (`InLine`, `LastTaken`).

**Interrupts and disk**, from `DevicesAssumption` and `DiskAssumption` (the geometry and the
times are positive), for any number of threads. `DevicesInv` says that the queue is in order
and that its first interrupt is not before `Earliest`: this is later than now while a thread
runs, one `SystemTick` ago when it has just enabled interrupts, and now while the machine
switches or idles. It also has `OneRequest`, with the types of the threads' variables and
that the running thread is not in `P()`. `OneRequest` does not rest on mutual exclusion,
which there is not: a thread that takes the answer of another's request leaves its own to
that one. That `ASSERT(!active)` holds is not proved, as it does not. Lemmas show that
`SortedInsert` keeps the order and adds one item, of any list. Latencies matter only as
naturals (`LatencyType`).

**Post office and mail test**, from `PostAssumption` (finitely many threads) and
`MailAssumption` (boxes 0 and 1 and the main thread exist), for any number of machines,
boxes, losses and restarts. Each machine has its part of the invariant, `OfficeInv`: the
semaphore `messageAvailable` and the worker account for the one packet in the buffer
(`Buffered`); interrupts due and units of `messageSent` are as many as the threads inside
Send (`Owed`), although the lock is empty; the wire's history is what was put into boxes,
then the buffer, then the socket (`Wired`); and what a box gave out and holds are the
packets for it, in order (`Boxed`). A step changes one machine, or two when a packet is
sent. `TestInv` adds what each packet of the test tells its receiver: an answer in box 1 was
sent by a machine that had received the greeting (`Letter`), and a machine knows at each
label of `MailTest` what it has received (`Knows`).

**Water pipeline**, from `WaterPipelineAssumption`, for every input and whatever the files
hold. There is one turn: the programs that work and the values of the three semaphores add
up to one. `OneWorking` states the whole sum, which is inductive; that at most one program
works is not.

**User registers**, from `UserStateAssumption`. The invariant adds that the saved registers
of every program that is switched out are the ones it left (`Saved`), that a program which
executes has a live address space (`SpaceAgrees`), and that one which has not started has
changed nothing (`NotStarted`). **`ArrayStack`**, from `SizeAssumption`, implements `Lifo`
for any size and values.

Only model-checked:

- all liveness, and the fairness part of `ImplementsFairContract`: not done by TLAPS here;
- the second half of `InputExact`, that no typed character is lost: it filters sequences,
  and facts on filters need induction over sequences, which the installed provers lack. Its
  first half is `LinesTakenHolds`;
- `ConversionsExact`, `ImagesExact`, `ImplementsItemList`, the `ListStack` part of
  `ImplementsLifo`, and that the water pipeline's output is right (`Solved`): what recursive
  functions, folds and chains of pointers compute, for the same reason;
- `LatencyExact`: products, quotients and remainders of variables;
- `Mips` and `Execute`: recursive operators and bit operations;
- `FileSys` and `FsTest`: no proof yet. The constructor folds its own sector writes over the
  disk and Create takes the clear sectors by rank, so lemmas on both would come first.

## 5. Disagreements between the code and its documentation

`segments_in_place` and `one_at_a_time` have runs and are described under `findings` in
`PROJECT.json`. The second needs two threads in the file system on the simulated disk. The
builds `filesys` and `network` have user programs too, and a program that executes two
others is enough: `Exec` opens the second one's file (`userprog/exception.cc:486`) in the
parent's thread while the first child's thread reads its segments. Others, without a run:

- `userprog/ptable.cc:81`: the comment says that Join is refused "if the process doesn't
  exist", but only `id < 0` and the parent are tested. A child that was joined and removed
  is accepted again, and its deleted semaphores are used. `NoCrash` is therefore about
  disciplined programs.
- `threads/system.cc:161`: the frame bitmap has 256 bits and memory 128 frames
  (`machine/machine.h`). A process may get a frame that does not exist, which
  `machine/translate.cc:242` calls "something really wrong". `frames` has the same ratio.
- `test/voinuoc.c:25`: with four time points the ids that are never closed run out, Read of
  a refused id leaves register 2 alone, and the program reads for ever. `Solved` speaks of
  the lines before (`Served`).
- `userprog/ptable.cc:33`: a refused Exec has marked its slot and does not give it back,
  although `ptable.h:17` says `bm` marks positions in use.
- `userprog/pcb.cc:122`: `DecNumWait` does nothing at 0, so a child that exits before its
  parent joins leaves `numwait` at 1; `pcb.h:34` calls it the number of waiting processes.
- `userprog/exception.cc:528`: Exit with a nonzero status returns to the program;
  `syscall.h:66` says the program is done.
- `userprog/addrspace.cc:217`: uninitialised data is not cleared; `bin/noff.h:22` says it
  should be.
- `threads/scheduler.cc:124`: a finished thread is forgotten when a thread that never ran
  comes next and finishes too, as it starts in `ThreadRoot` and not after `SWITCH`;
  `thread.cc:147` says `Run` calls the destructor.
- `userprog/exception.cc:553`: a semaphore may be created with a negative value, and then
  no Wait blocks; `threads/synch.h:50` says values are never negative.
- `filesys/filesys.h:97`: ids up to 14 are given out, but Read, Write and Seek accept 9;
  `exception.cc:336` and `:643` leave register 2 unwritten on failure; `exception.cc:359`
  lets a program close the console of all.
- `userprog/exception.cc:193`, `:150`, `:123`: PrintInt of negative numbers, ReadInt of
  lines without digits and of fractions of zeros differ from `syscall.h:148-151`.
- `machine/mipssim.cc:376`: OR takes `rs` twice and ignores `rt`, against `mipssim.h:202`
  and `bin/execute.c:201`; SRL and SRLV (`:445`, `:451`) shift the sign in. On the other
  side `bin/execute.c` sign-extends logical immediates, loses carries of products and gets LWL
  and LWR of an aligned word wrong. These are the cases of `Differ` in `Mips`.
- `network/post.cc:281` says "only one message can be sent to the network at any one time",
  but the lock is empty. `OneWakeupEach` shows that concurrent Sends do no harm.
- `filesys/fstest.cc`: the performance test creates its file with size 0, and files do not
  grow, so its first Write fails.
- `bin/coff2noff.c:204`: the comment wants .bss and .sbss to be contiguous, the test refuses
  them when they are. `NoffExact` speaks of the cleared segment for at most one of them.
- `bin/coff2flat.c` places a section at its place in the file, so a gap between sections is
  not kept; `FlatExact` speaks of files without gaps.
- `filesys/filehdr.cc:49`: Allocate does not test for `MaxFileSize` (`filehdr.h:21`), so a
  larger file writes past `dataSectors[NumDirect]` (`filehdr.h:62`). `FileSys` and `FsTest`
  are about files up to that size.
- `filesys/filesys.cc`: a stop between the two table writes of Create or Remove leaves the
  free map and the directory apart, and nothing repairs them.

## 6. Not modelled

- The host interface `machine/sysdep.cc`, command line, statistics, debugging output and the
  assembler of `threads/switch.s`: plain input and output, or below the level of the model.
- `bin/out.c`, `d.c`, `disasm.c`, `opstrings.c`: formatting of text. The loader of
  `bin/main.c` reads through a file that `main` has closed.
- The TLB of `machine/translate.cc`, which only the build `vm` selects; the directory `vm`
  has no source of its own.
- Programs that read or write their own text, in `Mips`.
- `FileSys` under several kernel threads. `filesys.cc` states that it assumes one operation
  at a time; with two, Nachos aborts in the disk as `one_at_a_time` shows, or one of them
  reads tables that the other is about to write.
- Reads past the end of `pcb[]` for pids of 10 and more, which depend on the heap.
- User programs that compute without interaction (`test/sort.c`, `matmult.c` and others).
- `ProcTable` and `AddrSpace` are not composed. A constructor that is refused for lack of
  memory does not tell the process table: `StartProcessID` tests for a NULL that `new` does
  not return, and goes on. What happens then is in `AddrSpace`.
