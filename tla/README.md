# gonidbg in TLA+

gonidbg emulates Android AArch64 libraries: it loads a `.so` with its bionic
libraries into a guest address space, runs it on a CPU engine (Unicorn, Dynarmic
or its own interpreter) and answers the library's system calls, libc imports and
JNI calls in Go. This directory holds TLA+ models of the parts whose correctness
depends on order, sharing, partial failure or bit-level case analysis, TLC
configurations that check small instances, and TLAPS proofs of what holds for
every instance.

Run in this directory: `tlc -workers 2 -config MCX.cfg MCX` for a check,
`tlapm XProofs.tla` for proofs. `PROJECT.json` maps every definition to the lines
it models, and lists runs, mutants, findings, hazards and theorems.

## 1. The system

| component | state | operations | what is hard |
|---|---|---|---|
| scheduler (`emulator/scheduler.go`, `hostfns.go`) | fibers, current fiber, yield reason, budgets, CPU contexts | RunThreads, slices, futex, nanosleep, pthread_create/join, exit | wakes between slices, contexts freed on many paths, refused saves, faults, bounds, termination |
| interpreter memory (`internal/arm64/mem.go`, `cpu.go`) | page table, read/write/code TLBs, fetch cache, decoded pages, hooks | map, unmap, protect, host access, guest access, fetch, hooks | stale caches; hooks that change everything in the middle of an access |
| run loop (`internal/arm64/cpu.go`) | PC, instruction count, stop flag, exclusive monitor | Run, Stop, raise, Save/RestoreContext | a fault in the middle of an instruction, the monitor across instructions |
| instructions (`decode`, `dpreg`, `ldst`, `vec`, `fp`) | registers, flags | a decoder that picks one of several handlers per instruction, and the handlers | many handlers for one meaning, chosen by width, aliasing, register 31 and immediates |
| address space (`internal/memory`, `kernel` mmap/brk, `Alloc`) | region table, cursor, program break; the engine's pages | mmap, munmap, mprotect, brk, Alloc | two copies of one truth, engine errors ignored |
| kernel files (`internal/kernel`, `internal/vfs`) | descriptors, writable overlay, exit latch, random stream | openat, read, write, writev, lseek, close, stat, Snapshot, Restore | aliasing of file contents, positions, errors in the middle |
| snapshot (`emulator/snapshot.go`) | a saved image of everything above | Snapshot, Restore, Free | order of steps, failure in the middle, state that is not rewound |
| JNI objects (`dvm`, `emulator/jni_dispatch.go`) | handles, classes, member IDs, fields, array pins, pending exception | some 200 JNI functions | handles kept outside the table over Restore, identity across clones |
| linking (`internal/loader`, `LoadModule`) | modules, exports, stubs | parse, map, relocate, resolve | precedence of symbols, packed relocation streams, loads that fail half way |
| engines (`internal/emu`) | hooks, translation cache, the Windows engine thread | the `Backend` interface | commands handed between threads, deferred flush, nested starts, panics in callbacks |
| vfs paths, dex, debugger, tracer, commands, examples | little or none | | not modelled: parsing, formatting, observation |

Interaction. `CallFunc` starts the engine on the main thread; an SVC traps to
`onInterrupt`, which dispatches to the scheduler (futex, sleep), the kernel, a
host function or JNI, all of which read and write guest memory through the
engine and may stop it. `RunThreads` runs the fibers on the same engine between
two calls of main. `Snapshot` and `Restore` read and rewrite every component.
Everything but the Windows command pump is driven by one host goroutine at a
time: the interleavings that matter are those of fibers, of callbacks inside an
access, and of host calls between guest calls.

What makes each part correct: a CPU context has one owner and holds its owner's
execution; RunThreads returns and starves nobody; a cache never answers what the
page table would not; an instruction computes what the architecture says,
whichever handler runs it, and can be resumed after a fault; table and engine
agree about what is mapped; Restore rewinds all it says it does; a handle names
one object and an ID one member; a reference is bound to the right definition; a
command gets its own answer. Section 3 gives the precise statements, `hazards` in
`PROJECT.json` the lines where each could fail.

## 2. Modules

### Threads of the guest

**Threads** is what guest code may rely on: threads that are new, ready, blocked,
parked or done, whose results do not change. **Scheduler** models
`scheduler.go` with the parts of `onInterrupt`, `CallFunc`, `Snapshot`, `Restore`
and `Close` that share its state; `ImplementsThreads` shows it implements Threads.
`ctl` says which function is in control, `fibers` is `e.fibers`, `live`/`saved`
are the engine's contexts and their contents, `cpu` whose execution the engine
holds (an owner and an abstract position). Guest code is a choice of steps:
compute, a serviced call, futex wait or wake, sleep, create, join, exit, return,
fault. The handle arithmetic is kept as `base + id % span`, which equals
`0x7300|id` for ids below 0x400. `yieldReason` and `threadOps` are cleared at the end of
a slice, where the code leaves values nothing reads. Left out: a failing register
write, and a refusal to restore main's context (the code drops that error).

### Memory of the interpreter

**GuestMemory** is memory without caches: pages, protections, accesses that see
the pages as they are when they complete, and hooks that miss nothing they watch.
**PageCache** models `mem.go` and the fetch and hook steps of `cpu.go`: page
structs and decoded pages are objects with identity, the TLBs are direct-mapped
arrays that point at them, and `flight` is the access a callback interrupts, so
that every host operation can happen inside it. `ImplementsMemory` says the
caches are transparent. A page holds one value, which is also its instruction;
an address is a page's start or its end. Whether an invalid-access hook is
installed is a choice at each refused access. Several hooks on one access are
one callback in which several host operations may happen.

### Address space

**AddressSpace** models the region table with the engine's pages: `mmap`,
`munmap`, `mprotect`, `brk`, `Alloc`, guest stores, and the memory steps of
Snapshot and Restore in the code's order, with the engine's all-or-nothing
answers (interpreter and Unicorn; Dynarmic's MemMap never fails). Zero lengths are
left out, and Snapshot and Restore are modelled where no two recorded ranges
overlap. `Guests` says which guests there are: the empty set of habits is a guest
that names whole mappings and only grows its break, `shrink`, `ahead` and
`partial` are less orderly ones; with each goes how many calls it makes. A property
that holds of orderly guests only says so (`habits = {} => ...`).

### Files

**KernelFiles** models the descriptors, the overlay of written files, the random
stream and the exit latch of `internal/kernel`, over the files `internal/vfs`
provides (`Resolver`, `Synth` and `Asset` are its three sources, with the different
precedence Read and Exists give them). Go slices are explicit where identity
matters: a read-only descriptor of an overlay file holds the overlay's own array
while `shares` is TRUE, so that a write in place shows and a write that grows the
file, or a truncation, parts the two. A read or write at a negative position
ends the host (`panicked`), as the slice expression does. `streams` and `taken` are
history: descriptors that own their file, and each snapshot as it was taken.

### Java objects

**JniHandles** models the handle table of `dvm` and every JNIEnv function that
makes a handle, looks through one or keeps one elsewhere (class cache, static
fields, array pins, fields), with member IDs, natives, exceptions, Snapshot and
Restore. A Go object is part of its table entry, since `clone` copies it on Snapshot
and on Restore; `payload` is the Go slice behind an array, which `clone` shares.
`host` is an object the embedder's handler keeps and may answer again.

### Engine

**EngineCalls** is what callers count on: a call takes effect once between its
invocation and its return and answers for that effect, and a Start has the engine
to itself. **UnicornEngine** implements it (`ImplementsCalls`): `ucs_run` and the
engine loop of `uc_shim.c` with their lock, slot and two auto-reset events, step by step
between two operations on them; on top of it the hook registry and the deferred
flush of `unicorn_cgo.go`. `pc` is where a calling thread is, `then` what
the Go method does when its command has returned, `frames` the nested `uc_emu_start`s,
`tb` the hooks a translated block has been compiled with. One thread (`Driver`)
adds and removes hooks, starts and closes: the code's own discipline; every other
reads, writes and stops. Callbacks run on the engine's thread and may do all of it.
With `MayFailOpen` the open fails, and, as the code reads, its caller waits for a
thread that has ended; the run takes FALSE.

### Guest code

**Words** scales machine words: every operand and access size of the code is kept and a
byte is `ByteBits` bits wide: with one bit an X register has eight bits, W four, and all
values of an operand fit in a state. Nothing in the code depends on a byte having
eight bits.

**LoadStore** is `ldst.go` with CLREX and DC ZVA: `decodeLdSt` turns an encoding (a
record of its fields) into an `inst`, by the decoder's tests and in their order, and
one operator per handler runs it on registers, memory of two pages, protections and
the exclusive monitor. An instruction that faults half way leaves what the handler
leaves. `hit` says whether the TLB knows the page, which decides between a handler's
fast and slow path. **AccessMeaning** says what an encoding means, byte by byte:
which are allocated, which bytes move where, what becomes of the base and the monitor.

**DataProcessing** is `dpreg.go` and the immediates and branches of `decode.go`, again
decoder and handlers. **Meaning** states the same instructions on integers and
sets of bits, without the masks, rotations and carry formulas.

**Vectors** is `vec.go`, FMOV of an immediate and the integer part of `fp.go`'s indexed and pairwise groups: the decoders
with the tests that leave an encoding undefined, and the handlers on a register of sixteen bytes.
**VectorMeaning** says which encodings the interpreter is to run and what each lane of the result
holds, on unbounded integers, or bit by bit. Both are instantiated twice: with bytes of two
bits, so that lanes of every size are TLC integers and every shift amount, carry and
saturation of a doubleword can be enumerated, and with bytes of eight bits for what
acts on bytes or on patterns (table lookups, EXT, modified immediates, counts, reversals).

**Floats** is the rest of `fp.go`: scalar and vector decoders, arithmetic with the
architecture's NaN rules, comparison, rounding, conversions. The formats are
scaled (a half has 2 bits of significand, a single 3, a double 8, W and X registers 5 and 10) but keep
what the code relies on: a single is narrower than W, a double wider than W and narrower than
X, a double has twice a single's bits and two more (so that one rounding on top of
another is harmless exactly for single operations), each format has subnormals and overflows
into infinity, NaNs have a quiet bit and payloads of different lengths. Host arithmetic is exact and
rounded once. **FloatMeaning** never rounds: it says that the result is the number of the
format nearest to the exact one, ties to even, and which NaN an operation delivers. It is the
architecture's meaning throughout. The interpreter is known to differ in seven cases, each defined where
it arises and named (`"fused"`, `"integer"`, `"invalid"`, `"second"`, `"rint"`, `"sign"`, `"across"`; section 5);
the constant `Aside` is the set of those a run leaves open. *guest_code* leaves all seven open and says nothing of
them, where they do not occur it holds the code to the exact meaning; it fails if any one name is
taken from `Aside`. *fused_rounds* takes out the one that a comment of the source denies.

**Relocations** is `packed.go` and the section loop of `elf.go`: LEB128, APS2 as a
pipeline of operators on the decoder's variables, RELR, REL and RELA, implicit
addends. A LEB byte carries `GroupBits` (3) payload bits, chosen like the code's seven
so that the last byte of a full word is used in part. **RelocationMeaning** has an
encoder and says which relocations a table stands for, as sums over the entries before.

**Linker** is `Apply`, `symValue`, `LoadModule`, `resolveSymbol` and `makeStub`. `emu` has the tables,
the memory and its protection, `load` the load under way. `LoadModule` takes a base and starts one; `ApplyMap`,
`ApplyReloc` and `ApplyProtect` are Apply's three loops, an iteration each, and end the load at their first
error, with what was mapped and stubbed so far; `EnterExports` ends one that succeeded. The host
may load on after either. Memory is counted in words, and an image is what `Parse` makes of a
file: that it has a symbol table and segments in pages, and that no two relocations patch one word, is
`ImagesAssumption`. **LinkerMeaning** says which definition each reference of each loaded module is
bound to and what memory holds.

**MCGuestCode** has no system of its own: it instantiates the six pairs and makes
each table and encoding a behaviour's first state (`job`), next to the
LoadStore machine and the Linker, which run.

## 3. What TLC checks

`TypeOK` in each module is its type invariant.

*sched_safety* (two fibers, two slices each, two rounds, three contexts, one futex
word besides NULL). Two fibers are the least with which a wake can pass over a
fiber's turn; two slices the least with a resumed fiber that is parked for its
budget; three contexts cover two suspended fibers and main's, so the engine also
runs out. `ContextsOwned`: every context has one holder, none is freed twice or
leaked except by Restore, which drops suspended fibers with their contexts.
`ContextsIntact`: a context holds its owner's execution. `JoinOwnResult`: a join
returns what that fiber's routine returned. `BudgetsHold`, `DoneIsFinal`,
`ImplementsThreads`. Contexts are symmetric: which free one the engine allocates
(`FreshCtx`) makes no difference but its name.

*sched_live*: `RunThreadsReturns`, `SleeperServed` (a sleeping fiber runs before
RunThreads returns), `QuiescentReturn` (if rounds suffice, none is runnable at
the end). Fairness: weak on `Loop`, the host's own code, which the Go runtime
runs to its end; and `GuestFair`, that guest code does not compute for ever
between two traps, which the engine cannot enforce and the code assumes. Six rounds are more than two
fibers with two slices can use.

*sched_parked* (violation): a fiber parked for its budget does not resume when a
futex wake makes it runnable, although the comment on `fsParked` says so.

*page_cache*: two pages that share the only slot of each cache, two page structs,
two decoded pages, two values, one hook on the end of page 0. One slot makes
every fill an eviction; with two pages every access that crosses exists, and a
page struct is reused after an unmap. `TlbCoherent`, `DecodedNotWritable` (the invariant
in the header of `mem.go`), `CodeCurrent`, `ImplementsMemory`. Page structs and
decoded pages are symmetric, and `VIEW` ignores the remains of objects nothing
refers to. `Retire` separates an answer from what happens next and adds no
behaviour.

*addr_space* (a two-page segment of read-only text, one brk page, an arena of two pages): an orderly guest
makes two calls before Snapshot and three between it and each Restore, enough to
map, split and map again inside one region; a guest with all habits one and two.
`TableInSync` (regions and mapped pages agree, and protections but for the read access `mmap`
adds), `BrkInSync`, `AllocFresh`, `RestoreExact` of the orderly guest;
`RestoreWhole` of both: a Restore that reports success has put back every captured
byte, and every recorded range is mapped whole with its protection, but a range that was not captured may stay
torn beside a page of it that was mapped all along. The segment here is a text of two pages, so that the
exception occurs (section 5). *brk_regrow* (violation): pages above the restored break stay mapped when a call
lowered the break, though the comment says they are released.
The bound on calls ends behaviours without a snapshot.

*kernel_files* (a provided file that may be overlaid and one that only the guest writes, two
descriptors, files of two bytes, one snapshot): the least with a reader and a
writer of one file on both sides of a snapshot. `StreamAtEnd`: output through one
descriptor is one stream, whatever mix of write, which goes to the position, and writev, which goes to the
end, it used. `FreshFd`, `SharedViewIsPrefix` (a reader
never sees a mix of old and new bytes but a prefix of the file, or the old ones),
`RestoreRewinds`, which names the two things the code does not rewind. `Apart` leaves
out states in which a file is written and directories, randomness or the exit latch
are in use as well: they read nothing of each other. Exit ends the guest.

*jni_handles* (three handles, three classes of which the guest names one, one member
name, two IDs, a snapshot that leaves room for one more object): a handle is dropped
by Restore and given out again to another object. `HandlesResolve`: a handle the
emulator keeps outside the table names what it did. `NoReuse`, `RestoreRewinds`.
`Apart` takes natives, exceptions, pins, arrays, statics, fields and second members
one at a time: what they have in common is the table and the snapshot. *jni_arrays*
(violation): what a call writes into an older array survives Restore.

*unicorn_engine* (the driver and one more caller, one block, two hooks, Starts two deep): two
callers are the least that compete for the slot, two hooks the least of which one
is added before and one during a Start. `HooksSeen`: whatever a Start runs, it runs with every
code hook there was when the outermost Start began. `RegistryExact`,
`ImplementsCalls`, `CallsReturn` (every call returns). Fairness: weak on the engine's thread and on
callers that can go on, strong on entering the critical section (Windows grants it in the
end), and `GuestEnds`, that no Start and no callback runs for ever. Closed or out of
hooks, the system may stop.

*guest_code*: `ComputesRight` of every data-processing and branch encoding over the fields
in `Jobs` and 16 operand values on each side (zeros, ones, sign bits, carries across W and X);
of 4072 vector encodings (each group's opcodes, sizes, both lengths, scalar and vector, on
register files whose lanes hold the extremes and their neighbours); and of 3208
floating-point encodings on every pair of 38 singles or 64 doubles, or a third of the
pairs where there is an addend or a lane as well: zeros, the least subnormals, numbers around ties, around
the bounds of W and X, and around overflow, infinities, quiet and signaling NaNs;
`AccessesRight` and `FaultKeepsState` of every load-store encoding, on each of six
protections of two pages and from bases in the middle, at the end and across the boundary of a page,
and of every sequence of three exclusives, stores and CLREX on two addresses, with a fault mended by the host
in between; `RelocsDecoded` of every stream of up to three LEB bytes, all 512 combinations of
flags of three APS2 groups, RELR tables of up to three words and images of two
sections; `LinksRight`, between any two steps of Apply too, of every sequence of up to three loads (`LastBase`) of seven
images, of which three fail in different places and one shares a page with itself. The machine stops
after its program, the linker after its last load.

*fused_rounds* (violation): FMADD of singles on every triple of *guest_code*'s numbers. Its result is not
always the exact sum rounded once, which `fma`'s comment says it is.

## 4. What is proved

Every invariant, action property and refinement of section 3 is proved for every value of the
constants, but for liveness and two of the five properties of *guest_code* (see the end of this
section). All proofs rest on the named assumptions of the modules
only: sizes are natural numbers, segments do not overlap, the classes a guest may name exist, and
the marks of absence (`NoCtx`, `NoPage`, `Nothing`, `None`, `Nil`, `Absent`) are no values. The code
has these by its types (a Go nil is no pointer, an empty command slot no command). Of LoadStore:
pages divide the address space and the widest access fits in one (`PagesAssumption`), an
encoding's fields have the ranges of their bits (`ProgramsAssumption`), and two facts about powers of two that
the provers do not know (`WordsAssumption`). Of Linker: an image is well formed (`ImagesWellFormed`; its segments have pages, since `mem.go:174` maps nothing of size 0) and its areas are sizes
(`AreasAssumption`). TLC evaluates each.

An invariant of a run is seldom inductive. Each module below therefore states an invariant `IInv` that is,
as a conjunction of named parts, with one lemma per action or per part under it;
theorems then read their property off `IInv`.

| module | theorem | states |
|---|---|---|
| `SchedulerProofs` | `Invariance`, `Typed`, `Ownership`, `Intact`, `Budgets` | `IInv`, `TypeOK`, `ContextsOwned`, `ContextsIntact`, `BudgetsHold` |
| | `DoneStaysDone`, `Quiescent`, `Joins` | `DoneIsFinal`, `QuiescentReturn`, `JoinOwnResult` |
| | `RunThreadsBounded`, `RunThreadsNears` | RunThreads has a bounded way to go, and each step but the guest's own computing goes along it |
| | `Implements` | `ImplementsThreads` |
| `PageCacheProofs` | `Invariant`, `Typed`, `NeverStale`, `StoresSeeCode`, `NoStaleCode` | `IInv`, `TypeOK`, `TlbCoherent`, `DecodedNotWritable`, `CodeCurrent` |
| | `Settled`, `Implements` | two more invariants, `ImplementsMemory` |
| `AddressSpaceProofs` | `Inductive`, `Typed`, `TableInSyncAlways`, `BrkInSyncAlways` | `IInv`, `TypeOK`, `TableInSync`, `BrkInSync` |
| | `AllocFreshAlways`, `RestoreExactAlways`, `RestoreWholeAlways`, `RestoreSucceeds` | `AllocFresh`, `RestoreExact`, `RestoreWhole`; an orderly guest's Restore does not fail |
| | `RemapsOrderly`, `ReleasesBrkOrderly` | two comments of `Restore`, for an orderly guest |
| `KernelProofs` | `Inductive`, `Typed`, `FreshFdAlways`, `SharedViewIsPrefixAlways`, `StreamAtEndAlways`, `Rewinds` | `IInv`, `TypeOK`, `FreshFd`, `SharedViewIsPrefix`, `StreamAtEnd`, `RestoreRewinds` |
| `JniProofs` | `Inductive`, `Typed`, `HandlesResolveAlways`, `NoReuseAlways`, `Rewinds` | `IInv`, `TypeOK`, `HandlesResolve`, `NoReuse`, `RestoreRewinds` |
| `EngineProofs` | `Inductive`, `Typed`, `HooksSeenAlways`, `RegistryExactAlways`, `Implements` | `IInv`, `TypeOK`, `HooksSeen`, `RegistryExact`, `ImplementsCalls` |
| | `NothingLost` | a caller that waits has its command up, in service or answered |
| `LoadStoreProofs` | `WidthsKept`, `FaultsExact`, `FaultsKeepState` | every value keeps its width; an instruction faults exactly if a byte of its access is denied; `FaultKeepsState` |
| | `FaultsRight` | an encoding faults exactly when the architecture says it must |
| | `AccessesRightAlways` | `AccessesRight`, every encoding and every byte |
| `LinkerProofs` | `LinkInvariance`, `LinksRightAlways` | `LinkInv`, `LinksRight` for any images in any order |

*Scheduler.* That a context is not freed twice needs to know which function is in control, that
`cur` indexes the fiber whose slice runs and that this fiber holds no context, that a snapshot
exists exactly when its context does, and that contexts in use are allocated. `IInv` joins the types,
the *shape* of the control state, ownership, contents and budgets. `Joins` adds that the
list numbers its fibers with rising ids (`Numbered`), from which the first fiber with a given handle is
the right one if handles differ. Its hypothesis `MaxFibers <= HandleSpan`, no more threads than handles (256), is
needed: past it the code answers with another thread's result (section 5). `Quiescent` adds what
a round knows of the fibers it has passed (`RoundIdle`): while `progressed` is false none of
them is runnable, because only a slice wakes or creates one, and a slice sets the flag.
`RunThreadsBounded` and `RunThreadsNears` are the safety half of `RunThreadsReturns`: rounds, places in
the list as long as the round found it, stages of a slice and counted calls of a slice are ordered
lexicographically and bounded, and every step while RunThreads works moves on in that order,
whatever the threads do to each other, but a step in which guest code computes. What is left to fairness is
that steps are taken and that guest code does not compute for ever.

*Scheduler implements Threads.* The abstract state is read off the list by thread id; `Viewed` says
what is read for each fiber, so that a step that changes one fiber and main's context is compared in one
place. There is one lemma per kind of step: entering and leaving RunThreads, a slice's
start, its traps and its four ends, a fault, and the host's calls. What the implementation may drop (a
fiber whose save was refused, or that Restore forgot) is `lost` in Threads, which never runs again.

*Interpreter memory.* Coherence is not inductive by
itself. A store changes one page struct, so every other cached page is left alone
only because no two page numbers share a struct (`Unshared`). An access interrupted by a callback
resumes with the pages it has still to resolve, and completes into a cache only if it
is inside one page that was resolved again (`FlightShape`). A store that hits
the write TLB skips `dropCode`; it hits no decoded page because `fetch` evicts the
page it decodes (`DecodedNotWritable`). A decoding belongs to one page
struct and is of its content (`CodeTrue`). The lemmas the actions share are `Flushed`, `StoreFacts`,
`StoreKeeps`, `FetchKeeps` and `OnlyForgets`.

*PageCache implements GuestMemory.* Beside coherence it takes that a page without an array reads as zero (`Blank`) and
that an interrupted access has only pages of its own left to resolve, and has run its hooks unless it waits for the
invalid-access handler (`Begun`); `Settled` proves both. A fast path then gives the answer of the slow
one, and resolving a page or filling a cache is a stutter.

*Address space.* Where regions lie and what a snapshot holds (`Placed`, `Taken`) is kept by every guest. For
an orderly guest `InStep` relates table, cursor, break and engine, now and in the snapshot, and the break
has only moved up since: that is what lets Restore unmap what is new and find the rest. `RestoreExactAlways` and
`RestoreSucceeds` say together that such a guest's Restore cannot fail and is exact. The protection of a
page is the region's or that with read access: `mmap` asks the engine for `prot|ProtRead` and records `prot`
(`syscall.go:392`). A Restore sets the recorded one. `RemapsOrderly` and `ReleasesBrkOrderly` prove of an orderly guest
two comments that do not hold of every guest (*brk_regrow*, and the torn range of section 5): it takes a lowered
break, or a range that is in pieces when Restore comes to map it. `RestoreWholeAlways` is about any
guest: Restore reports success only if it wrote back each captured range, which fails on a hole, and `Remap` maps
every range that is gone altogether, so that what stays torn is not captured and was in part there all along.

*Files.* The descriptors in use and those in each snapshot are sound by the overlay of
their own time, but what a reader shares is a prefix of the overlay's file as it is *now*, in a snapshot too:
a write changes the array under the snapshot's reader. `Alike` says in which bytes a snapshot may therefore differ from what
it was when taken, and `Rewinds` that Restore brings back all else.

*Java objects.* A table is whole when it holds the handles below its counter and what the class cache, the statics and
fields refer to. Both the table in use and the snapshot's are, and the latter because the
host's own object refers to handles of the table until the first snapshot is taken (`Hosted`).

*Engine.* `IInv` says who holds the slot and what the two events mean
(`Slot`, `Events`), what the driver's command is for each thing its method goes on to do (`Roles`), how deep it is
(`Depths`), which hooks engine and registry have in the middle of an add or a remove (`Registered`), and that
translations that miss a hook are due for a flush (`Translated`). The refinement of EngineCalls follows by steps: the engine's answer
is the abstract effect, everything on either side of it an invocation, a return or a stutter.
`NothingLost` is the safety half of `CallsReturn`: no interleaving of the lock, the slot and the two events leaves a caller
of `ucs_run` waiting for an answer nobody will give. Its statement names the one exception of the code: after a
failed open `ucs_free` waits for a thread that has ended (`uc_shim.c:230`); no run takes that branch.

*Loads and stores.* `ldst.go` has for one access a fast path within a page the TLB knows, a slow path over bytes, pairs,
exclusives and multi-register forms that compose them, and specialised handlers that do the same again.
`Outcome` says what each part of a handler passes to the next: a state of the right widths that has faulted exactly
if a byte was denied, and then differs from the state before by the fault alone. Fast and slow paths come down to
one question about bytes (`Span`), since pages divide the address space. The decoder hands each
handler operands it can run on (`Operands`): registers that exist, sizes that are powers of two and fit. `Instruction` is
the lemma about one step of any program. `FaultsExact` speaks of handlers and their
operands; `FaultsRight` follows the decoder as well, class by class, to the encoding: what is allocated, which
address and how many bytes it accesses, with which right. Values are gathered from bytes by a recursive function, `Gathered`; what it returns is
proved by induction over a set of numbers (`SetInduction`), not with the library's induction theorems.

`AccessesRightAlways` compares the two descriptions of an access byte by byte. A value read has in its k-th byte the k-th
byte of memory (`ReadBytes`), and a store changes the cells at distance 0 to n - 1 of the address, modulo 2^64, to the
bytes of the value and no other (`Stores`, `StoresBoth`). From these there is for each handler what it makes of registers, vectors,
monitor and memory, exactly (`Is`), with the order in which a pair load and its write-back set registers. Per class of encoding a lemma then
says that this is what `AccessMeaning` asks for (`SingleRight`, `PairRight`, `ExclusiveLoadRight`,
`ExclusiveStoreRight`, `MultiRight`, `SystemIsRight`). For LD1 to LD4 and ST1 to ST4 it needs that
the lanes a handler walks and the places of the bytes count the same thing, interleaved or not (`PlaceOfLane`). That register
31 reads as zero (`ZeroInv`) is used for literals, whose base it is: no instruction writes it.

*Linker.* An image under way is a module in part. `PartRight` says what is right once so many segments are mapped,
relocations done and segments protected, counted from the step of Apply (`Progress`); what remains of a failed load claims
nothing but its pages. `LinkInv` says that of each loaded module the whole is right and of the load under way its part; that
modules lie below each other's bases, mapped, in pages of their own; and that the symbol table is the first
definition of each name. A step adds to the part of its own image (`Maps`, `Relocates`, `Protects`) and disturbs no other's
(`PartStays`): it extends the tables, and it writes either a stub or between the base of its own image and the next. A weak reference
that nothing defined stays null when a later module defines it, because a reference is bound by what was loaded before its
module (`DefinersStay`). All this as long as stubs and modules have not run into each other, which is
`Apart` in `LinksRight`: the code checks it nowhere, and has 0x4e000000 bytes between them.

Only model-checked are:

* liveness, `RunThreadsReturns`, `SleeperServed` and `CallsReturn`: the prover has neither fairness nor ENABLED. The
  safety halves of the first and the last are proved;
* what guest code computes and relocation tables say (`ComputesRight`, `RelocsDecoded`): these modules use RECURSIVE and bitwise
  operators, with which the prover loses its SMT backend, and what a recursive decoder computes for every input takes induction
  over its data.

## 5. Findings

* A fiber parked for its slice budget is not resumed by a futex wake:
  `parkFiber` frees its context (`scheduler.go:36` against `151-157`).
* `brk` lowered before Restore leaves mapped pages above the restored break, and
  the next growth over them fails (`syscall.go:223-228`, `730-735`).
* A fused multiply-add of singles is rounded twice, to double and then to single, although `fp.go:581` says "one
  rounding, as FMADD requires" and `fp.go:584-586` that narrowing "does not double-round" (`fp.go:587`). In the trace
  96 · 3/16 + 1/16 = 18 1/16, whose nearest single is 20; the nearest double is 18, halfway between 16 and 20, and
  becomes 16. At the real widths FMADD of 80581, 13325·2⁻⁵⁴ and 1 gives 1 instead of 1 + 2⁻²³.
* Arrays are shared between the table and its snapshot, so what a call writes into
  one survives Restore (`dvm.go:62` against `snapshot.go:15-16`).

Seen while modelling, without a run of its own; the models do as the code does:

* Scheduler: Restore forgets the contexts of suspended fibers (`orphans`); fiber ids 1 and
  257 share a handle (`scheduler.go:162`); futex WAIT does not compare the word; time
  is counted per saved context and goes back across fibers.
* Address space: the mmap cursor does not look at MAP_FIXED mappings above it. Restore maps a recorded range
  again in one call whose error it drops (`snapshot.go:213-221`); the engine refuses the call if any page of the
  range is mapped (`mem.go:194-198`), so a hole in a range stays. A guest makes one with munmap of one page of its text,
  or with MAP_FIXED over one, whose region Restore itself unmaps first. A captured range with a
  hole makes Restore fail instead. `RestoreWhole` allows exactly this.
* Files: a negative lseek is accepted and the next read or write ends the host; writev
  reports success on closed and on read-only descriptors; Read and Exists disagree about a
  path the host denies; a random stream first used after a snapshot is not put back
  where it was by one that has a stream (`syscall.go:238-243`).
* JNI: `clone` breaks the identity of an object the host keeps; its fields are not rewound; elements of object
  arrays may dangle after Restore; GetFieldID through a sub- and a superclass gives different
  keys; CallNativeStatic mints a class handle for an unknown native.
* Interpreter: the monitor does not compare the value its comment mentions (`cpu.go:47-48`
  against `ldst.go:539`); `opLdp64Off` and `opVLoadPair` write the first register before
  the second read faults; a faulting STXR clears the monitor. `FaultKeepsState` names all three.
* Floating point, besides *fused_rounds* (the other six cases of FloatMeaning): SCVTF and UCVTF of 64-bit
  integers to single go through double as well, against `fp.go:5-6` (2⁶⁰ + 2³⁶ + 1 gives 2⁶⁰); FMADD of a
  quiet-NaN addend with infinity times zero returns the addend; FMAXNM and FMINNM of two quiet NaNs return the
  second; FRINT* of a signaling NaN in double and vector forms is not quietened by every host; scalar single FABS and FNEG of
  one is; FMAXV, FMINV and their NM forms reduce linearly, which signaling and all-quiet NaNs show. Vector FRINTI is not
  decoded (FRINTX's encoding is labelled so).
* Linker: a stub that does not fit in its area is not written and used all the same; symbols that
  a later library defines stay stubs; LoadLibrary runs the first module's JNI_OnLoad
  for each library (`emulator.go:316-330`).
* Engine: a failed open waits for a thread that has ended (`uc_shim.c:230`); Stop from another
  thread waits behind the running Start on Windows; a second driver would race hookAdded's look at
  the depth with Start.

## 6. Not modelled

CRC32, LSE atomics (off in the code) and system registers;
the batches, limit and counters of the run loop; the Dynarmic JIT, whose control is a subset of
Unicorn's; mapping guest paths to host paths, DEX parsing, the debugger, tracer and symbolizer;
argument and structure layouts of system calls and JNI, string encodings, clocks;
ELF headers and init arrays; commands, examples and build files. Scheduler, AddressSpace,
KernelFiles and JniHandles each have their part of Snapshot and Restore; the four in one state
would multiply without interacting, since the steps of one read nothing of another's.

## 7. Plan

Left to prove: that the abstract modules keep what they promise (a finished thread's result in
Threads, a hook not missed in GuestMemory, one answer per call in EngineCalls), which with the refinements
carries over to the code's models; and operator lemmas of the guest code that need no recursion (scaled
words). Left to model: the batches and the limit of the run loop.
