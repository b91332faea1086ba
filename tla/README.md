# A verification of Synthpod's engine

Synthpod is a host for LV2 plugins. Its engine (`src/app`) runs a patch of
modules in a realtime thread and a pool of slave threads, takes orders from a
user interface and a session manager, and leaves what may not run in realtime
to a worker thread. The binaries in `src/bin` give it a driver (dummy, JACK,
ALSA) and that worker. This directory models the parts of it whose correctness
lies in the interplay of threads and orders, checks them with TLC, and proves
the central properties of the scheduler, of the ring, of the blocking protocol
and of the URID map with TLAPS.

Paths without a directory (`app.c`, `port.c`, `bin.c`, ...) stand for
`src/app/synthpod_app*.c` and `src/bin/synthpod_*.c`.

## 1. Inventory

| Component | State | Operations | Talks to |
|---|---|---|---|
| DSP scheduler (`app.c`, `app_port.c`, `app_private.h`) | `dsp_master` (semaphore, flags, `concurrent`), `dsp_slave[]`, per module `ref_count`, `sinks`, `num_sources` | a period (`_dsp_master_process`), a slave's loop, `_dsp_master_reorder`, `sp_app_run_post`, `sp_app_free` | modules' plugins; everything that changes the patch |
| varchunk ring (`varchunk.h`) | `head`, `tail`, the buffer, and the producer's `rsvd`, `gapd` | write request and advance, read request and advance | joins every pair of threads in the program, and the processes of a plugin UI |
| Blocking protocol (`app_ui.c`, `app_worker.c`, `bin.c`, `dummy.c`) | `block_state`, `silence_state`, `load_bundle`, two rings of jobs, two queues of messages | messages of the UI, jobs and replies, session requests | realtime thread, worker, UI, session manager |
| Ports and ramps (`app_port.c`, `app_private.h`) | `sources[]` with ramp, gain; control values and their stash | connect, disconnect, fades, multiplexing | scheduler, blocking |
| lfrtm allocator (`lfrtm.h`, `bin.c`) | one offset, a row of pools, the flag `inject` | `lfrtm_alloc`, `lfrtm_inject` | mapper; the realtime thread wakes the worker for a pool |
| URID mapper (`mapper.h`) | a hash table of pointers to strings | map, unmap | every thread of the host, and plugins |
| Modules and their workers (`app_mod.c`) | `app->mods`, a thread, three rings and a semaphore per module | add, eject, delete, schedule, respond | scheduler, worker |
| State (`app_state.c`) | bundles and presets on disk | load, save | worker |
| UI handlers (`app_ui.c`) | properties, automations | get, set, insert, remove | realtime thread |
| Drivers (`dummy.c`, `jack.c`, `alsa.c`) | the period | call `pre`, `post`, pass events | engine |
| NSM client, sandboxed UIs, clocks, atom formats | own small states | see `PROJECT.json` | |

What is hard in it:

* *Concurrency without locks.* Slaves share the graph, claim modules by
  compare-and-swap and learn by counts when one is ready. The realtime thread
  may change the graph only when they are away. Two threads share a ring with
  nothing but two offsets.
* *Protocols spread over threads.* One `block_state` is driven by messages,
  replies and session requests; a wait for silence is ended by a ramp.
* *Timeouts.* A late slave makes the realtime thread declare an emergency.
* *Capacities and boundaries.* Rings wrap, leave gaps and fill up; pools of
  memory end; probe sequences reach a part of the table.
* *Deferred effects.* Many orders only start a ramp, whose end, periods later,
  cuts a connection, deletes a module or lets a preset load; the place a ramp
  is kept in moves when a neighbour goes.
* *Shutdown* uses the same semaphores and the same loop as a period.

What makes each component correct: a period runs every module once, after
its sources, and ends, and nothing changes the graph meanwhile (scheduler); a
ring is a queue of unharmed chunks that serves whoever tries again (varchunk);
blocking jobs come one at a time, no job names a deleted module, the worker
changes a patch only while it is not run, every message is handled and no
module stays mute (blocking); a removed connection takes its ramp and no other
with it, and every order is carried out in the end (ports); no two threads get
the same memory and none waits for it for ever (lfrtm); a URI has one URID for
all threads and all time (mapper); each scheduled piece of work is done and answered once, and
none after deletion (module workers).

`PROJECT.json` lists the components with their status and the hazards line by
line, with the properties that cover each or the reason none does.

## 2. Modules

| Module | Contents |
|---|---|
| `DspCycle` | abstract: what a period promises (once, in order, all) |
| `DspMaster` | the scheduler, one step per access to shared memory |
| `DspMasterProofs` | theorems about it: types, no module twice, the realtime thread alone with the graph |
| `DspGraphProofs` | lemmas: what `_dsp_master_reorder` leaves behind |
| `DspOrderProofs` | theorems: order, counts, no deadlock in a period |
| `DspCycleProofs` | theorems: complete periods, the refinement of `DspCycle` |
| `MCDspMaster` | patches for TLC |
| `Fifo` | abstract: a queue of chunks |
| `Varchunk` | the ring, with byte offsets |
| `VarchunkProofs` | theorems about it |
| `Blocking` | realtime thread, worker, UI and session manager |
| `MCBlocking` | two modules, side by side or in a chain |
| `BlockingProofs` | theorems about it |
| `Ports`, `MCPorts` | arrays of sources, ramps and their ends; patches of three modules for TLC |
| `PortsProofs` | theorems about them |
| `Lfrtm` | the allocator: the steps of a thread in it, and its injection |
| `UridTable` | abstract: a table from URIs to URIDs that only grows |
| `Mapper`, `MCMapper` | the map on top of `Lfrtm`; three colliding URIs for TLC |
| `MapperProofs` | theorems about both |

`Blocking` and `Ports` share the ramps: `Ports` has the arrays, with several
connections of a module and several sources of a port, and what their orders do
to each other; `Blocking` has the protocol that waits for a ramp's end. `Mapper`
extends `Lfrtm` and is the composition of the two.

Definitions that say "Mutant of" are deliberate mistakes. No specification
uses them; each takes the place of the definition after it to see that a
property notices the mistake.

### DspMaster

A module is its rank in `app->mods`. Thread 0 is the realtime thread; the
others are the slaves. `pc`, `cur`, `head` and `idx` say where each thread is
in `_dsp_slave_fetch`: `spin` (test of `emergency_exit`, start of a pass),
`cas` (before the compare-and-swap), `run` (inside the plugin), `sub`
(decrementing the next sink). `Claim`, `SkipClaimed` and `SkipLater` are the
three outcomes of the swap, `SkipLater` also the spurious failure of the weak
one (which leaves the count at 0). `clear` and `add` are the two halves of `_dsp_master_reorder`, which a
thread enters from a change of the patch or, as `RampCut`, from a fade that
ends inside a run. `WaitOne` and `WaitTimeout` are `_dsp_master_wait`, the
three `End...` actions the three ends of `sp_app_run_post`, `Free...` the steps
of `sp_app_free`. Where only one thread can be at work, a loop is one step.

The build is the default one, with `dynamic-parallelizer` (`meson_options.txt`).
Abstracted: weights (`EndReweight` picks any degree of parallelism up to the
number of modules), the modules' own work, moving a module within the order.
`plan` and `runs` are ghosts: the forward edges at the start of the period,
and how often each module was started.

### Varchunk

Offsets are those of the code, in 8-byte words; a word holds a header
(`size`, `gap`) or the tag of the payload it belongs to. The producer's steps
are request, payload, header, advance; the consumer's are request, gap, look,
advance. `Want` and `GiveUp` are the callers: a chunk is tried again or
dropped. With `ToTheMax` the producer instead fills the maximum it was told.
The model is sequentially consistent; the code's release and acquire on `head`
and `tail` are taken to order the accesses to the buffer.

### Blocking

The realtime thread goes through the steps of a period in the order of
`bin_process_pre`: `replies`, `pre` (an ejection), `ui` (the UI's ring),
`app` (queued events of modules), `run` (the graph and its ramps) and `com`
(new events of modules); a bypassed period leaves out `pre`, `run` and `com`.
The worker takes a job, does it and replies; a bundle is loaded in two
steps, `Reset` and `FinishJob`, so that the patch is seen empty. `Manage` is a
request of the session manager, made in the worker thread between jobs.

Abstracted: each module has one audio connection (`Feeds`), all ramps have the
same length, `preset` stands for a preset load or a reinstantiation and `save`
for saving a bundle or a preset. Left out: DOWN_DISABLE, the limit of ten
messages per period, a full queue of the modules' events, and what a reply
does with a module freed in the meantime. Initially the first bundle has been
loaded. The ghost `lost` remembers that a full ring swallowed something.

### Ports

All of it happens in the realtime thread, between which and the others the
period's end makes order; `Pre`, the messages and `Run` follow each other as in
`bin_process_pre`. A source is its output port, the state of its ramp and the
periods left of it, in the place it has in the array. `Cut` is
`_sp_app_port_disconnect`, whose loop moves ports and nothing else one place
forward, so that a source takes over the ramp of the one cut before it. `Run`
multiplexes each audio input from its first source to its last, while the end
of a ramp takes sources out of the array (`UpdateRamp`, by places);
`DropAll` and `CutAll` are the loops of `_mod_list_rem` and `_sp_app_mod_eject`,
which skip the entry behind the one they remove. A loop is a recursive function
of the pass, with one operator (`DropAt`, `CutAt`, `UpdateRamp`) for a pass. `PresetLoad` and `PresetLoaded` are the
two moments `Blocking` describes the rest of; while a preset loads the UI's
queue stands still.

The ghost `wanted` holds the connections the user has asked for, `doomed` the
modules removed. The ghost `calm` becomes FALSE, for good, when an order meets
a ramp under way that takes something away, or finds an array full: the code
then drops the order or overwrites the ramp (section 4), and nothing is
promised. Nor is anything where a module feeds one input by two audio ports
(`Separate` excludes it), since then its two fade-outs get in each other's way
(`ports_stereo`). `NoDanglingSource` and `NoSourceTwice` hold without either.

### Lfrtm and Mapper

An address is the offset it was taken from. Each access to shared memory is a
step: `FetchPastEnd`, `FetchStraddling` and `FetchChunk` are the outcomes of the
atomic addition, `Await` is the loop that spins while a pool is on its way,
`Request` the compare-and-swap that asks for the next pool. `lfrtm_inject` is
called by the thread that asked, or for the realtime thread by the worker, which
`Signal` tells (`bin->inject`) and `TakeInject` hears. `Mapper` adds
`_mapper_map`: `Find`, `Collide`, `Overflow` and `Vacant` are what a load of a
slot leads to, `Claim`, `Stolen` and `Lost` what the compare-and-swap leads to.
After a lost race the clone is kept for the next slot, as in the code. The
string at an address is the URI it spells; a URID is the number of a slot, since
both programs make the map with `nstats` 0. The ghost `new` remembers whether a
URI was in the table when the call began, `answers` all answers ever given.

## 3. Runs

| Run | Bounds | Result |
|---|---|---|
| `dsp` | 3 modules, 2 slaves, edges 1→3, 2→3, 3→2, of which 1→3 may be faded out | holds |
| `dsp_live` | the same patch, 1 slave, fairness | holds |
| `dsp_shutdown` | 2 modules in a row, 2 slaves | `AssertHolds` fails |
| `dsp_hang` | one module feeding two, 1 slave, fairness | `EveryPeriodEnds` fails |
| `varchunk` | 64 bytes, chunks of 0, 13 and 30 bytes, 3 tags, fairness | holds |
| `varchunk_max` | 64 bytes, chunks of 3 and 13, filled to the maximum | `WriterApart` fails |
| `block` | 2 modules side by side, 2 UI messages, 1 event, 1 session request, rings of 2, ramps of 2 periods, fairness | holds |
| `block_load` | the same without session and events | `LoadAlone` fails |
| `block_stuck` | one module feeding the other, fairness | `AllTaken` fails |
| `mapper` | 3 URIs of 1 and 2 bytes whose probes meet, 4 slots of which a probe sequence reaches two, 2 pools of 4 bytes, the realtime thread and another as callers, the worker, fairness | holds |
| `ports` | modules a, b and m; a and b feed one audio input of m, a feeds b by audio and two control voltages; ramps of 2 periods, arrays of 2, fairness | holds |
| `ports_stereo` | a feeds an input of m by two audio ports, b by one; ramps of 2 periods, arrays of 3 | `OnlyRemovedMarked` fails |

*Why the bounds are enough.* Three modules are the fewest with a sink of two
sources, a source of two ranks apart and a feedback edge, which may not count;
two slaves beside the realtime thread let two be in a pass while a third wakes
or posts late. All orders of adding, connecting and ejecting happen. In a ring
of 64 bytes chunks of 0, 13 and 30 bytes make every case of a request occur:
one part or two, a fit in the first, in the second after a gap, in neither; a
chunk of 30 is the largest that half of the ring must hold with two headers,
and a tag that returns after two others tells stale words from fresh ones.
In `Blocking` two messages are the fewest that can overlap (one drained, one
waiting) and rings of two jobs do fill up; longer ramps add waiting only.
In `Mapper` two callers race for a slot in all ways (same URI, another URI with
the same slot, a slot that is reached after a collision); three URIs are the
fewest that fill the two slots a sequence reaches and leave one to be refused.
Two pools of four bytes make chunks straddle, the second pool be requested, by
either kind of thread, and the memory run out. In `Ports` an array of two has a
source to move when the other is cut; a ramp of two periods can be met in its
first and before its second; b has sources and a sink, so that what its removal
does to both is seen, and its audio input and its control voltages differ in
that the latter are cut at once. The branch for a full array (`port.c:233`) is
not reached, as no input has three candidates; MAX_SOURCES is 32.

*Fairness.* `DspMaster`: every thread is scheduled, a plugin's `run` returns,
and the weak compare-and-swap does not fail spuriously for ever. `Varchunk`:
a producer that has something to write and a consumer keep trying, as the
callers' loops do. `Blocking`: the driver's loop and the worker's loop run.
Neither messages, events, timeouts, session requests nor changes of the patch
are ever required to happen. `Ports`: the driver calls one period after the
other; as half a period can always be taken, `[]<><<Period>>_vars` is its weak
fairness. `Mapper`: each thread inside the map is scheduled, and the worker's
loop comes round; no compare-and-swap there is a weak one. `Mapper` has states
without a step: a thread that spins takes none, and idle threads need not call.
The run therefore does not look for deadlock; that all threads wait for a pool
nobody injects would be found by `EveryCallEnds`.

*`block` keeps apart what may not meet.* Its specification `ApartSpec` has
either session requests or messages, since together they break the protocol:
the session manager's requests write `block_state` from the worker thread
("FIXME not rt-safe", `app_worker.c:547`), and a drain's reply that is on its way
then finds WAIT where it asserts DRAIN. With `SPECIFICATION Spec` for `ApartSpec`
in `MCBlocking.cfg` TLC reports `OneAtATime` violated, and `AssertsHold` when it
is the only invariant.

## 4. What the failing runs show

* `dsp_shutdown`: `sp_app_free` wakes the slaves to end them; they first spin
  over modules whose counts were never set and trip the assertion at `app.c:719`.
* `dsp_hang`: a ramp's end disconnects and reorders inside a period; a sink can
  lose a decrement, and then the realtime thread spins without end, while the
  emergency exit is only taken in the wait that follows the spin.
* `varchunk_max`: the reported maximum includes the header's eight bytes.
* `block_load`: bypassing begins with the next period, the worker with the
  request; between them the patch is freed while it is run.
* `block_stuck`: removing a module cuts the ramp that a module feeding it is
  being muted with; the muting never ends, the UI's queue is stuck.
* `ports_stereo`: a module with two audio ports at one input is removed, and
  another module's source stands behind them. Both fade-outs end in one period:
  the first cut moves the second port to a place whose ramp is cleared, and the
  other module's source to the place that still says DOWN_DEL. That source is
  cut in the same loop, and its module marked and deleted, in the user's place.

Seen while modelling and not run, since no line of the repository states
otherwise: `sp_app_free` waits for one post per slave, but a slave preempted
between its last post and its test of `kill` leaves without another
(`app.c:788-791`, `1373`), so that it may wait for ever; replies to preset jobs
dereference a module that may have been deleted (`app_worker.c:191`, `244`); a
chunk that with its headers needs more than half of a ring may be refused for
good even by an empty ring, depending on where the offsets rest, which is why
`EmptyRingTakes` and `Served` ask for half. In the same way:

* *Orders that meet a ramp* (`Ports`, where `calm` excludes them). A
  disconnection during a fade-in does nothing, though the UI is told that the
  connection is gone (`app_ui.c:1294`); a connection during a fade-out only
  changes its gain and is cut with it; muting for a preset and unmuting
  overwrite a removal's ramp, so that it is lost (`port.c:420`, `348`); of two
  removals from one sink that end in one period the second is lost, because the
  ramp cleared at `port.c:466` is already that of the next source.
* *The compaction* moves only the port (`port.c:273`): the source behind plays on,
  and is saved (`app_state.c:1085`), with the gain of the one cut.
* *Loops that remove what they walk over* (`app_mod.c:1170`, `app_ui.c:1766`)
  skip every other entry. What an ejection leaves behind goes with the module.
* *`lfrtm_alloc` in the worker.* The worker spins for ever if its own chunk lies in
  a pool the realtime thread has asked it for; in `mapper` it makes no calls. A
  `calloc` that fails in `lfrtm_inject` (`lfrtm.h:135`) leaves the pool on its
  way for good. With pools smaller than a chunk for each thread and one more,
  memory is refused while there are pools left; real pools have 1 MB.
* *The map.* Adding `i*i` modulo a power of two (`mapper.h:113`) reaches a fraction
  of the slots, so that a URI can be refused while most are free. The URI in
  slot 0 gets URID 0 (`bin.c:372` sets `nstats` to 0), which `_mapper_unmap`
  calls invalid (`mapper.h:184`), so that `OneUrid` and `RoundTrip` except 0.
  A clone left over at the end of a call is lost: giving it back does nothing.
  `_mapper_unmap` accepts a URID one past the last (`mapper.h:196`).
* *Reinstantiation* (`app_mod.c:1216`) frees the instance in the worker while the
  module's own worker thread may be in it, and while the realtime thread still
  hands it responses; a plugin with control ports only is not bypassed.

## 5. Proofs

The theorems assume what the modules assume of their constants, which TLC
evaluates, and where a theorem assumes more it says so; why it must is said here.
Each inductive invariant was checked by TLC before it was proved.

*Scheduler* (`DspMasterProofs`), for any number of modules and slaves, any set of
connections and of connections that fade:

* `TypeCorrect` (`Spec => []TypeOK`). `TypeOK` is inductive; it is split in
  four parts so that each action is shown to keep the part it touches. The one
  fact that needs more is that a scan of `app->mods` finds a module or the end
  (`FirstFromFact`), by well-foundedness of the naturals.
* `RunOnce` (`Spec => []RunAtMostOnce`). Strengthened: a module that was
  started has reference count below 0 for as long as the period lasts. A claim
  needs a count of exactly 0; counts are only ever decremented within a period;
  a period starts with all ghosts at 0.
* `Exclusive` (`Spec => []GraphExclusive`). A counting argument: a slave is
  *busy* from the post that wakes it to the post it makes, and at every moment
  before shutdown `masterSem + |busy slaves| = posts still owed`, where owed is
  `cnt` while slaves are woken and `num - cnt` while they are awaited. When the
  period is over nothing is owed, so that no slave is busy and no post is left.
  Timeouts and the emergency exit do not change either side. `AtHand`,
  `SlavesInOrder` and `MasterInOrder` keep the program counters such that the
  equation can be carried through every action.

*Order of a period* (`DspGraphProofs`, `DspOrderProofs`, `DspCycleProofs`):

* The hypothesis is `[]ReordersInTurn`: until shutdown no two threads are in
  `_dsp_master_reorder` at a time. It is a fact about the patch:
  `OneFaderReordersInTurn` proves it for every patch whose ramps end in one
  module, or that has none, since a module is run by one thread, and between periods only
  the realtime thread reorders (`Exclusive`). `OneFaderCorrect` states the
  results for such patches with nothing else assumed. Without it they are false:
  with edges 1→2, 1→3, 1→4, 2→4, 3→4, of which 1→2 and 1→3 fade, and one slave,
  TLC finds `RefCountAssert` violated, as two threads rebuild the lists at once.
* `GraphInv`: outside the reordering each list of sinks names the modules the
  connections lead to, in rank order and once, and `num_sources` counts the lists that
  name a module; inside it this holds of the part rebuilt so far.
* `SourcesAlwaysFirst`, `CountsSuffice` (`SourcesFirst`, `RefCountAssert`).
  `PeriodInv` says of each pair of modules whether the first *owes* the second a
  decrement: it is planned before it, and has not started, or is running, or is
  passing on its result and has not come to the second's place in its list. A count
  not yet claimed is at least the number of modules that owe it, so a count of 0 means that
  nobody does. A ramp's end in mid-period may take entries out of the
  list a thread is walking, which is why a count may be too high (`Counted`) but never
  too low.
* `Unstuck` (`NeverStuck`) assumes also that ramps lead forward
  (`RampsInOrder`): then the counts are exact (`Exact`) and the first
  module left can be claimed or is waited for. A ramp that leads backward makes the
  thread that cuts it lose its place in the list: edges 1→2, 1→3 and a ramp 3→2,
  one slave, violate `NeverStuck`. This is `dsp_hang`'s defect seen as a state.
* `PeriodsComplete`, `CycleImplemented` (`PeriodComplete`,
  `Spec /\ []ReordersInTurn => ImplementsCycle`). `CycleInv`: a thread's scan has passed only
  claimed modules, and what is claimed and held by no thread has ended, so
  that at the end of a period every module has. A claim maps to `Start`, the end
  of a plugin's run to `Finish`, the end of a period to the next one's begin.

*Ring* (`VarchunkProofs`), for any size and any set of lengths, if the
caller writes no more than it asked for (`ToTheMax = FALSE`; run `varchunk_max`
shows that the reported maximum may not be filled):

* `TypeCorrect`, `WriterStaysApart`, `ReaderUndisturbed`, `GapNeverLast`,
  `EmptyTakesHalf`. One invariant, `RingInv`, carries all of them, the types
  too, since what the consumer reads is a size only where an element begins.
  From `tail` to `head` the buffer is a *chain*: there is a set of offsets, each
  the begin of a whole element (header and payload of one tag, not over the
  end), of which each but the last is followed by the next (`Chained`). A gap is
  followed by an element at 0. What the producer was given lies in the free
  part, in one piece (`Placed`); what it has written so far is there (`Laid`);
  the consumer is at the begin of the chain (`Reader`). The chain is a set
  with a successor, not a list, so that no induction along it is needed.
* `RingIsFifo`: the ring implements `Fifo`, under the same hypothesis. The
  abstract queue (`Contents`) is what a walk from `tail` finds, a recursive
  function of the steps left. `WalkExists` shows that there is such a function;
  `StepsEnough` that as many steps as there are bytes to `head` find all there
  is. Two walks along the same elements agree, but for what the one finds more
  at the end (`SameWalk`, by least distance from the head). So a write into the
  free part changes nothing (`ContentsSame`), publishing appends what was
  written (`ContentsGrow`), giving back takes the first chunk, which is the one
  the consumer holds, and skipping a gap takes none (`ContentsTaken`).

*Blocking protocol* (`BlockingProofs`), for any modules, connections, lengths
of rings and ramps and numbers of messages and events:

* `TypeCorrect`, with or without a session manager. The types rest on
  what the worker has at hand (`JobAtHand`): a job out of the ring stays its
  first one until it is done.
* `OneJobAtATime`, `RepliesAlwaysExpected`, `NamesStayLive` assume `Managed = 0`,
  that is no requests of a session manager; with them `AssertsHold` fails
  (see section 3). Then `block` says how many jobs of which kind are in the two
  rings together (`BlockInv`): the proof counts jobs through sending, working
  and replying. So a reply meets the state it asserts, and a bundle's job
  is alone, which the last theorem needs too: while the modules are
  deleted no preset waits. `LiveInv` adds that the job to delete a module
  comes after all that name it, and that a module about to enter the graph is neither in it
  nor named by a deletion. The steps are first reduced to what they do to rings and state
  (`AppStep`, `ReplyStep`, `FinishStep`), so that the invariants are carried
  through ten cases instead of the thirty ways a message ends.

*Allocator and map* (`MapperProofs`), for any threads, URIs,
lengths, hashes, pools and slots:

* `TypeCorrect` of `Mapper`, in `TypeInv`, which adds to `TypeOK` that a thread
  inside a call has a URI and one outside has none.
* `InjectedOnce` (`Spec => []OneInjection`). Strengthened to `InjectInv`: pools that
  are not missing follow only on pools that are there, so that at most one is on
  its way; at most one thread, or the flag `inject`, is about to bring it, and
  then it is on its way; and whoever looks for it has passed only pools that are
  there.
* `RefusedAtEndOnly` (`NullAtEndOnly`) assumes `BigPools`: finitely many callers,
  and a pool that takes a chunk of each and one more. `RoomInv`: before a
  pool nobody has asked for, the offset has passed in the pool before it no more than
  a chunk that did not fit and what threads hold that have yet to ask, which
  are too few to fill it. Checked by TLC with three pools of 6 bytes; the run
  `mapper` has pools of 4, where it happens to hold, and pools of one chunk break it.
* `ChunksNeverMeet` (`Spec => []ChunksApart`). `ChunkInv`: whatever was taken lies
  below the offset, inside one pool, and apart from what others took. Every
  chunk starts where the offset was, and the offset moves past its end.
* `RoundTripAlways`, `OneUridAlways`. `TableInv`: a slot that is taken stays so,
  with its string; a URI is in the first slot of its probe sequence that did not
  hold another (`Placed`); a thread at its i-th probe has seen all earlier slots
  taken by others (`Passed`); a call for a URI that was there when it began has
  no clone to get and will find it (`OldFound`). So no two slots hold one URI, and every answer
  names the slot that does.
* `TableImplemented` (`Spec => ImplementsTable`), the refinement of `UridTable`: a
  successful compare-and-swap is `Enter`, the other returns are `Find` or
  `Refuse`, everything else a stutter.

*Ports* (`PortsProofs`), for any modules, ports, links, ramps and MAX_SOURCES:

* What a loop does is shown by induction on its passes: `UpTo` is the induction,
  over the set of passes at which a fact holds, from the least element of a set
  of naturals, so that no theorem with an operator as parameter is needed.
  `DropAllPasses` and its like show that the recursive function exists.
  `PlaceFact` says that the places of what a cut keeps are those of the kept
  ports in their order, `CutFact` what a cut does, `UpdateFact` one pass of the
  multiplexer. `Within` is what all of them keep: an array only loses ports.
* `TypeCorrect`, `SourceOnce`, `NeverDangling` hold with no hypothesis on orders
  and ramps, as `Within` is all they need, and that an ejection's cut leaves none
  of the module's ports.
* `OnlyOrdersCut`, `SilentFirst` (`NothingElseCut`, `SilentForPreset`), which have
  `calm` and `Separate` as hypotheses, as the properties do. `CalmInv`: who is connected
  is linked and only audio has ramps (`Tidy`); and while it is calm, what falls
  in an array falls alone, unless the array is a removed module's own, where
  only fade-outs without a deletion fall (`ArrayMeant`); the fade-outs of one
  removal end together, and once one has marked the module none is left
  (`FadesTogether`), so that the ejection that follows cuts nothing under which a ramp could
  stay behind; the ramps of a mute are all as long (`MutesTogether`) and next to
  nothing that falls. A period then does one of three things to an
  array (`RunCases`): nothing ends, one source is cut and all others are steady,
  or a removed module's inputs fall. Without `Separate` the second is false.

Only model-checked:

* All liveness (`PeriodEnds`, `Served`, `AllTaken`, `MuteEnds`, `EveryCallEnds`,
  `OrdersDone` and the like) and what uses `ENABLED`: out of the prover's reach.
* What the failing runs refute: `LoadAlone` and the others of section 4.

## 6. Not modelled

* *State on disk, atom formats, clocks, drivers' own I/O, graphical interfaces,
  plugins*: sequential, or I/O, or outside the program. What a load or a save
  does to the rest of the engine is in `Blocking`.
* *The worker thread of a module* and *sandboxed UIs*: planned. Their rings are
  `Varchunk`s.
* *Weak memory*: the models interleave. The failed compare-and-swaps of the map
  and the allocator are followed by relaxed reads; the models read what is there.
* Of `Ports`: gains and the mixing itself, DOWN_DISABLE, which nothing requests,
  automation (with which an input at 32 sources overflows `seq[]`,
  `port.c:880`), the stash of control values.
* Of `Lfrtm` and `Mapper`: `lfrtm_free` and `mapper_free`, which run alone; a
  failing `calloc`; static URIDs; the worker as a caller of the map.
* `app->forge` and the ring to the UI used by slaves.

## 7. Plan

Done, in this order: `DspCycle`, `DspMaster`; `Fifo`, `Varchunk`; `Blocking`;
`Lfrtm`, `UridTable`, `Mapper`; `Ports`; the proofs of section 5. To come:

1. `ModWorker`: the worker thread of a module. Its rings are `Fifo`s, with
   `schedule_work`, `respond`, `state_to_worker`, drawing, reinstantiation and
   deletion. Every piece of work is done and answered once, none after deletion,
   and no instance is freed while a thread is in it.
2. The handshake of a sandboxed UI with its host.
