# xtream in TLA+

TLA+ modules of the xtream stream engine (the code under `src/src`), TLC runs
that check them on small instances, and TLAPS proofs of every safety property
that the runs check, for every value of the constants.

Every definition that stands for code is translated from the code; the key
`map` of `PROJECT.json` names the lines. Paths below are relative to
`src/src`.

## 1. The system

A program describes a graph of operators with `DataflowGraphBuilder`. The
compiler orders the graph and links the operators into chains;
`ExecutionGraph::build` cuts a chain after every window and puts an
`InputChannel` into the cut; the pieces are pipelines, which `SlotEngine` runs,
each on a thread of its own.

    builder calls -> DataflowGraph -> Compiler -> ExecutionGraph -> SlotEngine
                                                                       |
         slot 1: Source -> Filter/Map -> Window --InputChannel--+      | threads
         slot 2:                    ChannelSource -> ... -> Sink <-----+

| Component (file) | State | Operations | What makes it correct |
|---|---|---|---|
| Event buffer (`runtime/event_buffer.h`) | a vector of events sorted by time | insert, query, extract, cleanup_before | the binary searches see a sorted vector; answers are those of a set of events |
| Time window (`operators/physical/time_window_physical_operator.h`) | event buffer, next window end, initialised flag | execute (event or watermark), close | each window holds exactly its events, comes out once, in order, none is skipped, and both loops end |
| Count window (`count_window_physical_operator.h`) | vector of events | execute, close | windows are evenly spaced slices of the stream, on time, and nothing is lost at the end |
| Source (`source_physical_operator.h`) | latest time, events since the last watermark, last watermark | execute, close | watermarks increase, trail the latest event by the allowed lateness, and are not held back |
| Map, filter, sink | none but the user's function | execute | watermarks pass |
| Pipeline (`engine/pipeline.h`) | running flag, root operator | run, stop, setup/open/close/terminate walks | everything is closed from the root down on every path out of the loop |
| Input channel (`runtime/input_channel.h`) | mutex, condition variable, queue, closed flag | write, read, close | first in first out, each event once, the end only after the last event, no lost wake-up |
| Channel source (`channel_source_physical_operator.h`) | done flag | execute | stops at the end of its channel and not before; without a next operator, after the first event |
| Slot, slot manager, slot engine (`engine/slot*.cpp`) | threads, running flags | execute, cancel | execute returns when all is done and not before; cancel stops every thread and returns |
| Graph builder (`graph/dataflow_graph_builder.h`) | nodes, edges, next id | source, map, filter, window joins, sink, with_watermark, build | build accepts exactly the acyclic graphs over known operators |
| Dataflow graph (`graph/dataflow_graph.h`) | operators, edges | lookups, roots, leaves, degrees, topological_order, printing | queries agree; the order is topological |
| Compiler, execution graph (`engine/compiler.h`, `execution_graph.h`) | chains of operators | compile, build, printing | no operator is lost, doubled or shared by two threads, pipelines pair up through channels, and what is printed shows the graph that runs |
| StrictInt (`core/types/int.h`) | a number | arithmetic, bits, conversion | signed results are exact or the program stops |
| Record, schema (`core/record.h`, `stream_schema.h`) | fields | add_field, field, as_K | what is read is what was stored |
| Joins, floats, events and ids, logger, demo program | values or printing | | not modelled, see section 8 |

Components meet in three ways. Within a pipeline one thread calls down the chain
(`next_->execute(...)`), so whatever is downstream has run to its end before a
caller goes on. Between pipelines there is only the channel. Between threads
there are also the two flags of each slot (`Pipeline::running_` and
`Slot::running_`), the engine's own flag, and the joins of `Slot::stop`.

The hard parts: a `stop()` that races the start of a thread; joining threads one
by one while they wait on each other's channels; polls that see each slot at a
different time; notification after unlock; watermarks, late events and flushes
that meet overlapping windows; a `u64` that wraps; edges counted twice; the
cutting of a chain. The key `hazards` of `PROJECT.json` lists 40 of them at
their lines, with the properties that would catch each one.

## 2. Modules

| Module | Models | Correspondence |
|---|---|---|
| `Sorting` | | the listing of a finite set in order, by which a scan or a sort of a vector is stated: the k-th element is the one with k - 1 before it. |
| `EventBufferOps`, `EventBuffer` | EventBuffer | the variable `events` is the vector; one action per method. Events are numbered by arrival, which tells apart events of one time. |
| `EventSet` | the promise of EventBuffer | a set of events and the answer to the last call; `EventBuffer` implements it under `contents <- ToSet(events)`. |
| `Stream` | | the bounds shared by the modules that take a stream of timed events |
| `TimeWindow` | TimeWindowPhysicalOperator | `buffer`, `nextEnd`, `initialized` are `buffer_`, `next_window_end_`, `window_initialized_`. A call with a loop in it (a watermark, `close`) is an entering step, one step per iteration and a leaving step, so a loop that does not end is a behaviour. `nextEnd` is a `u64` that wraps at `MaxU64`. `received` and `out` are histories. |
| `Source` | SourcePhysicalOperator | one variable per member; `execute` is two steps, because what is downstream runs between the event and the watermark. |
| `EventTimePipeline` | Pipeline::run over Source, Filter, TimeWindow, Sink | composes the two modules above: the source's steps and the window's happen in one step where the code makes a call; `RunStopped` is `stop()` seen by the loop. `counted` tells `run(count)`, which calls the source again after its end, from `run()`. |
| `ChainedWindows` | two pipelines: Source, Filter, TimeWindow, then ChannelSource, TimeWindow, Sink | `EventTimePipeline` and a second instance of `TimeWindow`. The channel holds what the first window has emitted and the second has not received, and is closed when the first is: the promise of `ClosableQueue`. The first pipeline can be stopped between any two calls, the second once the first has closed: `stop_all()` joins one thread before it stops the next. |
| `CountWindow` | CountWindowPhysicalOperator | the window specification is a variable chosen at the start, so one run covers all of them. |
| `InputChannel` | InputChannel and its threads | one step per lock, critical section and notification; spurious wake-ups. |
| `ClosableQueue` | the promise of InputChannel | a queue with a closed flag; `InputChannel` implements it. |
| `SlotEngine` | SlotEngine, SlotManager, Slot, Pipeline::run, ChannelSource, the closing of windows | a program counter per thread (`execPc`, `cancelPc`, `thread`), one step per access to a shared flag or channel. Channels are counters with a closed flag: the queues that `InputChannel` is shown to implement. `bare` is the set of channel sources with no operator after them. |
| `DataflowGraphBuilder` | DataflowGraphBuilder, StreamHandle, validate | one action per call of a handle, `Valid` is `validate()`. |
| `DataflowGraph` | the queries of DataflowGraph | one operator per query; a query lists one end of some edges, in the order of the edges. |
| `ExecutionGraph` | topological_order, Compiler::compile, ExecutionGraph::build, its to_graphviz and to_json | the builder's calls, then one step per iteration of each loop. What is printed is the set of its operators, links and channels (`Drawn`, `ChainLinks`, `ChannelLinks`), without layout. |
| `StrictInt`, `Record` | StrictInt, FieldValue, Record, field_index | the operators as sets of outcomes, and a program that computes with a number and stores it. Fields of the other kinds (floats, strings) are opaque values. Powers of two and the number that a set of bits makes up are recursive functions (`Pow2`, `BitSum`), so that proofs can reason about them. |
| `MC*` | | instances for TLC |
| `EventBufferOps_proofs`, `DataStructures_proofs`, `TimeWindow_proofs`, `ChainedWindows_proofs`, `CountWindow_proofs`, `InputChannel_proofs`, `SlotEngine_proofs`, `ExecutionGraph_proofs` | | theorems and their proofs (section 5). `DataStructures_proofs` is about `EventBuffer`, `Record` and `StrictInt`, `EventBufferOps_proofs` holds the lemmas about sequences, ordered lists and iteration that most of the others use. `ChainedWindows_proofs` holds those about the source and about one pipeline as well, `ExecutionGraph_proofs` those about the builder and the queries. |

Some modules hold a few variants of a definition ("faulty variants", or a
comment that says what is wrong): each is a plausible mistake, put in place of
the definition to see that a property would notice it. They are used by nothing
else; the key `mutants` of `PROJECT.json` pairs them with the properties.

### Preconditions

The code checks none of these; the models assume them, and say so where they do.

- `Advance > 0` and `Size > 0`: `WindowSpec` accepts zeros, with which the time window
  loops forever and the count window never slides or never fires. (The time window needs
  only `Advance > 0`.)
- `NoOverflow` (`MaxTs + Size + 2 * Advance <= MaxU64`): times stay clear of the
  end of `u64`. The run `time_window_wrap` shows what happens without it.
- As many pipelines as slots; `execute()` once; `cancel()` at most once, and
  after `start_all()` has returned. (Fewer pipelines than slots dereference
  a null pipeline, fewer slots lose pipelines, a second `stop()` joins twice.)
- A channel has one writer and one reader, and a writer's slot comes before its
  reader's: what `ExecutionGraph::build` makes (`OneThreadEach`).
- In `ChainedWindows` the user's function gives its result the time of the last event of
  the window, as in `main.cpp` (the function in `time_window_test.cpp` gives the time 0), and the second pipeline ends in a sink.
- Asserts are compiled in, which is the case in the repository's presets.

## 3. Runs

States are distinct states found by TLC; the longest run takes about a minute.

| Run | Instance | States | What it shows |
|---|---|---|---|
| `event_buffer` | 4 events, times 0..2 | 2 363 | the vector stays sorted, latest arrival first among equals; every call answers as the set of events would |
| `time_window` | size 3, advance 2, 3 events, times 0..5 | 70 017 | windows hold exactly their events, in order, each once, none skipped; loops end |
| `time_window_wrap` | `u64` of three bits | | **violation**: `on_watermark` never returns (section 7) |
| `event_time_pipeline` | the same windows, lateness 1, a watermark every 2 events, 4 events | 628 871 | watermarks increase, trail by the lateness and are sent in time; an event that is not too late is in all its windows; the stream gives the result of the batch |
| `chained_windows` | size 4 and advance 2 into size 3 and advance 2, 4 events | 1 582 721 | results cross the channel in time order; a stop of the second pipeline costs only the end of its output; two pipelines give the result of two batches |
| `input_channel` | 1 writer, 2 readers, 3 events, 2 spurious wake-ups | 1 743 | the channel implements a closable queue; no lost wake-up; all is delivered |
| `slot_engine` | 3 pipelines in a chain, sources with 0 to 2 events or endless, 2 events per channel, the last pipeline with or without operators | 151 961 | execute and cancel return, and what holds when they do |
| `slot_engine_lost_stop` | 1 pipeline with an endless source | | **violation**: `cancel` never returns (section 7) |
| `count_window` | sizes and advances 1..4, 10 events, with and without channel | 704 | windows are the slices of the stream |
| `execution_graph` | 5 operators, joins, foreign handles | 1 043 847 | `validate()` is exact and the queries agree on every graph; the order is topological, the pipelines pair up and share no operator, and what is printed shows the graph |
| `execution_graph_fan_out` | 3 operators | | **violation**: a branch is lost (section 7) |
| `record` | types of 2 and 3 bits, 2 fields, 4 calls | 341 081 | signed numbers are exact, unsigned ones exact modulo their range, fields give back what was stored |

Why the bounds are enough for what they are for:

- *Windows.* Size 3 and advance 2 overlap and do not divide each other, so an
  event is in one or two windows, and a clean-up has an event to spare. Times 0..5
  cover the guard of `end - size` on both sides and three window ends. Three
  events give one before, one between and one after a watermark, in any order of time.
- *Pipeline.* Four events with a watermark after every second one: a full
  interval, another, and a rest for `close()`; lateness 1 of 5 leaves events on
  time, late but allowed, and too late.
- *Chained windows.* A first window of size 4 and advance 2 overlaps itself, so an event
  reaches the second window up to twice; the second, of size 3 and advance 2, holds results
  of more than one first window. Four events give up to four results, so the second window fires
  more than once at its close.
- *Count windows.* Ten events are two windows and a rest for every specification
  up to 4, with advance below, at and above the size.
- *Channel.* Two readers are the least for which `notify_one` and `notify_all` differ
  and one reader can overtake another; three events let the queue hold more than
  there are readers.
- *Engine.* Three pipelines have a first, a middle (that both reads and writes) and a last;
  two events let a channel be empty, partly and wholly drained.
- *Graphs.* Five operators are the least for a cycle next to a sound part, a join
  with operators on both sides, and three pipelines in a row.
- *Numbers.* Nothing in the operators depends on the width but the ends of the
  range; two widths are needed for the casts.

Deadlock is checked except where the system may stop: in the graph runs (a bound on
operators, then the result) and in `record` (a program that ended).

## 4. Fairness

- `TimeWindow!FairSpec`: a thread that entered a loop goes on with it. The calls
  themselves are not assumed to come.
- `InputChannel!FairSpec`: each thread is scheduled whenever it could run. The
  writer closes in the end, since `Pipeline::run` closes its operators on every
  path out of its loop. No fairness is assumed of spurious wake-ups.
- `SlotEngine!FairSpec`: `execute()`, `cancel()` once called, and each slot's
  thread keep running. Nobody has to call `cancel()`, and a source may be endless.

Weak fairness is the least a preemptive scheduler gives. The one place where
threads compete is the mutex of a channel, which whoever holds it gives up; it is
enough there because the writes, and so the reads, are finitely many.

## 5. What is proved

9 710 obligations, all checked by TLAPS, for every value of the constants that
satisfies the assumptions of the module. `PROJECT.json` lists the theorems.

**EventBuffer** (`EventBufferOps_proofs`, `DataStructures_proofs`). Type
correctness, the order of the vector, and the refinement of `EventSet`. The
invariant is `TypeOK /\ Ordered(events)`; `Ordered` puts later arrivals
first among equal times. The lemmas say that the binary search finds the
boundary in an ordered sequence, that a slice between two boundaries lists exactly the
events in the range, that the rest lists the others, that an insertion at the boundary
keeps the order, and that an ordered sequence is the only ordered listing of its elements.
They are cited again by the next proofs.

**TimeWindow** (`TimeWindow_proofs`), assuming `NoOverflow`. Windows are exact,
each comes out once and in order, none is skipped, and every step of a call ends it or
moves the next end up by a whole advance within a fixed bound (`CallsProgress`): that is
the safety half of `CallsReturn`, to which TLC adds the fairness. Exactness is not inductive: that the buffer holds all events of a window
when it fires depends on every clean-up before. The invariant adds that the buffer holds
every event that a window still to come needs (`BufferComplete`), that nothing
has happened before the first event (`UntouchedBeforeFirst`), that the next end
stays below the overflow (`EndBounded`), and that what was emitted lies behind
the next end (`HistoryBehind`). That no window is skipped needs that window ends
stay on the grid of `Advance`, which is a second invariant over the first.

**Source** (`ChainedWindows_proofs`), for any lateness and interval. Watermarks increase,
each trails the latest event by exactly the lateness, and no event is left out for
longer than an interval. The invariant ties the members to the histories: `max_ts_`
is the time of some event and of none later (`MaxInv`), the last watermark is that of
the last mark (`LastMarkInv`), and `events_since_watermark_` counts the events not
yet reflected (`SinceInv`).

**The pipeline** (`ChainedWindows_proofs`). Every step of the pipeline is a step of
the source or none, and a step of the window operator or none (`SourceInPipeline`,
`WindowInPipeline`), so the theorems of both hold in it; the second needs the invariant
of the source, which bounds the watermarks it passes. `OnTimeComplete` (assuming
`NoOverflow`) is a theorem of neither: while the window takes events, its next end is at
most one advance above the last watermark (`EndTrails`), which trails the latest event by the
lateness, so by the grid of window ends an event on time comes before any of its windows
was fired (`OnTimeDue`); from there `NoWindowSkipped` carries it to the end.
`StreamingEqualsBatch` is then an argument about lists: what was emitted is ordered by window
end and holds exactly the windows with an event in them, each window with exactly its
events in order, and there is only one such list, the one `BatchOf` gives (`OutIsBatch`).

**Two pipelines** (`ChainedWindows_proofs`). The first pipeline behaves as it does alone
(`PipelineInChain`), the second window only receives calls it could receive alone
(`SecondInChain`), so the theorems of both hold, those about `TimeWindow` a second time for
the instance behind the channel. Results cross the channel in time order because the
last event of a window is in a later window as well or before its start
(`ChannelInOrder`). As the second window gets no watermark, it fires only at its close,
and its output is the batch over what it has read (`TwoStagesAreBatch`); if it was
stopped, what it has read is a beginning of the stream of results, in time order, and the
windows that end within it are those of the whole stream (`StopLosesTheEnd`).

**Graphs** (`ExecutionGraph_proofs`), for any number of operators.

- *The builder* keeps that an operator has an input exactly if it is not a source, and that an
  edge leads from an older operator to a younger one, but for the second inputs of
  joins, which may be handles of other builders (`BuilderInv`).
- *validate()* (`ValidatesExactly`): the rounds of `check_no_cycles` only grow, so after as
  many rounds as there are operators they are at a standstill (`Stabilises`). What they leave out
  then is a set in which each operator has an input from the set, and conversely a cycle is
  entered by no round. The rounds count edges as the code does, each subtracting one from an
  in-degree; two edges from one operator to another are both used up when it is
  visited (`InDegreeUsedUp`).
- *The queries* (`QueriesAlwaysAgree`): a walk comes to a standstill for the same reason; what it
  leaves out would again be a cycle, or, against the edges, a set that each round of
  `check_no_cycles` would have to leave out because the next one does.
- *topological_order()* (`OrdersTopologically`): the in-degree of an operator is the number of its
  edges from operators still to be visited, those with none are exactly the operators in the queue or
  the result, neither of which has an operator twice, and the inputs of an operator are before it in the
  result (`OrderInv`). If the queue is empty, what has not been visited is a cycle.
- *compile() and build()* (`PairsPipelines`): without joins all links lead to younger operators,
  so the operators of a chain ascend (`Rising`, `ChainAscends`) and `next()` comes to an end. Each
  pipeline cut off lies before the rest of the chain, so the next cut, which changes the link of
  one operator in the rest, leaves it as it is (`CutChains`, `CutInv`).
- *Threads* (`PairsPipelines`, `ThreadsApart`): a link is as `compile()` set it unless it was cut, and each
  root but the first takes up where a cut was (`LinkInv`, which needs `CutInv`: no operator
  is cut twice). So the operators ascend from pipeline to pipeline as well (`PlacesAscend`), none
  is in two places, and each channel leads to the next pipeline.
- *What is lost* (`CompilesWhole`): the pipelines hold all operators exactly if there is one source and no
  operator feeds two others. One way, the least operator that is missing has an input that is not;
  the other way, as only a join has two inputs (`OneInput`, a second invariant), an edge that is not
  the last out of its operator leads to one that no link leads to.
- *Printing* (`DrawsFaithfully`): the windows with a channel are the ends of the pipelines, in their
  order (`ChannelsInOrder`), and the loop that numbers them comes to each once, so no id is used
  twice (`ChannelsNumbered`); so the channels are drawn as they run (`ChannelsDrawn`), every
  link that is followed is one of `compile()` (`FollowedAreLinks`), and in a chain each
  operator is found from the one before it (`LinearFollowed`).

Recursive functions (`VisitedIn`, the walks, `ChainFrom`) are all of the form "apply again";
`Iterates` shows once that such a function exists, and induction goes over the set of the
numbers for which a statement holds (`Induction`).

**InputChannel** (`InputChannel_proofs`), for any number of readers, events and spurious
wake-ups. The mutex is held by exactly the thread inside, no wake-up is lost, and the
channel refines `ClosableQueue`. `NoLostWakeup` counts: with a reader asleep there are
no more events than readers awake, plus one while a `notify_one()` is to come. It
is inductive together with the type invariant and `WriterInv`, which ties the flag to
the writer's place.

**SlotEngine** (`SlotEngine_proofs`), for any number of slots and any connection
that `SlotAssumption` allows. `execute()` that returned without a cancel ran every
pipeline to its end and left no event in a channel, but for the channels of bare channel sources,
which end after one event; `is_running()` is truthful; a
pipeline closes only after its input; `cancel()` that returned has joined
all; no channel is written after its close. The invariant ties the four
program counters: what a poll has already passed has finished, since a slot once
finished stays so (`ExecuteInv`); what `cancel()` has passed has finished (`CancelInv`);
a slot's flag is set exactly between start and end (`SlotInv`); a pipeline's flag
is cleared only by a cancel, and a channel is closed exactly when its writer is out of
`close()` (`PipelineInv`).

Two more theorems follow from it about waiting. Behind a reader that waits for its channel there
is always a thread that can go on (`NoCircleOfWaits`): the first of those that have not finished, since
writers come before their readers and a writer that has finished has closed its channel. And the
thread that `cancel()` joins is not one that only a later round of `stop_all()` could free
(`CancelNeverStuck`): its writer has been joined before it, and an endless source that was in its
loop before the call does not set its flag again (`SettledInv`). With the order of `stop_all()`
reversed the second is false, and TLC finds it so.

**CountWindow** (`CountWindow_proofs`), for any size and advance. The windows are the
slices of the stream, none is held back and no event is lost. The invariant says that
the buffer is the run of events from the start of the next window to the last arrival;
that nothing is lost is inductive by itself.

**StrictInt and Record** (`DataStructures_proofs`), for integer types of any two widths
and programs of any length. `Exact` becomes inductive with a second half for the fields: each
holds its number as the `int64_t` it wraps to (`Holds`, `RecordIInv`), from which it is read back later.
The rest is arithmetic that the provers do not have, built up in this order: the equations
of the two recursive functions; remainders and congruence modulo a power of two; that a
type holds each residue once, so that wrapping is the identity on what fits and a congruence
elsewhere (`WrapComputes`); that quotient and remainder toward zero agree with each other and stay
in range but for the lowest number by minus one; that the complement of the bits of
a number is minus the number minus one (`NotAnswers`); and that a number of any kind survives
its storage (`StorageKeeps`).

Every invariant, action property and refinement that a passing run checks is the statement of a
theorem. Only model-checked is what must eventually happen (`CallsReturn`, `AllDelivered`,
`ExecuteReturns`, `CancelReturns`): the proof system has neither fairness nor `ENABLED`. Their safety
halves are proved, as far as a step can get stuck: `CallsProgress`, `NoLostWakeup`, `NoCircleOfWaits` and
`CancelNeverStuck`.

## 6. How the parts fit

`ExecutionGraph` shows that the pipelines of a compiled graph are connected as
`SlotAssumption` requires and have no operator in common (`OneThreadEach`, a part of
`PipelinesPaired`). `InputChannel` shows that a channel is a closable queue, and `SlotEngine` uses channels as that.
`SlotEngine` lets a window write any number of events at any call, which covers
whatever `TimeWindow` and `CountWindow` do; that a write never follows the close
(`NoWriteAfterClose`) is then about the engine and the order of `close()`. `EventTimePipeline`
uses `TimeWindow`'s and `Source`'s actions unchanged, and `ChainedWindows` uses
`EventTimePipeline`'s, with a second `TimeWindow` behind a channel.

A window passes no watermark on and a channel carries events only, so a window behind a
channel fires nothing before `close()`: `ChainedWindows` shows what that leaves intact
(the batch result at the end of the stream, a prefix of it after a stop).

## 7. Where the code departs from what is said of it

- **A stop can be lost** (`slot_engine_lost_stop`). `Pipeline::run` sets its flag
  when its thread starts (`engine/pipeline.h:51`); a `stop()` that comes between
  `Slot::start` and that moment is overwritten, and the join in `Slot::stop` waits
  for an endless source forever. The tests sleep before they stop. The run `slot_engine`
  therefore lets `cancel()` come, for an endless source, only after its thread is in the loop
  (`SettledCancel`); everything else is unrestricted.
- **The guard against overflow is dead code** (`time_window_wrap`). The test
  at `time_window_physical_operator.h:73` repeats the loop's condition, and the
  addition below it wraps: for a watermark within one advance of the largest
  `u64` the loop never ends.
- **Fan-out loses branches** (`execution_graph_fan_out`). `PLAN.md:204` says
  `Graph with fan-out compiles correctly`; an operator has one `next_`, and the last edge
  wins (`engine/compiler.h:22`). `CompilesWhole` says which graphs are safe from it.

## 8. Not modelled

- Joins: `compile()` of both returns null, so there is nothing that runs. They
  are nodes of the graphs that are built and ordered.
- `InputChannel::is_done`: nothing in the source calls it.
- `to_graphviz` and `to_json` of `DataflowGraph`, which write its two vectors out as they
  are; the layout of all printing; the logger; `main.cpp`, which builds one graph
  and prints it.
- `StrictFloat`: wraps floating-point operators one by one, and what it would promise is
  a matter of the hardware's arithmetic.
- Integers narrower than `int`, whose operands are promoted; `is_compatible_with` of
  schemas, which compares two vectors and is not called.
- `Event`, `Watermark`, ids, `WindowSpec`, logical operators and the function concepts:
  plain values, constructors and interfaces without control.
- What the user's functions do, but for dropping events in a filter and stamping the results of
  a window; exceptions thrown by them. A map is taken to keep the times of its events.
- Slots and pipelines that do not match in number, a second `execute()`, a second or early
  `cancel()`: the code dereferences null pointers or joins threads that are not joinable
  there, and nothing is promised.

## 9. What could follow

- Action properties of the builder and of `ExecutionGraph`: what a later call may not change about
  operators and edges that are there.
- `cancel()` at any time, given a `Pipeline::run` that does not overwrite a stop: with
  `SettledCancel` FALSE, `SettledInv` is then to be replaced by one about the new flag.
- The joins, once they compile to an operator.
