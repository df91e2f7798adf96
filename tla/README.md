# LLTDResponder: specifications and proofs

A TLA+ development of the LLTD responder: modules translated from the C code under `src/`, model-checked
with TLC, with theorems checked by TLAPS. Paths below are relative to `src/`.

## 1. The system

A responder answers the Link Layer Topology Discovery protocol on every network interface of a host. A
daemon runs one listener thread per interface. The thread receives a frame, updates a session table and
three automata, hands the frame to `parseFrame`, which replies, and calls `automata_tick`, which applies
timeouts and sends periodic Hellos.

| Component | State | Operations | What makes it hard | What makes it correct |
|---|---|---|---|---|
| Automata (`lltdResponder/lltdAutomata.c:21-258`) | per automaton: state, `last_ts` | `switch_state_*` | an input that meets an expired state is replaced by the timeout | tables lead to states; timeouts end mappings |
| Session table (`lltdAutomata.c:270-403`) | 16 slots, `count`, `all_complete` | add, find, remove, update status, clear, expiry in the tick | two caches of the slots, written in five places; capacity | caches agree with the slots; a session is held once; a full table refuses only new ones |
| Mapping engine (`lltdAutomata.c:542-607`) | automaton, `ctc`, two deadlines | frame, charge, tick | silence must end a mapping, whatever state it is in | deadline armed while a mapping lasts; charges forgotten |
| Enumeration engine, "RepeatBand" (`lltdAutomata.c:475-540, 627-686`) | automaton, `Ni`, `r`, `begun`, Hello and block deadlines, `LastHelloTxMs` | Discover, foreign Hello, tick | two deadlines, one of which re-chooses the other; integer arithmetic | deadlines armed while it runs; Hellos keep coming while a session is incomplete |
| Listener loop, Darwin (`os/darwin/daemon/darwin-main.c:177-415`) | all of the above and the mapper and generation a periodic Hello names | one handler per kind of frame, tick | order within a handler and within a tick; what Hellos name is kept apart from the table | sessions only while mapping; enumeration follows the table; Hellos name mappers with a live session |
| Frame handlers (`lltdResponder/lltdBlock.c`) | mapper, two generations, probe list and count, icon cache | Discover, Emit, Probe/Train, Query, QueryLargeTlv, two Resets | failing allocations and sends; probes forgotten after a truncated report | one mapper greeted at a time; probes listed once and reported before they are forgotten |
| Interface-state list (`lltdBlock.c:42-64`) | a linked list shared by all threads | find or insert | no lock, plain stores | an interface never gets another's state; lookups end |
| Hello builders (`answerHello`, `sendHelloMessageEx`, `lltdTlvOps.c`), wire headers (`lltdWire.c`) | none | append TLVs at the sum of the sizes before | getters that fail in the middle; two builders; no check of room | a station can walk the TLVs; both builders announce the same; frames within the MTU |
| Large TLVs (`lltdBlock.c:355-500`) | icon cache | a part at an offset | data changing, Resets, failed fetches and lost responses between two parts; 16-bit offset | what is read to its end is whole and of one version; parts advance |
| Interface lifecycle, Darwin (`darwin-main.c:499-985`) | structures, registrations that point to them, detached listeners | appear, terminated, property change, power off and on | listeners are cancelled and not joined; two registrations are made and one is kept; freed memory is still pointed to | an interface kept is never forgotten; one listener per structure; cancelled before its memory goes |
| Other daemons (`os/linux`, `os/freebsd`, `os/esxi`, `os/beos`, `os/sunos`, `os/windows`) | array of interfaces, threads, descriptors, automata fed with raw opcodes | list, open, start, receive, signal, join, release | any acquisition fails; the array moves under threads; join of a thread in a blocking read; nothing ticks | nothing leaks or is released in use; a signal ends the daemon; automata recover |
| Wi-Fi rates and metrics (`lltd_wifi_rates.c`, `lltd_wifi_corewlan.m`, `lltd_wifi_iokit.c`) | tables | infer parameters of a rate, estimate the maximum | 192 typed-in entries; ambiguous rates; roaming between reads | tables are the standard's; the nearest parameters win; the maximum is one |
| Ports (`*/lltd_port.c`) and host properties (`*-ops.c`) | none | clock, memory, queries | what each port cannot answer | as answers that may fail |

Only the Darwin daemon calls `automata_tick`; the others step the automata with raw opcodes. The Darwin
loop is therefore the core of this project.

The loop and the handlers keep *separate* ideas of who the mapper is: the session table and
`MapperHwAddress` in the loop, `mapper_real` in the handlers. Nothing reconciles them, and neither reads the other's
state: the two interact through the frames they send only. Both are modelled, each with its own module.

## 2. Modules

| Module | Models | Depends on |
|---|---|---|
| `Timers` | deadlines as time left | |
| `Automata` | the three tables, timeouts, `switch_state_*` | |
| `SessionTable` | the table as a record and its operations as functions of it | |
| `SessionRegistry` | abstract specification: a bounded set of sessions with two current answers | |
| `SessionTableApi` | the table under any sequence of calls; refines `SessionRegistry` | `SessionTable` |
| `MappingEngine` | mapping automaton, charges, inactivity | `Automata`, `Timers` |
| `RepeatBand` | enumeration automaton, load estimate, Hello pacing | `Automata`, `Timers` |
| `ResponderLoop` | the listener thread; composes the three above; refines `SessionRegistry` | all of the above |
| `MCLoop` | `ResponderLoop` with interchangeable mappers for TLC | `ResponderLoop` |
| `ResponderClaims`, `GenerationClaim` | statements of a document and of a test that the loop violates | `ResponderLoop` |
| `LltdBlock`, `MCLltdBlock` | `parseFrame` and its handlers | |
| `IfaceStates` | the shared list under concurrent threads | |
| `DarwinLifecycle` | interfaces, registrations and listeners of the Darwin daemon | |
| `PortDaemon` | the eight other daemons, a record of differences each | `Automata` |
| `HelloTlv` | the TLVs of both Hello builders and what each port answers them | |
| `HostProperties` | a mapper that hears Hellos and reads large TLVs from a host that changes | `HelloTlv` |
| `WifiRates`, `WifiMetrics` | rate tables and searches, with the standard's formula as reference; the reading of an interface's metrics | |
| `MCContainers` | `SessionTableApi` and `IfaceStates` side by side for TLC | both |
| `MCHost` | `HostProperties` and `WifiMetrics` side by side for TLC | both |
| `SessionTableTheorems`, `SessionTableApiProofs` | proofs about the table | `SessionTableApi` |
| `ResponderLoopProofs` | proofs about the automata, both engines and the listener thread that drives them | `ResponderLoop`, `SessionTableTheorems` |
| `LltdBlockProofs`, `IfaceStatesProofs`, `DarwinLifecycleProofs`, `PortDaemonProofs` | proofs about the handlers, the shared list, the interfaces of Darwin and the other daemons | the module each is named after |
| `HostProofs` | proofs about Hellos, large TLVs and Wi-Fi | `MCHost` |

`ResponderLoop` and both engines are written so that the engines' actions are *used* by the loop: the loop's
`Rx*` and `Tick` conjoin `MappingOnFrame`, `BandOnDiscover`, `BandTick` and so on, while
`MappingEngine` and `RepeatBand` have specifications of their own in which the rest of the loop is arbitrary
(any opcode, any answer of the table).

Operators named `<definition>_<Word>` and marked "Mutant" are faulty variants of a definition, each violating
one property; no specification uses them.

### How the code became actions

* **Frames.** `RxDiscover`, `RxReset`, `RxHello`, `RxOther` are one pass of the loop body each, from
  `derive_session_event` to `parseFrame`, in the order of the code: session event from the table *before* the
  Discover is added; add, complete, name the mapper, update the summary; step the mapping automaton and clear the
  table if it became Quiescent; re-arm the inactivity deadline; count a Charge; step the session automaton; feed
  the enumeration. The opcode alone selects the branch, as in the loop, so frames of the QoS service with
  opcode 0 or 8 are Discovers and Resets here.
* **The tick** is `Tick`: inactivity, charges, expiry, summary, then the enumeration's three stages. It follows a
  frame at once or a receive timeout.
* **An input that meets an expired state** is lost: `SwitchState` replaces it by `Timeout`, twice, because the
  source calls itself again.
* **Time.** Timestamps are kept as time left or as ages, saturating one past the largest value any comparison
  distinguishes (`Timers`, `Idle`, `Aged`). The clock advances in units of `UnitMs`; whole seconds, the resolution of
  all `lltd_monotonic_seconds` timestamps, pass every `UnitsPerSecond` units, both being readings of one monotonic
  clock. The behaviours are those in which the loop looks at the clock at multiples of the unit; there a deadline,
  rounded up to units, fires exactly when `now >= deadline` first holds. `parseFrame` may sleep, so time may pass
  between a frame and its tick, up to `MaxLag` units without a tick.
* **The periodic Hello** is `sinceTx' < sinceTx`; whom and which generation it would name is in `hello`: the mapper of the last Discover that
  found room, of whichever kind, and the generations of the last topology and of the last quick one (`MapperGenerationQuick`, which the code writes and never
  reads). Replies of `answerHello` do not
  update `last_hello_tx_ms` and do not pace it.
* **Slots** that are not valid hold `Free` whatever their memory still holds: `session_table_find` and every loop skip
  them. `entry.state` and `created_ts` are written and never read and are left out.
* **The session automaton** is stepped faithfully; no code reads its state.
* **Handlers of `parseFrame`** are one action each. Allocations and sends may fail wherever the code checks them
  (`Failures`). A frame comes along a path `[eth, real]`, so that bridges, where the two differ, are covered. TLV contents are
  left out; the icon and other large values are sizes. Frames are long enough for what they announce.
* **The shared list** is modelled load by load and store by store. The three stores of an insertion become visible
  to other threads in any order; loads are in order, as the loads of a pointer chase are in practice.
* **Interfaces that come and go** (`DarwinLifecycle`). A structure is what is at an address; registrations, messages and listeners
  hold the address, and each structure has a number to tell it from another at the same place. `validateInterface` is one
  function of memory, `Validated`, for each of its outcomes, with its registrations in order; `deviceDisappeared` is
  an action that starts each branch and one that ends it, between which listeners run (the property change sleeps in between).
  A cancelled listener stops at `recvfrom`, its cancellation point. A step on freed memory may crash the daemon or not. After a crash launchd starts it
  again. Assumed of I/O Kit: controllers send power messages, off and on in turn; a service that is asleep reports no active
  link; a service has its BSD name when it appears. Descriptors are left out.
* **The other daemons** (`PortDaemon`) are one module, because they are one program eight times: what each acquires per interface, how it lists
  interfaces, whether its array grows, how many frames a read returns and whether it has an enumeration automaton are
  fields of a record. The list is taken entry by entry (`List`, `EndList`), each with what
  the port skips, so that it may be of any length. `Fed` steps the automata of the core with raw opcodes and the time since the last frame. The stubs behind
  Windows never return a frame. What a failed acquisition keeps is `Kept`, descriptors and buffers; the copy of the
  name is not counted: the main Linux daemon frees it when opening fails (`linux-main.c:301`) and SunOS keeps names in a list it frees, the others leak it.
* **Hellos** (`HelloTlv`). A Hello being built is its TLVs and the offset of the next one. A builder says what its header says and which size it
  returns; `++` appends its TLV at the offset and adds the size to it, as `offset += set...TLV(buffer, offset)` does. There is one operator per setter; the two
  functions that call them, in two files, are spelled out separately, as in the code. The ports are records of answers. **Large TLVs**: data is a version and a size, a part is a length and the more flag.
  The mapper asks for the next offset, again when no response comes.
* **Wi-Fi** tables are transcribed and compared with the rate formula of IEEE 802.11 (subcarriers, bits, coding, symbol time). The search
  of `lltd_wifi_infer_params` is a loop: each iteration (`Look`) takes the next combination in the order of the nested loops and keeps it if it is strictly nearer
  than the best before. The interface roams only before and while it is read: the search works on what was read.

## 3. Runs

Every run states its bounds in its `.cfg`. The engines are checked inside the loop that drives them, so that their
properties hold of the inputs they really get.

| Run | Question | Bounds and why they suffice |
|---|---|---|
| `containers` | Are the core's containers right under any use: the table called in any order, the shared list by threads at once? Can a thread be given another's state, a lookup run for ever? | table: 4 sessions, 3 slots: fills, frees a slot in the middle, fills again; 2 xids so that a refresh is visible. List: 2 threads, 3 nodes: one node more than threads, for an insertion after a lost one |
| `loop_sessions` | Do engines, table and Hello agree? Can silence always end a mapping? Are charges forgotten? | 2 interchangeable mappers (`MCLoop`) x 2 generations for 2 slots, announced by topology and by quick Discovers; seconds as units; timeouts of 1 (session, Command) and 2 (Emit, inactivity), and sessions, which leave when *older* than 2, last; `ctc` of width 2, so that it wraps within every timeout |
| `loop_timing` | The same when the millisecond deadlines interleave: are deadlines lost, and does the Hello deadline follow the estimate? | one session, 100 ms units (the receive timeout), real Hello and block times, up to 3 foreign Hellos counted in a block |
| `loop_liveness` | Does silence end everything? Do abandoned sessions leave? Do Hellos keep coming? | one session, which is abandoned while Emits and foreign Hellos keep the mapping alive; at most one foreign Hello counted per block (`MaxR = 1`) |
| `frame_handlers` | Handlers under failures: are probes listed once, reported, is one mapper greeted? | 2 stations, bridged and direct paths, responses with room for two of three probes, 2 emitees |
| `darwin_lifecycle` | Is an interface ever forgotten? Two listeners on one structure? Memory taken from a listener that was not told? | one service, 2 listeners, 8 registrations: every outcome of validation followed by every message, twice; one address without reuse, so that what a structure loses is its own |
| `port_daemon` | Do all eight daemons account for what they open, keep what threads use, end on a signal; do automata without a tick recover? | lists of up to 2 entries taken in any order, with duplicates and loopback, every acquisition failing; opcodes Discover, Emit, Reset, each within and beyond every timeout |
| `host_properties` | Can Hellos be read and do they fit? Is what is read in parts whole? Are rates and maxima right? | all four ports; names at 31, 32, 33 around the limit; MTUs at the smallest that fits and two more; sizes around one part and beyond 64 KiB; all links of the standard with 1 and 3 streams, each search over all 8 |

Where two parts meet in no shared state, `MCContainers` and `MCHost` put them side by side in one run, each behaviour being one of either while the other rests
where it starts.

`claim_*` runs each refute one sentence of the documentation, a comment or a test (section 5).

Properties that need explanation. `DeadlineFollowsEstimate` is about the estimate there is, not the load there is: a block
without any Hello keeps the estimate (`lltdAutomata.c:491`), so that after a busy block a silent segment keeps its long delays. `ProbesReported` says that a Query which frees probes unreported had a response that was
full or failed; these are lost as well. `HelloKeepsComing` holds only with at most one foreign
Hello per block: with two the estimate becomes 180, the Hello moves 480 ms ahead every 300 ms and is never sent
(`claim_starvation`). `HelloNamesLiveMapper` says that the mapper a periodic Hello names has a session, of its last topology
or its last quick Discover; that the Hello carries the generation of *that* session is refuted by `claim_generation`. `OneListener` and `CancelledFirst` except structures of which a controller registration was
forgotten (`Unremembered`): a property change releases the latest registration only, and the message that wakes the controller
is then handled for each. `claim_orphan` is what becomes of the listeners of such structures. `CancelledFirst` also excepts power-off, which frees the
buffer first. `HeldIsAllocated` excepts the array of Linux, which `realloc` may move under running
threads: there the model lets the daemon crash. `OneThreadPerInterface` excepts older BeOS, whose list has duplicates and loopback. `HelloFits` rests on MTUs of 206 and more
(`HostAssumption`): no builder checks its room. `ReadWhole` and `PartsAdvance` are about data that fits the 16-bit offset
(`OffsetBound`): beyond 64 KiB the offset wraps and a mapper reads the beginning again. `HellosAgree` asks for the same TLVs at the
same places on wireless interfaces; on wired ones, which only Darwin's replies take for wireless, the timed Hello must lack the TLVs of Wi-Fi and no others. `InferredNearest` is about what was
read, of one link or of several. `MaxCovers` leaves VHT at 20 MHz out (`claim_maxrate`).

## 4. Fairness

`ResponderLoop!FairSpec` assumes weak fairness of `Tick` and `UnitPasses`: the clock runs, and the thread gets
through its loop. `SO_RCVTIMEO` bounds `recvfrom` on Darwin and `parseFrame` returns, so the tick happens without any frame. No frame
is assumed to arrive, and `SilenceEndsMapping`, `AbandonedSessionsLeave` say what follows when none does.
`IfaceStates!Fairness` assumes that threads inside a lookup are scheduled and stores become visible, not that frames come.
`PortDaemon!FairSpec` assumes that the scheduler runs `main`. That threads get round their loops again and again, which needs frames on
every interface, is the premise of `ShutdownCompletes` (`KeepsGoing`), because none of these ports has a receive timeout.

## 5. Where code and documents differ

Each of these is a `claim_*` run and an entry under `findings` in `PROJECT.json`:

* `claim_starvation`: periodic Hellos starve on a busy segment.
* `claim_generation`: a quick Discover replaces `MapperHwAddress` and not `MapperGenerationTopology` (`darwin-main.c:330`), so that periodic Hellos pair a mapper
  with the generation of another Discover, which `tests/pcap_regression.py:94` calls a mismatch. `GenerationClaim` adds what the test keeps, the generation of
  a mapper's last Discover, as a history variable.
* `claim_orphan`: a listener that was not cancelled outlives its structure. Shortest way: an interface appears,
  sleeps, its properties change, which leaves two controller registrations, it wakes, which each of them answers with a listener, and it goes.
* `claim_maxrate`: the maximal rate of VHT at 20 MHz is reported as 0.

Differences plain from reading, without a run:

* `Documentation/lltd_automata_specification.md:158` has Quiescent when the table is empty; the tick after Wait makes the enumeration Quiescent with
  complete sessions in it (`lltdAutomata.c:142`).
* `Documentation/automata_runtime.md:128` has a Discover add its session; one that meets Command past its timeout is consumed by the timeout, and
  the loop clears the table (`darwin-main.c:350`).
* `Documentation/lltd_automata_specification.md:144` has a history of probes; a Query frees those it had no room for (`lltdBlock.c:349`).
* `Documentation/automata_runtime.md:247` has no access across threads; two first frames at once make one thread overwrite the other's insertion into
  `g_iface_states` (`lltdBlock.c:48`), and the list keeps states of interfaces that went, found again by one at the same address.
* `darwin-ops.c:402` says that `getWifiMode` is TRUE for ad-hoc networks; it returns true for infrastructure.
* `WgetWirelessMode` (`darwin-ops.c:764`) never fails, so `answerHello` gives wired interfaces on Darwin the TLVs of Wi-Fi;
  `sendHelloMessageEx` does not.
* `darwin-ops.c:268` says an icon must be smaller than 32 KiB "which we are not yet verifying"; beyond 64 KiB a mapper reads for ever.
* A Wi-Fi table entry (HE, 160 MHz, MCS 11, 1.6 us) is cut where all others are rounded.
* `Documentation/lltd_automata_specification.md:114` lets the mapping automaton return from Emit to Command when emitting is
  done; the row exists (input -3, `lltdAutomata.c:60`) and nothing feeds it. The consequence, that only silence or a Reset
  leaves Emit, is part of every loop run.
* `Documentation/automata_runtime.md:121` has a conflicting Discover recognised; `lltdAutomata.c:461` looks for another mapper in
  the entry found *by* mapper.
* The Ack of an Emit is sent by the sender of its last emitee (`lltdBlock.c:554`), so that some Emits are not acknowledged.
* Emit becomes Quiescent on its timeout without the Reset the specification sends.
* `Documentation/automata_runtime.md:76` gives Command a timeout of 1 s (5 in the code)
  and `:130` expires sessions after 1 s (60 in the code).

## 6. Proofs

TLAPS checks each theorem for every value of the constants that satisfies the named assumptions.

* **Session table** (`SessionTableTheorems`, `SessionTableApiProofs`). `TableInv` is the table's type together with
  `TableConsistent`: `CountsLive`, `KeysUnique` and `StatusCurrent` have to be carried together, because the count needs
  finite sets of slots, the refinement of `session_table_add` needs unique keys, and the answers need both caches. One lemma per
  operation shows that it is preserved; another gives what the operation does to `SessionsOf` and `CompleteSessionsOf`.
  From these follow `TypeCorrect`, `AlwaysConsistent` and `TableImplementsRegistry`. Assumptions: `MaxEntries` in
  1..255, the width of `count`.
* **Automata** (`ResponderLoopProofs`, first part). A table that leads to states never leaves them; a deterministic table leads where its
  rows say (`Target` is a CHOOSE over rows, so determinism is what makes the model independent of the order of rows).
* **Mapping engine** (same module). `MappingInv`, type and both safety invariants, is inductive; the step that matters is
  the tick, where the deadline is cleared and `TimeoutEndsMapping` shows that the automaton ends in Quiescent even when the
  timeout of its own state has passed as well.
* **Enumeration engine** (same module). `BandInv` is inductive for any unit of time and any answers of the table; its part
  `EstimateWaitsForBegin` is a theorem (`BandEstimateWaits`) and no property of a run. The tick
  is proved stage by stage with one predicate (`Good`) about the band after each stage. `BandDeadlineFollows` is inductive on top of it:
  the deadline is chosen from the estimate in three places and put off in a fourth, and whatever the stage, it stays within what the
  estimate asks for or the least interval (`TickKeepsToEstimate`).
* **Listener thread** (`ResponderLoopProofs`). `LoopDrivesEngines`: every step of the loop is a step or a stutter of each engine
  (`MappingEngineStep`, `BandStep`), so the engines' invariants are taken over instead of proved again
  (`LoopKeepsEnginesSafe`). `LoopInv` adds the table's invariant and the two that tie the parts together. `SessionsOnlyWhileMapping` is
  inductive with the type of the mapping automaton only, because a Quiescent mapping has no timeout and a Discover
  therefore always begins one (`DiscoverBeginsMapping`). `EnumerationFollowsTable` speaks of the moments between handlers; a frame
  may break it and the tick that follows restores it, whatever it was, because the tick reads caches that `TableInv` makes current.
  `LoopImplementsRegistry` is the refinement for the whole loop: a Discover joins its session, completed or not, unless the table is full
  or the mapping ends with it; Reset, tick and the end of a mapping let sessions leave.
  `LoopHelloNamesLiveMapper` needs more than the property says: the session named is live *and no session is younger*
  (`NamesYoungest`). Without the second half the sweep could expire the named session and leave another, for which Hellos would go
  on. It holds of topology and quick Discovers alike.

* **Frame handlers** (`LltdBlockProofs`). The invariant is the type of what an interface keeps together with `SeenOnce`: the count has to be
  carried with the list, because a response is sized by the one and filled from the other. `NoProbeLostQuietly` then shows of a Query
  that what it reports is a prefix of the list, and all of it if it fits. `MapperServedAlone` and the types of frames need what an Emit sends
  (`EmittedFrames`). Assumptions: `BlockAssumption`.
* **Shared list** (`IfaceStatesProofs`). `LookupsAreOwn` rests on `OneOwner`: from the store into `iface_ctx` on, visible or not, a node
  belongs to one thread. Until it is visible the node reads as nobody's, and whether a thread reads its own store or
  memory, it reads itself exactly if it owns the node (`OwnedReadsOwn`). The order of stores, which makes lists lose nodes, does not matter to it.
  Any number of listeners and nodes; `NullAssumption`.

* **Other daemons** (`PortDaemonProofs`). `Inv` holds for interface lists of any length and all eight ports. `Accounted` is inductive once it is known where
  `main` is: `ArrayThere` ties each place of `main` to the array it has. `InOrder`: interfaces are released from the first on, and only those
  whose threads are gone, so that what `main` releases nobody uses. `InPlace`: a running thread has the array `main` has, but on
  Linux. `Distinct` says of what is still to be opened, too, that nothing is there twice: without that the next interface opened could be a second.
  `NothingLeaks`, `ThreadsKeepTheirs` and `InterfacesServedOnce` follow.
  `AutomataRecover` is about the tables: a Reset ends a mapping whether its state timed out or not (`ResetEndsMapping`),
  and a mapping that ended has no timeout to consume the Discover (`DiscoverBeginsMapping`). Assumptions: `DaemonAssumption`.
* **Interfaces on Darwin** (`DarwinLifecycleProofs`). For any services, addresses, listeners and registrations, with memory reused or not.
  `Remembered`: the registration a structure remembers was made for it and not released; this is more than `NeverForgotten`, which any registration
  satisfies, and is needed because a handler releases the one remembered and no other. The other theorems rest on what ties listeners to
  registrations. `LatestOnly`: a listener not told to stop is the one its structure points to, so that cancelling that one is enough.
  `WatchedWhileAwake`: while a listener goes on, the structure remembers a registration for its controller, and the controller is
  awake or about to be told to sleep, so that no message to wake up can find a listener going on, which is `SilentBeforeStart`. All three
  hold where no controller registration is `Unremembered`. A step is one of four kinds (`StepKinds`): a structure is remade or freed
  (`Remade`), listeners only end or are told to (`Quiets`), the world moves, or nothing does. Validation, which most steps end in, is proved once, outcome by
  outcome, as a function of memory. Assumptions: `LifecycleAssumption`.
* **Large TLVs** (`HostProofs`, first part). For data and MTUs of any size and any number of changes. `PropertiesReadWhole`
  rests on `Steady`: while a reading is settled it has one version, the one there is *now*, and has read exactly up to the offset it asks for next, short of the end. This
  is what the cache gives: the icon that is read is the one cached (`QuerySource`), because a part was read of it, so that it is not empty and is not fetched
  again. `Finished` carries this past the end, where the name may go on changing. Offsets are compared in 16 bits and totals are not, so the
  invariant also keeps the offset below 65536. `PartsBringOn` needs that the room of a response is never 0 (`PayloadRange`) and that the
  offset does not wrap. Assumptions: `HostAssumption`, MTUs of 206 to 32801.
* **Hellos** (same module). For names of any length and any answers of a port. `Partial` says of a Hello under construction what a reader needs of
  it: each TLV is where the length of the one before leads, the last leads to the offset, no type is there twice, the types are among those written so far
  and the offset is bounded. `AddTlv` shows that it is preserved by any TLV of a new type whose size is its length and the two bytes of its header, so that
  the proof of a Hello (`HelloBuilt`) names its TLVs in order, and the bounds add up to 206 bytes, the MTU `HostAssumption` asks for. That every Hello
  heard is such a Hello (`HellosBuilt`) is part of the invariant; `HellosCanBeRead` and `HellosFitTheMtu` follow.
* **Wi-Fi** (same module). For links with any numbers of streams up to 8 and any coding schemes (`MetricsAssumption`). The tables are compared entry by
  entry with the formula (`TableHT`, `TableVHT`, `TableHE`), one entry being cut instead of rounded, and with the entry on top of their column. Of the search loop
  the invariant `Looking` says that the running best is nearer than every combination before the one looked at next, except those as near with no fewer streams, and that there
  is none while all of them are too far. That "before" is the order of the loops, that an iteration moves to the very next (`FollowingIsNext`), and that after the last every combination is before (`AllBeforeEnd`) make
  `LookedOn` and `LookingEnds`, from which `InferredAreNearest` follows of any rate and any width. `ToolInv` says of which
  link, and of which rate, what was read and returned is. `MaximumCovers` is the theorem that has to put these together: the maximum is that of the
  number of streams *inferred*, which may be fewer than the link has. It still covers the link, because the combination inferred is as near as the link's own,
  which gives its rate exactly, so that it gives that rate too, and the entry on top is no less (`MaxExplains`). For the entry that was cut the nearest may be
  1 Mbit/s too slow; then the inferred streams cannot be fewer than the link's.
* `EitherAlone` says that what TLC checks of `MCHost` are behaviours of both specifications.

Every invariant, the strengthened ones included, was also checked by TLC. What is model-checked only is liveness under fairness
(`SilenceEndsMapping`, `AbandonedSessionsLeave`, `HelloKeepsComing`, `LookupsEnd`, `ShutdownCompletes`), which is out of the prover's reach, and `HellosAgree`, a comparison of two
lists of calls that nothing but the lists decides. Every other property of the passing runs is stated by a theorem.

## 7. Plan

Done: everything above. Left: a composition of `ResponderLoop` with `LltdBlock`, once the code gives the two notions of a mapper something to agree on.

## 8. Not modelled

Byte layout, logging and the text of properties. The queries of host properties and the conversion of images (`darwin-ops.c`,
`linux-ops.c`, `windows-ops.c`, `sunos-ops.c`), which are sequences of system calls without state of their own. TLV builders that nothing calls. The lock file
that keeps a second Darwin daemon from starting. Descriptors in `DarwinLifecycle`: a property change closes the descriptor kept in the structure, which may
belong to another listener by then. Messages of a controller validate the controller as if it were the interface; its outcomes
are among those modelled. The Windows VxD, the 16-bit diagnostic and the tools, except the Wi-Fi metrics the tool prints. Frames shorter than
they claim. The wrap of the 16-bit emitee offset beyond 4681 emitees, more than a frame holds. Overflow of `r` squared in 32
bits, which needs 9770 Hellos within 300 ms.
