# A Green Power Device on a BLE chip, in TLA+

The program (`src/`) runs a Zigbee Green Power Device (GPD) next to a Bluetooth
Low Energy stack on one EFR32 chip under Micrium OS. A peer writes GATT
characteristics to commission the device with a Green Power sink, and to send
toggles. This directory holds its specifications, their model-checking
configurations and machine-checked proofs: of the GPD itself, and of the kernel
and timer services that carry it.

## 1. Inventory

| Component | Source | State | Operations |
|---|---|---|---|
| GpdTask, the sequencer | `GPD/plugin/rtos-support/.../rtos_gpd.c` | local `flags`, `taskTimeoutTicks`, `gpd_event_flags`, `global_gpd_cmd/rsp/evt` | take a command; one pass of the state switch; save; pend |
| GpdLinklayerTask | `rtos_gpd.c:250` | `gpd_ll_evt` | hand the received frame to the parser |
| GPD command API | `gpd_commands.c`, `rtos_gpd.c:274` | `global_gpd_cmd`, `RSP_WAITING` | `gpd_cmd_commission`, `gpd_cmd_send`, (`gpd_cmd_decommission`) |
| Commissioning application | `GPD/plugin/apps/gpd-apps-commission.c` | `chReqSubstate`, `currentCommReq`, `gpdState`, `channel`, level, key | channel requests on all channels / on the receive channel, commissioning request, success, channel configuration, reply |
| Node context | `gpd-apps-node.c` | `gpdNode` | defaults, load, set state (and post STACK), set channel |
| Persistent context | `gpd-nv.c`, `gpd-callbacks.c` | shadow `gpdNvData`, one persistent-store key | load or format, save the counter, save all |
| Send and receive | `gpd-send-receive.c` | `txMpdu`, `rxMpdu` | bump and save the counter, build, transmit, open the receive window |
| Low-energy timer | `gpd-callbacks.c:222` | `leTimerRunning`, LETIMER0 | load, interrupt |
| Radio wrapper | `gpd-rail.c` | RAIL handle, receive buffer | transmit, receive, idle, callback (interrupt) |
| Network layer | `gpd-nwk.c` | frame buffers | build headers, parse, drop or dispatch |
| Security | `gpd-security.c` | one CCM context, two nonces | secure and open frames, wrap and unwrap keys |
| gpdAppTask | `main.c:519` | LED 0 | start GPD, handle the event |
| bluetoothAppTask | `main.c:352` | BLE event | calls the GPD API and the BLE stack |
| BGAPI delegate | `rtos_bluetooth.c`, `rtos_gecko.h` | message and response buffers, three command statics, flags | call, execute, answer |
| Kernel: scheduler, pend lists | `os_core.c` | ready lists, pend lists, current task | insert, remove, pend, post, abort, schedule |
| Kernel: mutexes | `os_mutex.c` | owner, nesting, group of each owner | pend, post, delete |
| Kernel: event flags | `os_flag.c` | flags, what each task waits for and was found | pend, post, delete |
| Kernel: tasks, delays | `os_task.c`, `os_time.c` | priority and base priority, state | change priority, delete, delay, resume |
| Sleeptimer | `sl_sleeptimer.c`, `sl_sleeptimer_hal_rtcc.c` | timer list with deltas, `overflow_counter`, RTCC comparator | start, stop, interrupt |

**Interaction.** Seven tasks with fixed, distinct priorities (`main.c:77-99`:
BLE link layer 3, BLE stack 4, bluetoothAppTask 5, GPD link layer 6, GpdTask 7,
gpdAppTask 8) and the radio and timer interrupts. They meet in event flag
groups, in single-slot globals (command, response, event, received frame) and in
the context `gpdNode`, which GpdTask and GpdLinklayerTask both write without a
lock. GpdTask busy-waits in its receive windows, so the link layer changes
state, channel, level and key in the middle of a pass. GpdTask and
bluetoothAppTask both call the BLE stack, the former to save its context at
every frame. `BluetoothMutex` and `GpdMutex` are created for such calls, and
their wrappers are never called. Every pend with a timeout ends in a timer of
the sleeptimer, whose interrupt calls the kernel back.

**What is hard.** The interleaving of the link layer with a pass; commands that
overwrite a commissioning in progress; a persisted intermediate state after a
reset; a frame counter that must be on flash before it is on air; which key is in
the one CCM context; offsets into frames written down four times; single slots
between tasks; flags that are found at a post and consumed later; priorities
inherited along chains of owners that change under it; a comparator set ahead of
a counter that moves and wraps; a timer whose interrupt races the flag it
clears; unsigned arithmetic on delays. `PROJECT.json`, "hazards", lists them with
their lines.

**What makes each part correct.** Sequencer: no transient state lasts; commands
are served one by one. Persistence: counters on air are fresh. Commissioning: the
success frame is secured as negotiated, on the granted channel, and reported only
when sent. Frames: what is built can be read back, what is announced happens, what
is heard was read whole. Receive window: on time, long enough, ended. BGAPI: a
caller's command is executed whole and answered to it. Mutexes: one owner, exact
inheritance, no inversion, truthful answers. Flags: no missed wake-up, nothing
lost or returned twice. Sleeptimer: overflows counted, no timer forgotten, on time.

## 2. Modules

| Module | Models |
|---|---|
| `GpdNode` | the device: GpdTask, link layer, gpdAppTask, the API caller, radio callback, flash, reset |
| `CommandService` | abstract: a caller's request, answered once, by its own response |
| `GpdNwk` | frames: build, secure, parse, open; the context and nonces they share |
| `ReceiveWindow` | the timing of one send: `emberAfGpdfSend`, `emberAfGpdScheduledReceive`, the timer and its interrupt |
| `BgapiDelegate` | two tasks calling the BLE stack through one buffer and one delegate |
| `OsCore` | ready lists, pend lists and scheduler of the kernel, as operators on its state |
| `OsMutex` | mutexes with inheritance, and all that changes who waits and at what priority |
| `OsFlag` | event flags |
| `EventFlags` | abstract: a group of flags is a set of events |
| `SleepTimer` | timers on one comparator |
| `MCGpdNode`, `MCGpdNwk`, `MCOsMutex`, `MCOsFlag`, `MCSleepTimer` | small instances |
| `GpdNodeProofs`, `GpdNwkProofs`, `ReceiveWindowProofs`, `BgapiDelegateProofs`, `OsCoreProofs` (lemmas only), `OsMutexProofs`, `OsFlagProofs`, `SleepTimerProofs` | theorems |

`CommandService` is the abstraction of both `GpdNode` (`ServesCommands`,
`ServesSafely`) and `BgapiDelegate` (`AppServed`, for the BLE application task);
`EventFlags` that of `OsFlag` (`IsEventFlags`). `OsMutex` and `OsFlag` both extend
`OsCore`. Definitions marked "Slip" in a comment are mistakes a maintainer could
make in the code; no specification uses them. They show that each property can
fail.

### GpdNode and the code

`pc` says where GpdTask is: `top` (start of the loop), `dispatch` (after the
command), `rxLoop`, `send` (entry of `emberAfGpdfSend`), `tx` (counter saved,
frame built), `window`, `sent`, `store`, `pend`, `blocked`, `trap`. `boot` is
`gpd_init`, run by gpdAppTask before the other tasks exist. `op` is the caller of
`emberAfGpdfSend`. There is one action per case of the state switch, one per leg
of a send, one per outcome of `OSFlagPend`. `Post` is `OSFlagPost`: it sets bits,
and a task blocked on one of them is made ready with the bits of *that* post
(`flagsRdy`), consumed when it runs, which `OsFlag` has in full. `GpdRuns` and
`AppRuns` are the priorities: GpdTask moves only when no higher task has a flag,
gpdAppTask only when GpdTask is blocked. The caller's `Return` needs no such
guard: it is the highest.

Data is abstracted to what the properties tell apart. Security level: none or
full. Keys: the pre-configured one (`oob`), the one the sink delivers (`net`),
the zeroed one (`zero`), the trust-centre link key (`tclk`). A frame is its
counter, level and key; received frames are a channel configuration, a reply
(with a key absent, good, or one that does not authenticate) or anything else.
`AcSeq` is the sequence of channels of one all-channels pass (the code visits 16
channels 4 times). Headers, lengths, auto-commissioning and nonces are in `GpdNwk`.
History variables (`aired`, `wrapped`, `deal`, `heard`) record what was on air and
what was heard, and guard nothing.

Assumptions, each made because the code or the configuration has it so:
a save to flash is one step and its caller gets the answer (`bgapi_response` shows
when it does not); the window ends (`receive_window` shows it); the
API is not called before `gpd_init` is over (a peer must connect first); the
shadow of the context is equal to what the key holds whenever a counter is saved.
`gpd_cmd_decommission` has no caller (`main.c:437` is commented out), so state
INVALID is not reachable; COMMISSIONING_REQUEST and OPERATIONAL_COMMAND_RECEIVED
are never assigned.

Faults: `reset` at any step (RAM lost, flash and history kept); `flash`, a load or
save that fails; `radio`, a transmission that is refused. Both end in a trap
of the code, an endless loop that only a reset leaves.

### GpdNwk and the code

A frame is a record of the fields of its header, the index at which its payload
starts, and lengths; a seal is the key, the nonce and the ranges that CCM was
called with. Two seals are equal exactly when one end can open what the other
sealed, which is all the cipher is. `gpdBuildHeader`, `buildMaintHeader`,
`emberGpdBuildMpdu`, `emberGpdSecureOutgoingMPdu` and `emberAfGpdfSend` keep their
names and their arithmetic, the constants of `gpd-components-common.h` included.
`Drops`, `Finger`, `gpdfAppPayloadLength` and `RxSeal` are the parser.
`PayloadAt`, `Length` and `SinkSeal` are the format, which the code's constants are
checked against. What the device sends in a maintenance frame is never secured; what
it hears may say so.

What is heard has any header and any seal: that of a sink, under any key and counter,
over the layout its header claims, or none at all (`Seals`). `Readable` is what the
code makes of it: a data frame at level 3 is opened, and zeroed if it does not
authenticate; nothing else is decrypted, so the device acts on a maintenance frame of
any level if its payload is legible. `own` in a frame is history, the key the device
had when the frame was built: CCM uses the key in its context, which may be another.

The sequencer is left to `GpdNode`: here its operations come in any order, with
restarts between them, which includes every order the sequencer takes. A send is
one step up to the opening of its window. Types of keys and the sequence number are
left out, the device does not read them back; so are devices addressed by IEEE
address, which another configuration would build.

### ReceiveWindow and the code

Time is in microseconds; `phase` is that of the timer clock, `timer` the ticks
left, `uf` the pending interrupt. A step of GpdTask takes no time; time passes
while it spins, or is stolen from it by higher tasks (`MaxStolen` per send). The
32-bit product and quotient of `emberGpdLoadLeTimer` are those of `Match`. The
assumption that the product does not wrap holds for the configured 20 ms offset
and 100 ms window; a `minRxWindow` above 131 ms, which its `uint8_t` allows, would
break it. `MaxTx <= RxOffset` is assumed and not checked by the code.

### BgapiDelegate and the code

A call is `Fill` (payload), `FillHeader`, `Call` (header passed by value),
`SetHeader`, `SetHandler`, `PostCommand`, then `PendTakes` or
`PendBlocks`/`Wake`, then `Read`. BluetoothTask outranks the callers, so
`Execute` is one step. An answer has the header, handler and payload that were
executed: parts of different commands show as "garbled".

### OsCore, OsMutex and the code

A kernel call is a critical section made of internal functions, so each function
of `os_core.c` is an operator from the kernel's state `k` to the next
(`RdyListInsert`, `PendListInsertPrio`, `Pend`, `EndPend`, `Sched`, ...) and an
action of `OsMutex` is the composition that the public function makes. The lists
are sequences in the code's order, equal priorities included, because who is at
the head decides who runs and who gets a mutex. `Sched` stands for `OSSched` with
the context switch of `PendSV_Handler`, which follows it at once.

`ChangePrio` is `OS_TaskChangePrio`, the walk from a waiter to the owner of what it
waits for, with its cases in order: ready, delayed, blocked and raised, blocked
and lowered. A task blocked in `OSMutexPend` has `asked[t] # None` until it runs
again and looks at its `PendStatus` (`MutexPendReturns`); posts, timeouts and
deletions may come in between.

Tasks call any service in any order. Three mistakes of the kernel are part of the
model and recorded in `fault` (section 3, Divergences); after one, nothing more is
modelled and nothing is claimed (`Sane`). They need OSTaskDel of an owner, or a
chain of three tasks on two mutexes and a timeout or a change of priority. The
program takes no mutex but inside its libraries, and the one task it deletes
(`main.c:339`) owns none, so none of them bites today; the wrappers of
`BluetoothMutex` and `GpdMutex` are there to be used. OSTaskDel of a task that is
deleted already reports an error and goes on (`TaskDel` does too); the count of
tasks it then takes down again, `OSTaskQty`, is not modelled.

Left out: the scheduler lock (no task of the program takes it), suspension and
`OSMutexPendAbort` (compiled out), round robin (disabled), task queues and task
semaphores (unused).

### OsFlag, EventFlags and the code

`PendTakes`, `PendBlocks` and `PendReturns` are the three ways through
`OSFlagPend`; `Post` walks the group's list and readies every task whose condition
holds with the flags it found, without clearing them; the task consumes when it
runs. Each task waits for flags of its own, as in `gpd_event_flags` and
`bluetooth_event_flags` when each has one consumer: this is `FlagAssumption`, and
`bgapi_response` is what happens without it. `EventFlags` says what a user relies
on: a posted flag stays until a pend returns it, and is returned once. The
refinement counts a flag promised to a readied task as still raised.

### SleepTimer and the code

The counter has `W` values; `high` counts its turns as `overflow_counter` should.
Every public function is one step (it is a critical section); the interrupt is
four: entry with the overflow, each timer fired, each callback's return, exit.
`Tick` moves the counter between any of them, but leaves an interrupt waiting at
most `Latency` ticks. `DeltasUpdated` is what a stop of a timer that does not run, and
sl_sleeptimer_get_timer_time_remaining, leave behind; the kernel calls neither, but
they move the deltas, so they are there. The kernel is the program's only user: one-shot timers of
equal priority whose callback starts none. Periodic timers, priorities, a timeout
of 0 (which only calls the callback), the wall clock (not built) and conversions
are left out. `left` counts what each timer was promised and guards nothing.

## 3. Runs

| Run | Question | Result |
|---|---|---|
| `safety` | counters fresh, success as negotiated, channel granted, event after success and not missed, commands one by one, no sleep over work, against any frames, all faults | holds |
| `liveness` | commands served, transient states pass, event reported; device key used | holds, conforming sink and noise, no faults |
| `channel` | a channel configuration received is kept (`gpd-apps-commission.c:376`) | not in the last window |
| `receive_window` | the window opens on time, lasts, and ends; no wait without an interrupt to come | holds while preemption is shorter than a programmed delay |
| `frames` | frames read back as meant, windows are those announced, what is heard is heard whole, data frames secured in full answer the last frame, answers are heard | holds |
| `bgapi` | the higher-priority caller is served by its own answer | holds |
| `bgapi_response` | the response comes (`rtos_bluetooth.c:219`) | not for GpdTask, until another command is made |
| `mutex` | one owner, truthful answers, exact inheritance, no inversion; every walk of priorities ends, circles included | holds until a fault of the kernel |
| `mutex_drag` | a base priority is not inherited, inheritance is updated (`os.h:779`, `os_task.c:2302`) | a timeout drags an owner below its base |
| `flags` | no task asleep on set flags, groups are sets of events, the readied return | holds |
| `sleeptimer` | overflows counted, no timer forgotten, timers on time | holds while no update finds the head overdue |
| `sleeptimer_early` | a callback comes when its timeout expires (`sl_sleeptimer.h:141`) | early, when one does |

`Sane` in `OsMutex` and `~disturbed` in `SleepTimer` are preconditions. They leave
the properties enough to say, as each has a slip that violates it with the
precondition true; and they are needed: `mutex_drag` and `sleeptimer_early` show
what happens without.

**Bounds.** `GpdNode` (1.7 million states): a 3-valued counter (2 where counters do
not matter) wraps within a commissioning, so the overflow case occurs; two channels
in the all-channels pass, one of them the receive channel, give a loop with a first
and a last step and a channel to change; two requests per receive pass give a
window that is not the last and one that is; one or two commissioning requests give
both a retry and a spent allowance. Every frame the device acts on can arrive in
every window of `safety`, and one it drops in those of `liveness`.

`GpdNwk` (2,137 states): every header, data and maintenance frames at every level,
with every seal, in every window, at every state; what is merged are addresses other
than the device's, bits of an extension that is not there and the address of a
maintenance frame, which has none. A counter of three values tells the last frame
from the one before and from a wrapped one.

`ReceiveWindow` uses 2 us per tick, an offset of 10 and a window of 8, every clock
phase and every transmission time up to its bound, and steals at most 4 us in a
send. The shortest delay, 6 us, is loaded as three ticks, and the bound of
`NeverSpinsInVain` is where the proof puts it: the run also passes with 6 us stolen,
and with 7 TLC has GpdTask spin for ever. `BgapiDelegate` numbers commands
modulo 2: a call and the one before it.

`OsMutex` (437,186 states): three tasks of different priorities and two mutexes
make a chain of owners with a waiter at its end and let a task own two; four
priorities leave one between to be changed to; nesting to two has a first and a
last level; one deletion or change of priority, at any moment, to any task or mutex. The loop of
OS_TaskChangePrio has no bound in the code; the model's, `MaxRounds`, is the
`LongestWalk` of three tasks and four priorities, 28, which `MutexAssumption` asks
for, and `WalkEnds` says that it is never passed.
`OsFlag` (16,072 states): one group; two tasks of equal priority and one above, a
task that waits for two flags both ways, posts that satisfy one, two or no task.
`SleepTimer` (642,500 states): two timers, a counter of 12 values with timeouts of
1, 3 and 6 (the largest is half the counter, the most the assumption allows; 1 is
below what the comparator can be set ahead), one tick of latency, an overflow
counter that wraps too (the 64-bit count then reads `H`, not 0, until the overflow is
counted, as `of_cnt` is wider than `overflow_counter`). Timers are interchangeable, so they are a symmetry set; it
has safety properties only. No other run has one, and there are no state
constraints: the state spaces are finite and complete.

**Deadlock** is checked in the runs of the GPD (a trapped device can still reset,
and without faults it never traps), of BGAPI, of frames and of the sleeptimer. It is
not in those of the kernel: tasks that take two mutexes in opposite orders do
deadlock, nothing follows a fault, and when all groups are deleted no call is left.

**Fairness.** `GpdNode`: weak fairness of `GpdTask`, `GpdLinklayerTask`, `Boot` and
`Return`: a ready task with no higher task busy has the processor. Strong fairness
of `AppTakes` and `AppPosts`: gpdAppTask is preempted whenever GpdTask is readied,
and gets the processor each time GpdTask blocks. Closing a window is part of the
fairness of GpdTask, which is what `receive_window` shows. In `BgapiDelegate` the
callers have strong fairness for the same reason. In `OsFlag` each task is a loop
around a pend (all tasks of `main.c` and `rtos_gpd.c` are), so the one that runs
comes back to it: weak fairness of `AnyPends` and `PendReturns`, for each task.
`ReceiveWindow`: time passes, and the interrupt and GpdTask get the processor.
Nothing obliges a peer, a sink, an interrupt or the chip to do anything. Where
someone could keep a higher task busy for ever the property says so:
`FramesCease`, `CommandsCease`, and the premise of `ReadiedReturns`.

What the properties do *not* say: after a reply that fails to authenticate, the
link key stays in the CCM context and the device key is zeroed, so
`SecuredWithDeviceKey` is claimed only without such replies. A reset in the middle
of a commissioning leaves the device in the restored state until a command comes.
A toggle before any commissioning is sent and leaves the device OPERATIONAL.

### Divergences

Where code and comment disagree, the modules follow the code. Those with a run are
its findings:

- `channel`: a channel configuration heard in the last window of a pass is
  overwritten by `gpdState = CHANNEL_REQUEST` (`gpd-apps-commission.c:370`).
- `bgapi_response`: one `RSP_WAITING` flag stands for two responses, and GpdTask
  waits for one that was taken (`rtos_bluetooth.c:220`).
- `mutex_drag`: lowering a waiter gives its priority to an owner that did not have
  its own from it (`os_task.c:2364`: `p_tcb_owner` is kept when the test at 2365
  fails).
- `sleeptimer_early`: an update that finds the head overdue moves
  `last_delta_update_count` back (`sl_sleeptimer.c:1109-1110`), and the timers
  behind it are early.

The others were met while modelling; the modules have them, and the properties hold
with them:

- "Falling here we wait for ever" (`rtos_gpd.c:180`, `198`): the local STACK bit is
  never cleared and every pass posts EVT_WAITING (`rtos_gpd.c:217`), which
  gpdAppTask answers with EVT_HANDLED, so after the first command the two tasks
  alternate for ever, with a flash write each round. It is also all that gets a
  state the sequencer assigned itself its pass (`NeverAsleepOnWork`).
- "Write the GPD Commissioning characteristic to enable commissioning"
  (`README.md:29` of the program): `currentCommReq` is reset only in a branch the
  bidirectional machine never takes (`gpd-apps-commission.c:404`); a commissioning
  after one that spent its allowance gives up at once, until a restart.
- "the calling function must push and pop the security level"
  (`gpd-apps-commission.c:166`): the bidirectional machine (397-413) does not, so a
  commissioning that gives up leaves and saves level none.
- "Approx 1 sec between each" (`README.md:40`, and the fix claimed at 44): the pend
  that waits 900 ticks is ended by EVT_HANDLED (`rtos_gpd.c:238`).
- "Command structure is filled, notify the stack" (`rtos_bluetooth.c:217`): what is
  posted for GpdTask may be partly bluetoothAppTask's (`rtos_bluetooth.c:214`), for
  want of the mutex.
- `emberGpdLoadLeTimer` enables the timer before it sets `leTimerRunning`
  (`gpd-callbacks.c:272-273`): a preemption in between for longer than the delay
  leaves GpdTask spinning. `receive_window` takes less from it than a delay, and
  `NoVainWait` has that as its hypothesis.
- The success frame clears the receive bit of its header (`gpd-nwk.c:130`) and a
  window is opened all the same: the exception in `ListensAsAnnounced`.
- "TODO : Drop Maintenance Frame with security enabled" (`gpd-nwk.c:361`): the parser
  takes counter and MIC off such a frame (346-352), opens data frames only (363), and
  acts on the payload as on one in clear (382). `MCHeads` has these frames;
  `HearsWhole` says they are read whole, and nothing of where they come from.
- `gpd-nwk.c` authenticates a LONG_AUTH_ONLY reception from one byte before the
  header and looks at no result; the MIC pointer at `gpd-nwk.c:351` is one off and
  unused; a level 3 frame with long addresses is opened at the offset of a short
  one, fails and is dropped. `HearsWhole` holds through all three, as it claims
  authenticity of data frames at level 3 only.
- `gpd-apps-commission.c:454` reads one byte of the PAN ID twice, and drops it.
- Kernel: `OS_MutexGrpPostAll` gives a mutex to the task that is being deleted
  (`os_mutex.c:876`), and deleting that mutex follows a null pointer; the walk of
  OS_TaskChangePrio halts the system when it reaches a task that OSTaskDel has
  taken off its pend list; OSTaskDel of a deleted task goes on after its error, and
  decrements `OSTaskQty` again (`os_task.c:514-519`); OSTimeDly returns inside its critical section when the
  delay overflows (`os_time.c:157-160`).
- Sleeptimer: the modulus at `sl_sleeptimer_hal_rtcc.c:109` is the largest value of
  the counter instead of their number, so that value becomes 0: one tick late,
  within what `Armed` and `OnTime` allow.

## 4. Proofs

Eight modules hold theorems or the lemmas they rest on; each extends the module it is about. All follow one
pattern: an inductive invariant, one lemma or step per action, and the properties
read off it.

`GpdNodeProofs`, for every channel list, bound, set of frames and set of faults
that satisfies `NodeAssumption`:

- `TypeCorrect`: `TypeOK` alone is not inductive: `TypeInv`
  adds that a link-layer flag means there is a frame in the buffer (or its
  channel, key and level would have no type), that a commissioning request under
  way was allowed (or the count of them could pass its bound), and that past the
  boot the store key is not empty (or the save of the counter would have nothing
  to update).
- `CounterFresh`: `CounterInv` orders three
  counters: past the boot the saved one equals the one in RAM; the last on air is
  at most the saved one, or the word has wrapped; in `tx` the frame carries the
  counter in RAM. It survives a reset because the counter is saved before it is
  transmitted, so that flash, the only thing left, is never behind the air.
- `CommandsOneByOne`: `CallInv` adds that a local
  CMD bit is served at once (GpdTask is at the top of its loop) and that a wake-up
  under way holds bits still set in the group, so a command is not taken twice.
- `ImplementsService`: initial states map to initial
  states, and each action is a step of `CommandService` or a stutter under the
  mapping. `Command` is `Answer`, `Return` is `Take`, `Issue` is `Ask`, `Reset` is
  `Lose`.

The same module, under the same assumption, has what a commissioning run is
worth. `CommissioningInv` says what the code nowhere states but relies on:

- a window takes one frame, handled before GpdTask closes it (`OneFrame`): so while
  a frame may still come, the state is the sender's (`SenderState`), and a reply
  that authenticates is never followed, in the same pass, by one that does not. The
  receive-channel pass, with several windows, is the exception, and a harmless
  one: it puts the state back to the channel request at its end;
- a restored state does nothing (`AtBoot`, `Live`): STACK is in no set of flags
  until a command replaces the state. Otherwise a reset in `SUCCESS_REQUEST` would
  report a commissioning that this life of the device has no key for;
- between the reply and the success frame channel, level and CCM key are those
  agreed (`OnGranted`, `OnTerms`), and `SUCCESS_REQUEST` always means that the last
  frame built is a success frame (`SuccessOut`).

`SuccessAsNegotiated`, `OnGrantedChannel` and `ReportFollowsSuccess` are read off
it. `DeviceKeySecures` needs one hypothesis more, `ConformingSink`: a reply that
does not authenticate wipes the device key and leaves the link key in the CCM
context, where the next secured frame finds it.

`NeverAsleep` and `NeverMissed` are the safety part of `TransientStatesPass` and
`CommissioningReported`. Both are read off `AwakeInv`: a pass that leaves the local
STACK bit set comes to the pend with EVT_WAITING posted; gpdAppTask, the lowest
task, can consume it only once GpdTask is blocked, and then owes it EVT_HANDLED,
which the pend waits for. Most actions need no case of their own: GpdTask inside a
pass only adds flags (`AtWork`), the other tasks touch neither GpdTask nor the event
(`Elsewhere`).

`GpdNwkProofs`, for every width of the counter, every address and every set of
headers that satisfies `NwkAssumption` (it says only that bits of an absent extension
are clear): all five invariants of `frames`. Three facts about states are enough:
`gpd.autoCom = ~gpd.rxAfterTx` (no operation sets one bit alone);
`open => ccm.rx = gpd.fc` (the nonce of reception follows each send); and
`ccm.key \in KeysInUse(gpd.level, gpd.key)`, that the CCM context holds the key of the
device wherever the level asks for one. The last is why `ReadsBack` can name the
device's key: a request loads the link key and goes to level 0, and only a reply that
loads the device key raises the level. A reply that does not authenticate keeps the
level and wipes the key; `KeysInUse` allows the link key then, and so do the theorems.
The rest are facts about operators, stated as lemmas: a frame reads back if its nonce
is its counter and its key in use (`DataReadsBack`, `MaintReadsBack`), headers the
parser lets through are those its constants fit (`HeardWhole`), and a conforming one
is never dropped (`ConformingHeard`).

`ReceiveWindowProofs`, for every offset, window, clock, word and bound of
`WindowAssumption`: `TypeOK`, `OpensOnTime`, `ListensLongEnough`. The invariant
bounds the moment of the underflow, `Ends`: rxOffset away from the transmission to
within a tick, since truncation by `Match` and the phase of the clock at the load
each cost less than one and go opposite ways, and the time stolen before the load.
`CountsDown` shows that a microsecond moves the underflow by exactly one.

`NoVainWait` is `NeverSpinsInVain`, the safety part of `WaitsEnd`, under the
hypothesis `Unhurried`: no more time is stolen in a send than the ticks of any of
its delays last. Between the start of the timer and the assignment of the flag,
more is left of the delay than may still be stolen (`Ahead`), as a stolen
microsecond is counted on both sides.

`BgapiDelegateProofs`, for every number of commands: `TypeOK`, and `AnswersApp`, the
safety part of `AppServed` for either set of callers that has the application task.
`AppInv` follows one call through the buffers; what makes it inductive is that the
application task never blocks, because the stack executes its command before it
reaches its pend, so that GpdTask does not move during the call (`Alone`). Nothing
of the kind holds for GpdTask.

`SleepTimerProofs`, for every width of the counter and of `overflow_counter`, every
set of timers and timeouts of at most half a turn: the whole of the run `sleeptimer`.

- `CountsOverflows`, if an interrupt waits less than half a turn of the counter
  (`Prompt`). Half, because an overflow that comes while the interrupt is at work
  waits for its end and then for the next.
- `TypeOK` and `Armed`, whatever the interrupt waits, read off `SleepInv`. A timer is
  due after the sum of the deltas up to it (`Offset`); what an update, an insertion
  and a removal do to the sums is three lemmas (`UpdatedList`, `InsertedList`,
  `RemovedList`). `ArmedFor` is `Armed` for any list and comparator. An update with
  an overdue head puts `last_delta_update_count` back, and the value computed for the
  comparator would be almost a turn away: what saves the timers is that such a head
  finds the comparator at most two ticks ahead, where it is left alone (`AfterUpdate`,
  `AfterCompare`).
- `OnTime`, if the wait and the comparator's two ticks are less than half a turn
  (`Punctual`), adds `Timely`: the ticks left to every timer are its sum less those
  since the last update, and the comparator is never more than two ticks behind the
  head.

`OsCoreProofs`, for every set of tasks and objects and any number of priorities: one
lemma per function of `os_core.c`. `Lists(seq, S)` says that a list has each member
of a set once and nothing else; `Sound(s, T)` that the ready lists and the pend
lists are those the states of the tasks of `T` ask for (`T` is all tasks, or all but
the one that OSTaskDel has taken out). Each lemma says what a function does to the
lists and which fields it leaves (`Changes`). A post walks a pend list, a
change of priority walks the owners; both are recursive functions on a
range of numbers, so that what holds at every step is shown with `Induction`, which
states the principle about a set of numbers.

`OsMutexProofs`, for every set of tasks, mutexes and priorities, every nesting and
number of changes: the whole of the run `mutex`.

- `MutexWalkEnds` says why the unbounded loop of OS_TaskChangePrio ends, even where
  nested pends have closed the owners into a circle, and nothing of the state is
  assumed but its types. A round that raises a task goes on only to one that is still
  below the new priority, and all rounds after it are of this kind: fewer tasks are
  left `Above` (in number). A round that lowers a task leaves less `Room` to go down.
  One that changes nothing goes on only with a priority that changes the next. `Rank`
  joins the three, starts at `LongestWalk` at most (`RankType`) and falls every round
  (`RankFalls`, `RoundFalls`). So `MaxRounds` cuts no walk of the code short, in any
  instance that satisfies `MutexAssumption`.

- `MutexTypeCorrect`, `MutexOwnedByOne` and `MutexToldTheTruth` are read off
  `MutexInv`. The lists and types hold whatever happens, mistakes of the kernel
  included; until the first mistake, so does `Healthy`. The group of a task is what
  it owns (`Groups`), owners are alive (`Alive`), and who waits, waits for a mutex
  that *another* task owns (`Waited`): without the last, a post could give a mutex to
  nobody, or a walk could meet a task that is not in the list it looks in. `Asking`
  says what a task inside its pend will be told when it runs. OSTaskDel breaks
  `Groups` one mutex at a time and mends it the same way (`GroupsBut`, `Left`,
  `Posted`).
- `MutexInheritsExactly` and `MutexNoInversion` are read off `InheritInv`, which adds
  that every live task has what it is due (`Due`) and that the pend lists are in
  order. `Due` is about *all* that wait, as nothing about the first of a list survives
  its removal; `UninheritedDue` shows that what the code computes from the heads is
  the same. During a walk it is false for exactly one task, the one the walk is at,
  and there it is true of the priority that task is about to have (`WalkExact`);
  `RoundExact` carries that from one task to the next, `ChangePrioExact` along the
  walk. A walk that begins at the owner of what was just taken, before the new waiter
  is listed, knows of it through `e`, the priorities on their way. `Kept` is what
  each call leaves: exact priorities, and a switch only to a task that no ready one
  is above (`Switches`), which with the first gives `MutexNoInversion`.

`OsFlagProofs`, for every number of tasks, groups, flags and priorities under
`OsAssumption` and `FlagAssumption`: `FlagTypeCorrect`, `NeverAsleepOnSetFlags`, and
`FlagsAreEvents`, that `OsFlag` implements `EventFlags`. The invariant ties state,
object and `asked` of every task: a blocked task is blocked where it asked and finds
nothing there; a readied one holds flags that are its own and still set.

**Only model-checked:** liveness, as fairness and ENABLED are beyond the prover:
`ServesCommands`, `TransientStatesPass` and `CommissioningReported` of `GpdNode`,
`WaitsEnd` of `ReceiveWindow`, `ReadiedReturns` of `OsFlag`, and what `AppServed`
says beyond safety. What each of them rests on is proved: `ImplementsService`,
`NeverAsleep`, `NeverMissed`, `NoVainWait`, `FlagTypeCorrect` (a readied task is in
the ready list of its priority) and `AnswersApp`. Every invariant and every action
property of a passing run is a theorem.

## 5. Not modelled

The Bluetooth stack, RAIL and mbed TLS (libraries), message queues, semaphores and
libraries of Micrium OS (the program uses none of them), CMSIS and chip headers,
peripheral drivers, chip start-up, OTA upgrade, GATT database (generated), the
crypto self test, the offline NV extractor. They are most of the repository's lines,
and none of its own logic. Bytes of frames are counted, not spelled. Unidirectional
commissioning and application descriptions are compiled out by
`gpd-configuration.h`.

## 6. Plan

Done: `GpdNode` with `CommandService`; `ReceiveWindow`; `BgapiDelegate`; `GpdNwk`;
the kernel services `OsMutex` and `OsFlag`; `SleepTimer`; the proofs of section 4.

Left: `GpdNode` with saves as BGAPI calls, to show what a lost response, or the
result of another's command, does to a send.
