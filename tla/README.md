# Cooperative driving on μT-Kernel 3.0: models, checks and proofs

The program lets small cars (micro:bit + Maqueen Plus V2) drive on a road in the
shape of the character 田 without getting into each other's way. One micro:bit is
the server: it keeps a *space-time grid*, that says for every cell of the road and
every second to come which car has booked it. A car asks it by radio for a route,
gets a list of orders ("forward for 2 s, turn left for 3 s, ...") and executes
them. Both programs run on μT-Kernel 3.0, which is part of the repository.

## 1. The system and its parts

| part | state | operations | how it is reached |
|---|---|---|---|
| space-time grid, `CAV/src/STG.c` | `spatio_temporal_grid[y][x][time % 1000]`, `server_time`; during a search `open_list`, `closed_list`, the tree of `Node`s | `stg_handler` (every second), `stg_reserve`, `stg_get_delay_until_departure` | the physical timer's handler (level 3) and the radio handler (level 6) of the server |
| server radio, `CAV/src/server.c` | the RADIO peripheral's state, `packet[32]`, `current_id` | `radio_interrupt_handler`: DISABLED, READY, END events | interrupt level 6 |
| client radio, `CAV/src/client.c` | the RADIO peripheral, `packet[32]`, `transfer_task_id`, `previous_target`, `current_target` | `request_departure_time_ms` (polling), `reserve_order`, `transfer_task` (sends and sends again), `receive_interrupt_handler` | the drive task, a task of priority 2, interrupt level 1 |
| order list, `CAV/src/list.c` | head, tail, length, linked elements | init, unshift, append, shift, get, get_last, length, delete | the drive task and the client's receive handler, without a lock |
| driving, `CAV/src/drive.c`, `order.c` | `d_request_sent_flag`, `d_last_request_list_count`, the order list | `start_drive`, `process_orders`, `calculate_departure_delay_s`, `follow_path`, line tracking and turning | the drive task |
| IIC driver, `CAV/src/iic.c`, and `maqueen.c` on it | a transfer control block per channel, an event flag, a lock | `iic_transfer`, its interrupt handler | the drive task, interrupt level 3 |
| LED matrix and buttons, `LED.c`, `app_main.c` | display rows, a timer | drawing, choosing the role | the timer's handler, `usermain` |
| kernel tasks and objects, `kernel/tkernel/` | task control blocks, ready queue, wait queues, semaphores, event flags, mutexes, mailboxes, message buffers | the `tk_*` system calls | tasks, handlers, time-outs |
| kernel pools and memory, `mempfix.c`, `mempool.c`, `memory.c`, `klock.c` | free lists, area queues, the lock of an object | `tk_cre/del/get/rel_mpf`, `..._mpl`, `knl_Imalloc`, `knl_LockOBJ` | tasks; everybody else comes between their steps |
| kernel time, `timer.c`, `time_calls.c` | the clock, the queue of time events, cyclic and alarm handlers | `knl_timer_handler`, `tk_cre/sta/stp/del_cyc`, `..._alm`, insertion and deletion of time-outs | the timer interrupt, tasks, handlers |
| device management, `device.c`, `deviceio.c` | tables of devices, open descriptors and requests, the count of suspend prohibitions | `tk_def_dev`, `tk_opn/cls_dev`, `tk_rea/wri_dev`, `tk_wai_dev`, `tk_sus_dev` | tasks; the functions of drivers, called unlocked |
| locks, `lib/libtk/fastlock.c`, `fastmlock.c` | a count and a semaphore; a word of bits, a count and an event flag | `Lock`, `Unlock`, `MLockTmo`, `MUnlock` | drivers (the IIC driver among them) |
| serial driver, `device/ser/` | two ring buffers, the IDs of sleeping tasks, errors, speed, the UART | open, close, read, write, attributes, the interrupt handler | the device manager through `msdrvif.c`, interrupts |

The server's part: a packet comes in, the radio handler turns the radio round,
and when the transmitter is ready (`READY` in `TXIDLE`) it looks at the packet.
On logical address 0 it gives out the next ID and a departure time; on any other
address `n` it books a route for vehicle `n`, and the packet is sent back on
address 0. While it searches, the timer's handler, which has a higher priority,
may move the time on.

What is hard: the timer frees slots of a grid the radio handler is in the middle
of checking and writing; slots are used again every 1000 s; the search runs on
arrays whose bounds nobody checks; a lost reply makes a car ask again for what
was already booked; a car's list of orders is changed by an interrupt handler
while the driving task works on it; late events of the IIC and the radio meet
code that has already timed out; and in the kernel, priority inheritance, lock
hand-over and time-outs change the same queues; memory pools and devices are worked
on in several critical sections, between which tasks are suspended and terminated; and
the clock wraps around while handlers set and stop one another.

Each component and what makes it correct:

- **Space-time grid.** The orders a vehicle gets and the seconds booked for it say
  the same; no booking of a way takes a second from another vehicle (that of the target at
  its end may, section 6); the ring buffer shows no booking of another second; every search
  ends and fits its arrays.
- **Server radio.** Whatever events the peripheral reports, the server listens again.
- **Client radio and driving.** One request at a time; each request is repeated until
  it is answered; the vehicle follows the orders in order, each once, and books each
  trip from where the last one ends.
- **Order list.** It is a queue, although an interrupt handler appends to it, wherever the
  code allows that (section 6 says where it does not), and its elements are freed.
- **IIC driver.** The handler stays within the commands of the call that is in
  progress; a transfer that is reported done is done; none needs its time-out to end.
- **Kernel.** Queues hold the tasks they should, in the right order; a mutex has one
  living owner; priorities are inherited, and given back; no wake-up is lost; message
  buffers hold whole messages; what runs is what should run.
- **Pools and memory.** A lock has one holder or is free; each block is free or lent, once;
  areas tile the memory; nobody waits for a block that is there.
- **Time.** What is set happens after its time has passed in full and within two periods,
  cycles do not drift, and nothing is left behind when the clock wraps around.
- **Devices.** Who closes waits for all who are in the driver and is always woken; a
  request belongs to whoever is in the driver with it; all devices suspend together.
- **Locks.** At most one holder, nobody forgotten.
- **Serial driver.** Bytes arrive in order and once, a loss is told, the transmitter never
  stalls, a sleeping task is woken.

## 2. Modules

`A -> B`: B extends or instantiates A.

    RoadMap, Trip, STG -> STGTrips                    the grid on the real road
    Calendar -> STG -> Junction                       the grid on a small road, as a calendar
    OrderQueue -> OrderList                           the vehicles' list, as a queue
    Packet -> Vehicle, Server -> Cav -> MC_Cav        vehicles and server on the air
    IIC -> MC_IIC
    KernelTask -> KernelMutex, KernelSemaphore, KernelEventFlag,
                  KernelMailbox, KernelMessageBuffer
               -> KernelCalls
    KernelTask -> KernelLock;  KernelLock, KernelMemory -> KernelMempool -> KernelMempfix
    KernelCalls, KernelMempfix -> Kernel -> MC_Kernel
    Countdown -> KernelTimer
    Device -> MC_Device
    MutualExclusion -> FastLock, FastMLock
    SerialDriver

    STG -> STGProof;  Cav -> CavProof;  OrderList -> OrderListProof
    Kernel -> KernelInvariant -> KernelQueueProof -> KernelProof
    KernelTimer -> KernelTimerProof;  Device -> DeviceProof
    IIC, SerialDriver, FastLock, FastMLock -> DriverProof

### The server's grid: `STG`, `RoadMap`, `Junction`, `STGTrips`, `Trip`, `Calendar`

`grid` is `spatio_temporal_grid`, `server_time`, `current_id`, `open`, `closed`, `path`
are the variables of those names; `node` maps a cell to the search node of that
position (a cell is in the lists at most once, which `NodesOnce` checks). `pc` says
where the radio's handler is: `stg_reserve` is taken apart into one step per node
taken off the open list (`Expand`, `FoundTarget`), per neighbour (`Neighbor`), per
parent link (`Trace`), per cell booked (`WriteNode`, `WriteTail`), because the
physical timer's handler (`Tick`, `stg_handler`) may interrupt it anywhere. Within
one such step the code reads or writes one cell's seconds; a tick in the middle of
that would free only a second that has just ended, and whether it comes before or
after the loop's access to that slot is the same as it coming before or after the
step, except for a departure in the current second (delay 0, see section 6).
`at` and `trips` are the environment: where the next trip of a vehicle begins, and
how many it has asked for. A lost reply (`WriteTail(FALSE)`) makes the vehicle ask
again for the same trip. The road (`Moves`, `WaitCells`, ...) is a parameter:
`RoadMap` gives `grid_directions` of STG.c, `Junction` a ring of six cells where
more vehicles and bookings on top of each other fit into a run.
`STGTrips` says what orders mean to a vehicle (`Trip`: `follow_path`, the headings
and the seconds each order takes) and compares that with the bookings.
`Calendar` is the abstract specification: seconds in sight, bookings that give a
vehicle free seconds of a cell, time that alone takes them back. `STG` maps the ring
buffer to it (`Bookings`): second *t* of a cell is slot *t* modulo the length of the
buffer.

### The vehicles' list: `OrderList`, `OrderQueue`

The elements are modelled by `next` and `data`, which points to the block the order is in;
element and order are two allocations in the code as well (list.c:16, client.c:133,
drive.c:248). `list_shift` frees the element. The order it returns is dropped (drive.c:270)
and stays allocated, so `order`, the blocks that have been allocated, only grows, and a run
has at most `MaxOrder` of them. `list_unshift` and `list_shift` are one step per access to
memory that the handler can see, `length++` being a load and a store of 16 bits; the handler
with its `list_append`s is one step, for no other user of the list interrupts it, and it may
come between any two steps of the drive task. At some of them the list is open to damage
(`Exposed`): while an element is put into an empty list or the last one is taken out, and
between the load and the store of the length. `raced` remembers that the handler has come
at one of those; the promises of the list hold until then. `OrderQueue` is the abstract
queue, `Elements` what is linked from the head, `Orders` the queue this stands for.

### Vehicles and server on the air: `Packet`, `Vehicle`, `Server`, `Cav`

A step of `Vehicle` is a call of a list function, a transmission or a listening
period of the drive task, the transfer task or the receive handler of one car; the
scheduler's priorities are in the guards (`Blocked`: the transfer task only runs while
the drive task sleeps or waits for the bus; `Interrupted`: the handler runs before
both). `Server` reacts to the events of the RADIO peripheral one at a time. `Cav`
composes them: a transmission on a logical address is heard by any subset of those
that listen on it. The server and its radio share one buffer with the request, so an
answer overwrites only the first bytes (`Overwrite`), and the car reads on to the first 0
(`OrdersIn`), so that it may follow the end of an earlier answer too. `Appended` is the
handler's loop: an order that equals the last one of the list makes that one longer. The
route that is answered is one of `Routes`, in `MC_Cav` the ones `STGTrips` finds for a
vehicle alone on the road; `RoutesSuit` says what the list needs of them.

### The bus: `IIC`

`iic_transfer` (Begin, Wake, TimeOut, End), the handler's tests one after the other
with the branch each leads to, and the TWI peripheral, whose events come when they
come. Both channels share the event flag and the interrupt level. A channel has one user at a
time: the driver takes a lock of `FastMLock` around the transfer, whose exclusion is
proved by itself.

### The kernel: `Kernel*`

The state is one record `knl`, a routine of the kernel an operator from a state to a
state, and a system call one step: in the source each is one critical section with
interrupts disabled (the calls of memory pools are not, see below). The names of fields
and routines are the source's. `KernelTask` has task.c, ready_queue.h, wait.c and wait.h; the five object modules their calls and
hooks; `KernelCalls` task_manage.c, task_sync.c and dispatching; `Kernel` who may
call what and when, time-outs, and the properties. Simplifications:

- the ready queue is one sequence, highest priority first, instead of 32 queues and
  a bitmap; `knl_ready_queue_top` is its head;
- results of calls are not kept, and calls that fail without a change are not steps;
- the dispatcher runs after each call, unless dispatching is disabled, so a handler
  that makes several calls before it returns is one call per interrupt; since
  `schedtsk` is updated by each call, what differs is only which task is `ctxtsk`
  in between;
- the routines by which priorities are inherited call each other, always last:
  `KernelMutex` makes each of them a step that says whose priority is to be changed
  next, and `AllDone` takes the steps one after the other, at most `MaxTurns` of them.

`KernelMemory` has the areas of system memory and of variable pools: `areaque` by
address, `freeque` by size, with a header of one unit between areas. `KernelMempool` and
`KernelMempfix` have the calls of the pools, `KernelLock` the lock of klock.c. A call on a
pool is in the state of its task (`call`: what it does, where it is, on which pool, with
which block or memory), and `Continued` takes it one critical section further: memory
before the control block, the lock, the look at the pool, the hand-over or the free
list, the memory given back. Only the running task goes on; handlers, time-outs and,
after a dispatch, other tasks come between. `tk_ter_tsk` refuses only the task that holds
the lock (`klocked`), so a task may end anywhere else in a call. Callers are taken to keep
one rule, `GivenBack`: a block is given back once, and not to a pool that is being deleted
(section 6 says what the code does then).

### The kernel's clock: `KernelTimer`, `Countdown`

The clock and the times of events have *W* values and wrap around, as the lower 32 bits
do that the code compares; every value is visited, so that there is no bound on time.
The timer interrupt is one step for the clock and one for each event it takes off the
queue; while a user's handler runs (`interrupt = "user"`), it and higher interrupts make
calls. `due` remembers what is left of the time asked for, with the part of the present
period that had passed already. `Countdown` is what callers are promised; it knows
neither queue nor clock.

### Device management: `Device`

What stands between `LockDM` and `UnlockDM` is one step. The functions of a driver are
called unlocked; a task is then at `"openfn"`, `"execfn"`, `"waitfn"`, `"drainfn"`,
`"closefn"` or `"eventfn"` until the driver returns, with any result. `reg` is the holder
of REG, which registration takes and `do_suspend` keeps from the first pass to the last.
Requests, descriptors and devices are the control blocks of three tables with their
queues of free and used ones. `Mixed` says whether a task may wait for any request of a
descriptor while another starts one on it (section 6).

### Locks: `FastLock`, `FastMLock`, `MutualExclusion`

Each access to the shared count or word of bits is a step, and so is each call of the
semaphore or the event flag behind it. In `FastMLock` the wait may end by a time-out or
a release. `MutualExclusion` is the abstract lock.

### The serial driver: `SerialDriver`

One ring buffer for each direction, a task in `write_data`, one in `read_data`, and the
interrupt handler; a part that runs with the interrupt disabled is a step. `owed` is the
bytes that were taken in and not yet given out. The tasks may have wake-ups left from
elsewhere, and leave their ID in the buffer when they time out. The line may still be
busy with a byte from before the device was closed.

## 3. Runs

| run | module, cfg | what it checks | instance |
|---|---|---|---|
| `road` | STGTrips | `TypeOK`, `OrdersFollowBookings` | the real road, 2 vehicles, 2 trips each, 3 ticks, one of them in a reservation |
| `junction` | Junction | `NodesOnce`, `WayTakesNothing`, `IsCalendar`, `ReservationEnds` | 6 cells, 3 vehicles, 2 trips each, 2 ticks, buffer of 20 s |
| `list` | OrderList | `Whole`, `IsQueue` | 4 elements, 5 orders in all, replies of 1 and 2 orders, the handler between any two accesses |
| `cav` | MC_Cav | `TypeOK`, `OneRequest`, `DropsWhatItFollowed`, `WaitsForSomething`, `TripsChain`, `Supplied`, `ServerListens` | one car, 3 trips, losses, untimely answers |
| `iic` | MC_IIC | `OnStack`, `DoneUnlessFailed`, `TransferEnds` | two channels, 3 transfers, failures and time-outs |
| `kernel_mutex` | MC_Kernel_mutex | `TypeOK`, `QueuesAgree`, `MutexesHeld`, `Inherits` | 3 tasks, 2 mutexes of any protocol |
| `kernel_objects` | MC_Kernel_objects | `QueuesAgree`, `RunsReady`, `NobodyWaitsInVain`, `RingsAreWhole` | 3 tasks, one of them suspended, once (for more all but `NobodyWaitsInVain` are proved), one semaphore, event flag, mailbox or message buffer |
| `kernel_pools` | MC_Kernel_pools | `LocksHeld`, `NobodyWaitsInVain`, `BlocksAccounted` | 3 tasks, one pool of either kind, 5 units of memory |
| `kernel_memory` | MC_Kernel_memory | `MemoryOwned` | 2 tasks, up to 3 variable-size pools, 11 units of memory |
| `kernel_terminated` | MC_Kernel_terminated | `QueuedWait` is violated | 3 tasks, 2 mutexes locked in any order |
| `timer` | KernelTimer | `TypeOK`, `QueueHoldsSet`, `LeftTold`, `IsCountdown`, `NothingLeftBehind` | one cyclic handler, one alarm, one time-out, a clock of 10 values, a period of 2 |
| `device` | MC_Device | `RequestsHeld`, `NothingLeftInDriver`, `CloseIsWoken`, `SuspendTogether` | 3 tasks, 2 devices, 2 descriptors, 2 requests |

**Bounds, and why they are enough.** *Grid:* interference needs two vehicles whose
ways cross; with two trips each a vehicle also meets its own old bookings. On the
junction a third vehicle meets two at once, targets lie on the way, and the buffer is
so short (20 s, hardly longer than the bookings reach) that slots are used again:
without the freeing of slots `IsCalendar` fails there. On the
real road the buffer is 50 s instead of 1000 s, longer than any booking reaches ahead.
One tick in a reservation is what a search that takes less than a second meets; a
second tick falls between reservations. *List:* the handler can meet lists of 0, 1 and
more elements at every access of both operations, and replies that repeat the last order or
not; four elements let a list lose its last one, and be filled again from elements that were
freed, while five orders are under way or left behind. *Cars:* three trips see
the answer to the first request, made while asleep, and to later ones, made while
driving; as many tasks as requests fit, so that their exhaustion (section 6) does not
hide the rest. The bound on IDs never takes the last one away, for a car that gets
none would stop the run, not the system. *Bus:* a second transfer on a channel meets
what the first one left. *Kernel:* three tasks make a queue of two behind an owner, and
chains of inheritance over two mutexes; three priorities separate the
lender, the borrower and one in between. One object at a time suffices where objects
do not interact, which only mutexes do. Mutexes are not polled for: a lock that does
not wait and fails changes nothing. `MaxTurns` is how often the routines that pass
priorities on are called at most: each time a task's priority comes nearer to what it
inherits. *Pools:* with one pool, a second task waits for
its lock while a third waits for a block, and both kinds share the memory with pools
that are being made; blocks of two sizes in a pool of five units leave a rest that is, and
one that is not, large enough to be an area. *Memory:* 11 units hold pools of 2 units or of
what is left, up to three at a time, and these hold blocks of 2 and 3 units, with a header
each. In this run system memory, and a pool, has two free areas of one size and free areas
of two sizes at a time, at least four areas, areas that are found in the middle of the queue
and merged with the neighbours on both sides; two tasks suffice, for each call is here
about its areas, and who comes between its steps is what `kernel_pools` is about. *Timer:*
times of 1 and 3 are less and more than the period of 2, so that cycles end within and across interrupts; a clock of ten
values is the smallest in which the half that is past holds two of them. Every order of
two events and a third put before, between or behind them occurs, at every position of
the wrap-around. *Devices:* one task administers, two use; with two requests one is in
the driver while another waits, and a block is used again by another call.
Tasks other than the initial one are interchangeable, so symmetry in them is sound; no
temporal property is checked there.

**`Rare`.** `Cav` and `IIC` take a set of events a run lets happen, so that one
disagreement does not bury everything else. In `Cav`: `"untimely"` an answer that comes
while the car is turning its radio round or after its listening period; `"late"` an
answer so late that the list of orders has run empty; `"masked"` a packet received while
the interrupt is masked between two repetitions. In `IIC`: `"nack"`, `"timeout"`, and
`"preempted"`, the handler held up by one of higher priority. The passing runs exclude
`late`, `masked` and `preempted`, as assumptions on the environment; what happens without
them is in section 6.

**Deadlock** is checked for the timer and for the kernel's objects and pools. The grid, the
list, the cars and the bus stop where their bounds (trips, seconds, orders, transfers) or a Hard
Fault of the server stop them; device management stops after the shut-down. The tasks of
`kernel_mutex` may all delete themselves, and those of `kernel_terminated` may all wait for
one another.

**Fairness.** `STG`: weak fairness of the radio handler's steps once it has begun, for
an interrupt handler runs to its end; none for ticks. `Cav`: weak fairness of what the
software and the peripheral do by themselves; strong fairness of `CarHeard` and
`Answered`, packets that are sent again and again get through and are answered in
time, which is what a retry is for; no car is assumed to be heard at once. `IIC`: weak
fairness of the handler, the peripheral and the task that was woken, none of the
time-out, for `TransferEnds` says it is not needed. `KernelTimer`: weak fairness of
`knl_timer_handler`, for the timer interrupt comes again and again and handlers return.

Every property of a passing run has a mutant: a definition with a plausible bug
(`check_grid_short`, `End_kept`, `Wake_all`, `sem_rel_wai_none`, ...), kept beside the
definition it would replace, for which TLC finds the property violated.

## 4. Abstract specifications

- `Calendar` is implemented by `STG` (run `junction`, `IsCalendar`; proved,
  `ShowsNoOtherSecond`).
- `OrderQueue` is implemented by `OrderList` (run `list`, `IsQueue`; proved,
  `ListIsQueue`): a list operation takes effect when it writes the head.
- `Countdown` is implemented by `KernelTimer` (run `timer`, `IsCountdown`): what is left of
  the time asked for is the history variable `due`; the clock, its wrap-around and the
  queue do not show. This is proved as well (`CountsDown`).
- `MutualExclusion` is implemented by `FastLock` and by each lock of `FastMLock`; this is
  proved (`LockExcludes`, `LocksExclude`).

## 5. Proofs

Each theorem holds for every value of the constants that meets the named assumptions of
its module. Some say in their statement what they need besides: `ShowsNoOtherSecond`
(`WayInSight`), `SucceedsOnlyWhenDone` (`AllProper`, nothing holds the handler up), those
of `DeviceProof` (`~ Mixed`, `CleanupAlone`), of `CavProof` (`RoutesFit`, `OneCar`)
and of `KernelProof` (`InOneOrder`, `NullIsNoCall`, and
`NullIsNoWord` for `RingsStayWhole`). Each such hypothesis is explained below; where the code
does not meet it, section 6 says what happens.

**`STGProof`** (for every road, set of vehicles, buffer length, set of delays and number of
ticks):

- `TypeCorrect == Spec => []TypeOK`;
- `WayIsFree == Spec => WayTakesNothing`: only the booking of a target takes a second
  from another vehicle.

The second is not inductive. A booking writes, many steps of the search later, what
`check_grid` found free when a neighbour was looked at. The invariant

    IInv == TypeOK /\ Control /\ NodesLinked /\ MovesChecked /\ PathLinked

carries the check from there to the write: each neighbour still to be looked at has
been checked from its parent's second on (`MovesChecked`); each node of the two lists
other than the start has a parent in the closed list and the parent's cell is still
free, or the vehicle's own, from the parent's second to the node's (`NodesLinked`);
the path is linked by parents (`PathLinked`). The steps keep it for three reasons: a
tick only frees slots, a booking of the same vehicle only writes that vehicle
(`ChecksKept`), and a node that has entered the closed list is never changed, so
replacing a node of the open list changes nobody's parent. No length of the buffer is
assumed: the check of a cell and the write of it go through the same slots.

- `SearchFits == Spec => []NodesOnce`: the arrays of the search suffice. To `IInv` it adds
  `Separate`, that no cell is twice in a list or in both; a list of different cells is then
  no longer than the road (`DistinctFits`, by the cardinality of an injection), and
  `SizeAssumption` says that the arrays are as long as that.

- `ShowsNoOtherSecond`, the refinement of `Calendar`. A slot stands for
  the one second in sight that falls on it, so a booking must be neither past nor a buffer
  length ahead when it is written. The hypothesis `WayInSight` says that no delay is smaller
  than the number of ticks a search may take, and that the longest delay and the longest way
  (a turn and a move for each entry of the arrays, and the stay at the target) are together
  shorter than the buffer. In the code a delay is a byte, a way has at most 25 cells, and the
  buffer has 1000 s, so that only a delay of 0 breaks it (section 6). The run `junction` has a
  buffer with less room than the hypothesis asks for, as the ways of six cells are shorter
  than the bound. The invariant adds two facts to `NodesInv`: the departure is ahead of the
  clock by no less than the ticks to come (`Punctual`), and a node is reached within one move
  for each closed cell (`Reached`), which is also why the way needs no bound of its own. The
  rest is arithmetic: two different seconds in sight never share a slot, and a tick takes
  exactly the slot of the second that has ended (`LessApart`, `TurnSame`).

**`CavProof`**. For any number of cars:

- `TypeCorrect`: what matters is that packets, overwritten in place again and again, keep
  their length. `RoutesFit` says that a route has no more orders than a packet bytes.
- `RequestsOneByOne == ... Spec => []OneRequest`, if no list runs empty on the road (`"late"`
  not in `Rare`). The invariant `Single` says that no transfer task is alive but the one in
  `transfer_task_id`, and that while it is, the car remembers the request and the list is not
  longer than it was, or the car has not set out and has no list.

For one car, as in the demonstration, with any number of trips: `FollowedOrderDropped`,
`RequestUnderWay`, `TripsInOrder` and `RepliesMatch`. `OneCar` collects what they assume: no
list runs empty and no packet is received while the interrupt is masked (section 6 says what
happens then); there are tasks for all requests; and the routes suit (`RoutesSuit`), which
the run `cav` checks of those of the real road: they fit the packet, have seven orders or
more, and orders merge neither twice at one place nor where one route follows another,
so that each answer makes the list longer by four at least. One invariant, `CavInv`,
serves all four:

- `LinkInv` follows one request through the packets of both sides. A car that waits for an ID
  knows nothing but what it is given (`Waiting`). On the road (`OnRoad`) the car's packet is
  its request until the answer replaces it; what the server has received is that request;
  what it sends is an answer to it; and when nothing is under way the server knows the trip
  of the car (`Reserved`), else that one or the one before (`Follows`). Behind the orders of
  an answer there may be the end of an earlier one, and then zeros (`Clean`, `Rest`, `Reply`);
  `EventsInOrder` says which event the radio's state goes with.
- `ListInv` ties the list to the drive task: the order being followed is the first of two
  or more when it is dropped, the last one ends a route, and once an answer has come the
  list is longer than `d_last_request_list_count` by what may still be dropped before
  `start_drive` looks.

What the handler appends is computed by a loop. `AppendedGrows`, `AppendedKeeps` and
`DelayType` prove what these loops compute for every list, by induction over a set of
numbers (`Induction`, from the least-number principle), which the provers can instantiate.

**`DriverProof`**, of the bus: `HandlerStaysOnStack == Spec => []OnStack`, with any of the rare events,
`"preempted"` included. The invariant says of each channel that interrupts are enabled
only during a call, and that what the handler would start with is then a command
(`Ready`); that, until it gives up, the handler's `cmd` is the command at `cmddat` or the
`restart_rd` behind which it has gone on (`Running`); and where received bytes went
(`Stored`). It needs that lists have at least three commands, which `iic_transfer` checks.

`SucceedsOnlyWhenDone == ... Spec => []DoneUnlessFailed` needs an invariant of the whole
course of a transfer (`Clean`). An undisturbed one is at one of eight stages (`Sending`,
`Sent`, `Receiving`, ..., `Stopped`): each says which command is next, what the peripheral
does or what it has done that the handler has not seen, what its shortcut will make of the
next byte (`Follows`), and which tests the running handler has behind it, so that it can
neither miss the event nor take it for another. Bytes are stored for exactly the commands
behind `cmddat` (`Collected`). One that has failed leaves a trace (`Disturbed`), by which
`iic_transfer` knows it or will know it when it ends. The hypotheses: lists are as
`iic_write` and `iic_read` make them, of any length (`Proper`), and no other handler holds
this one up for the time of a byte; with `"preempted"` the property is false.

**`KernelTimerProof`** (any handlers and waiting tasks, any width of the clock, any period):
`TypeCorrect`, `QueueIsSet`, `TellsWhatIsLeft` and `CountsDown == Spec => IsCountdown`. That
the queue holds what is set is inductive with its type; the work is in the queue's
operations: `knl_enqueue_tmeb` puts an event that is not in the queue in once, wherever it
looks (`InsertHolds`, `EnqueueHolds`), and `knl_timer_delete` takes one out and no other. The
other two need to know that times compared on a clock that wraps around are in their true
order. `Ahead(clock, tm)` is the distance the kernel's comparison takes the time of an event
to be ahead of the clock; the invariant says that it is what is left of the time asked for
(`KeepsTime`: by up to a period more than `due`, and behind only while the handler is at
work, by less than a period) and that the queue is sorted by it (`Ordered`), so that when the
timer's handler meets an event that is not due, none behind it is. The assumption that
`TIMER_PERIOD` and the longest time fit into half the clock is what makes `Ahead` exact
(`AheadIs`, `AheadOfPlus`, `AheadTicks`); the code does not check it (section 6).

**`DeviceProof`** (any numbers of tasks, devices, descriptors and requests):

- `SuspendsTogether == Spec => []SuspendTogether`, by `Together`: the task that has REG has
  told exactly the devices its pass has gone through;
- `HoldsItsRequests`, `LeavesNothingInDriver`, `WakesWhoCloses`, and `HoldBeforeShutdown` for
  the three as long as the device manager is not shut down.

The second group is by one invariant, `IInv`: a request is in the queue of one descriptor
or free (`Places`); it bears the name of the task that is in the driver with it and of
nobody else (`Held`, `Owned`); a task that waits for any request of a descriptor is alone in
the driver with it (`Alone`); a descriptor is in the hands of those that open it, use it
or close it, in that order (`Fine`). `abort_allrequest` counts requests and each task that
leaves counts itself down, so that the count is right needs a bijection between the
requests in the queue and the tasks in the driver. Two hypotheses: `~ Mixed`, no task waits
for any request of a descriptor while another uses it, without which the code is wrong
(section 6); and `CleanupAlone`, that the task that shuts down is the only one that still
closes. `knl_devmgr_cleanup` takes the head of the queue of open descriptors whoever has
it (deviceio.c:1164); it is the first thing `knl_finish_devmgr` does, which ends the device
manager and in this program is only called where its start has failed (device.c:694), so
that nobody meets it here. `HoldBeforeShutdown` does without it, `SuspendsTogether` without
both. `DeviceAssumption` says that the tables are finite.

**`OrderListProof`** (any number of elements, of orders and any length of a reply, the handler
between any two accesses of the drive task): `ListIsWhole` and `ListIsQueue`, the refinement of
`OrderQueue`. Both promise nothing after the handler has come where the list is exposed
(`raced`), which is where the code breaks its list (section 6). The inductive invariant says
that there is a sequence of elements, all different, each linked to the next and with an order
block of its own (`Linked`, `Owns`), and for every place of the drive task how head, tail,
length and the allocated elements differ from those of this sequence (`HeapIs`, `TailIs`,
`LengthIs`, `TaskIs`): an element may be linked that is not counted yet, or allocated that is no
longer linked. The handler does not know where the task is, so what it does is proved for any
such difference (`Represents`, with the elements that are aside and the number that is ahead of
the count), and `HandlerFinds` says that outside `Exposed` it meets one of these. Two things are
recursive: the walk from the head, and the fold over the orders of a reply. The induction
theorems of the library take an operator, which no prover here can instantiate; but that the
numbers are well-founded is a theorem about sets
(`NatLessThanWellFounded`, `WFMin`), from which `LeastNumber` and `InductionTo` follow, and
with these `ElementsAre` (the walk meets the sequence) and `ReplyStep` (a reply is folded
into the list as into the queue).

**`KernelProof`**, with `KernelInvariant` and `KernelQueueProof` (any finite set of tasks, any
objects, whatever may be called):

- `QueuesHoldWhoWaits == Spec => []QueuesAgree`: the ready queue and the queues of the
  objects hold who should be in them, each once and by priority;
- `FirstRuns == Spec => []RunsReady`: who should run is the first of the ready tasks or
  has an object's lock, and who runs is ready;
- `OwnersHoldMutexes == Spec => []MutexesHeld`: a mutex is in the list of its owner, once,
  and in no other; the owner is alive, and nobody waits for a free mutex;
- `RingsStayWhole == Spec => []RingsAreWhole`: from head to tail the ring of a message buffer
  holds whole messages and no other word;
- `OneHoldsTheLock == Spec => []LocksHeld`: a pool's lock is held by one task, in a call on
  that pool, or is free with nobody waiting for it;
- `BlocksStayAccounted == Spec => []BlocksAccounted`: each block of a fixed-size pool is lent,
  in the free list or not used yet, once, and the count tells how many are free.

All six come from one invariant, `IInv`, for they need each other: which queue a task is in
depends on its wait, which priorities are in order on who owns what, and who may run on who
holds a lock. A call takes things apart before it puts them together, so the invariant is a
predicate of the kernel's state with three sets of what is on its way (`Good(k, X, Z, Y)`):
tasks that have left their queue, tasks whose mutexes are being passed on, and mutexes that
have left their list. Each routine of `wait.c`, `ready_queue.h`, `mutex.c` and of the objects'
wake-up loops has a lemma that says what it does to these sets (`KernelQueueProof`); a call
begins and ends with the sets empty (`Kept`), and each action of `Next` is a call or a part of
one between two locks (`KernelProof`). Loops over a queue are recursive functions, which the
provers only know by their equation: that a loop has its turns (`Turns`) follows by
induction over a set of numbers, and what holds after each turn is the lemma of the loop.

Of a ring the invariant says the same with words counted from the head (`WholeRing`): each
one before the tail either is the header of a message whose words follow it, all before the
tail, or is the next word of the message that the word before it belongs to; the others are
empty. `WholeIsWhole` gets `RingIsWhole` from it; `MessageIn` and `MessageOut` say that
`knl_msg_to_mbf` and `knl_mbf_to_msg`, which compute places from offsets and from what is left
up to the end, store and take the words one after the other, and keep it. A sender that waits brings its message
from its wait (`winfo`), which is therefore part of the invariant too (`Wanted`): it is stored
by another task's call, or in `tk_ter_tsk`, when the place for it becomes free.

Of a fixed-size pool the invariant says which blocks below `unused` are in the free list, each
once, and that the others are lent (`BlocksGood`), and what a call knows of them while it is
held up between two critical sections: one that is about to take a block has the one that is
next (`CallGood`, at "get"), for nobody else changes the list while it holds the lock; one that
brings a block back has a block that is lent, which no other call brings back, of a pool that no
call deletes (`GivesGood`). The last is where the callers' rule `GivenBack` is needed.
`RestockGood` says that the calls of others survive a change of the blocks, `GetFine`,
`PutFine` and `DeletedOnto` that each change is one of these.

`InOneOrder` says that no two mutexes have the same rank: tasks lock them in one order. It is
needed: in a ring of tasks that wait for each other's mutexes one that is terminated is put
into a queue again (run `kernel_terminated`). The chain of owners through which a priority is
handed on then goes up in rank, and the task that is on its way is not met again (`Above`,
`RankGood`). `NullIsNoCall` says that the model value that stands for no call is none of the
records that stand for one, `NullIsNoWord` that it is no word of a message; TLC takes both for
granted. `KernelAssumption` wants the ring to have a size: that of the largest message, which
is not negative (messagebuf.c:157), and of its header. A buffer of size 0, a mere meeting
point, has no ring and is not created.

**`DriverProof`**, of the locks (any sets of tasks and locks). The fast lock: `LockExcludes`, the
refinement of `MutualExclusion`; `FastForgetsNobody`, `LosesNoSignal`. The count is the number
of tasks inside, less one, and as long as anybody is inside there is exactly one token: a
task in the lock, one about to signal, or the count of the semaphore (`OneToken`).

The multi-lock: `LocksExclude`, the refinement for each lock, and `LocksForgetNobody`. A bit is set if and only if its lock has a holder, who is the
only one; the count is that of the tasks that want a lock.

**`DriverProof`**, of the serial driver (any bytes and speeds, any buffer of at least one entry): `BuffersHold`,
`BytesInOrder`, `TransmitterNeverStalls`, `SleepersAreWoken`, `LossesAreTold`. The ring is
described by where its *i*-th byte is (`Slot`, `Places`); `Session` says that TXD is taken to
be free only if the buffer is empty, and else the event that will free it has come or a
byte is on the line.

Only model-checked: that orders say what is booked (which is about the turns of `RoadMap`); of
`Kernel` the types (`TypeOK`, whose bounds on counters rest on `Sum`, a
fold over the tasks that the provers cannot follow), inherited priorities (what a
chain of any length hands on), the areas of memory (lists of neighbours that are split and
merged), and that nobody waits in vain; and all
liveness, which is out of the prover's reach. `FastLock`, `FastMLock` and `SerialDriver` have
no run: what they promise is proved for all instances.

## 6. Where the code and its documentation disagree

With a run that shows it:

- **`kernel_terminated`** `tk_ter_tsk` of a task in a ring of mutex waits puts it back
  into the queue it has left (mutex.c:356, task_manage.c:271); the next unlock hands the
  mutex to a dormant task.

Observed while modelling. Where a constant or a property is named, changing it in the
configuration shows the case:

- An append while an element is put into an empty list or the last one is taken out loses an
  element or the tail, or writes through a null tail; one between the load and the store of
  `length` is not counted (list.c:35; list.h:36 says 'put the element at the end of the
  list'; `Whole` without `~ raced`).
- Every order that has been followed stays allocated: `list_shift` frees its element, and
  `start_drive` drops the order it returns (client.c:133, drive.c:248, drive.c:270).
- The booking of a target and of the two seconds after looks at nothing, and takes seconds that
  another vehicle has booked there (STG.c:410; `WayTakesNothing` without its exception fails in
  `Junction.cfg`, and on the road with `Delays` 1, 7 and 27 in `STGTrips.cfg`; docs/document.md:3
  says that vehicles are kept from interfering, :298 reports collisions).
- A search that finds no free way runs off the end of `find_path` without a result, and
  `stg_reserve` follows a pointer that nobody set (STG.c:364; `pc = "fault"` occurs in
  `Junction.cfg`; `ReservationEnds` takes that for an end).
- With an empty list `start_drive` spins at priority 1, and the transfer task (2) never
  sends the request again (drive.c:256, docs/document.md:70; `"late"` among `Rare`:
  `Supplied`).
- A car takes another car's ID request on address 0 for its orders (client.c:117,
  docs/document.md:56; two cars in `Car` and `Requester`: `DropsWhatItFollowed`,
  `WaitsForSomething`, `TripsChain`).
- A booking with delay 0, interrupted by the timer, writes a second that is past, which
  shows as one a buffer length later (`Delays` with 0 in `Junction.cfg`: `IsCalendar`).
- A waiting neighbour is always in the closed list: no vehicle is told to wait
  (STG.c:175, 263; docs/document.md:57 lists stopping among the orders).
- `stg_get_delay_until_departure` returns a second in which the entry is taken
  (STG.c:455).
- A car that finds its list empty just before an answer drops the first order of it
  (`"late"` in `MC_Cav.cfg`: `DropsWhatItFollowed`, `OneRequest`; drive.c:265).
- An answer received while the interrupt is masked is sent out as the next request
  (`"masked"`: `TripsChain`; client.c:218).
- Bytes behind the orders of an answer are those of the request, which may be the end of
  the last answer (STG.c:409; docs/document.md:83 says they are 0).
- Two cars asking at the same time get the same ID (client.c:75; docs/document.md:78).
- IDs count past the seven addresses (server.c:70; docs/document.md:56); transfer tasks
  are never deleted, so after some thirty requests none can be created (client.c:253).
- `iic_read` returns 0 with E_OK if the handler is held up for the time of a byte after
  starting a reception (`"preempted"` in `MC_IIC.cfg`: `DoneUnlessFailed`; iic.c:114).
- `msdi_execfn` calls `Unlock` where it should call `Lock` (msdrvif.c:83; the comment at
  msdrvif.c:146 says 'Create the lock for exclusive access control'). The count of the fast
  lock, which `DriverProof` needs to be the number of tasks inside less one, falls with
  each request, and nothing keeps two writers of a serial line apart (ser.c:252).
- A wait for any request of a descriptor while another task starts one: `abort_cnt` is 1
  for all of them (deviceio.c:348), so a task that closes goes on while others are in the
  driver (`Mixed = TRUE` in `MC_Device.cfg`: `NothingLeftInDriver`, `CloseIsWoken`,
  `RequestsHeld`; the comment at deviceio.c:388 says 'Wait for completion of abort request
  processing').
- `openfn` and `closefn` run unlocked, so the first task to open a device may still be in
  `openfn` when a second, for which it is not called, is given its descriptor
  (deviceio.c:272-293); and between the look at the count of suspend prohibitions and the
  suspension another task may prohibit it (deviceio.c:1095, 1129).
- `tk_srea_dev` waits with the numbers of descriptor and request it was given
  (deviceio.c:704); if both blocks are freed and used again in between, it waits for
  another's request.
- Times of more than 2^31 - 1 - `TIMER_PERIOD` ms, which `tk_sta_alm` and others accept,
  count as past when the period is added (timer.c:107; `KernelTimerAssumption` leaves them
  out).
- While a task holds the lock of a pool, one of a higher priority that takes the lock of
  another pool replaces it as `klocktsk`, though klock.c takes the task with a lock to be
  the one that runs (klock.c:40, ready_queue.h:37).
- A task that is terminated between `knl_Imalloc` and the control block, or between the
  end of a pool and `knl_Ifree`, takes the memory with it (mempfix.c, mempool.c). The model
  does the same; `MemoryOwned` is about the memory of pools and says nothing of such a leak.
- A task that gives a block back while the pool is deleted and its control block used for
  another gives it to the other (mempfix.c; excluded by `GivenBack`).
- `tk_rel_mpl` accepts the address behind the end of a pool (mempool.c:564).
- In the serial driver a speed that is refused is told from then on (ser.c:168), and the
  number of bytes that can be written counts one that cannot (ser.c:288).
- `tk_del_mtx` in a ring of mutex waits leaves a raised priority behind (mutex.c:329);
  `Inherits` is therefore checked with tasks that lock in one order (`Rank`).

## 7. Not modelled, and why

PROJECT.json lists every component. Left out for good:

- what turns sensor values into motor speeds, drawing, buttons, formatting and polled
  output, hardware set-up, exception entry, vectors, generated files: no state of several
  actors, or state that only measurement could relate to a property;
- rendezvous, which is compiled out (src/config/config.h:76), and the reference and
  debugging calls, which change nothing;
- the time of day, an offset that two calls replace; `knl_Icalloc` and `knl_Irealloc`;
- the drivers for analogue input and IIC of the kernel's distribution, which no program
  here uses, and the ports to other processors;
- the tester, a script that presses a button on several boards.

Abstracted: `malloc` of the applications never fails; the CRC is taken to reject damaged
packets (the code does not look at it: damage is loss here); the functions of a device
driver return, and call nothing of the device manager; users of the serial driver are
kept apart.

Not composed: the radio protocol (`Cav`) books trips without seconds, and the grid
(`STG`) takes every vehicle to start when it said. A property of both, that a vehicle
holds what it drives through, needs bounds on how late a request may be, which the code
does not have: a request is repeated with an old delay as often as it takes (section 6).
