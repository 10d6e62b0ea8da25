# Verification of c-link (CC-Link IE Field Basic)

c-link is a protocol stack for CC-Link IE Field Basic.  A *master* sends, per
group of slaves and per *link scan*, one broadcast UDP request with the output
data of every slave; each *slave* answers with its input data.  A second, slower
protocol (SLMP) lets a master search for slaves and give a slave a new IP
address.  This directory holds TLA+ models of both ends, the TLC configurations
that check them, and TLAPS proofs.

The stack is single-threaded: an application calls `clm_handle_periodic()` or
`cls_handle_periodic()` for ever, and a handful of API functions in between.
Nothing blocks.  What is hard about it is not threads but the orders in which
frames, expiring timers and application calls meet two nested state machines on
each side, over a network that loses, delays, duplicates and reorders.

## 1. Inventory

| Component | State | Operations | What makes it correct |
|---|---|---|---|
| cyclic slave (`cls_iefb.c`, `cls_api.c`, `cls_slave.c`) | `slave_state`, controlling master, receive and disabling timers, output data, last reported master state | periodic handler, stop and restart of cyclic data, application status, RX/RWr writes, exit and init | no master steals the slave; a silent master is left; data only from the controlling master after the handshake; callbacks agree with the state |
| cyclic master (`clm_iefb.c`, `clm_master.c`, `clm_api.c`) | `master_state`, arbitration timer, per group state, sequence number, two timers; per device state, timeout count, latest frame, its part of the request | periodic handler, stop/restart/force of a device, RY/RWw writes, application status, init | arbitration before any request; all groups share one fate; scans neither stall nor run ahead; devices follow the scan; input of the present scan only; requests up to date |
| cyclic frames (`cl_iefb.c`) | none | build, parse, validate | conversions |
| timer (`cl_timer.c`) | state, period, time stamp modulo 2^32 | start, restart, stop, is expired | every expiry is seen, across wraps |
| SLMP master (`clm_slmp.c`) | serial numbers, two pending requests with timers, node search database | node search, set IP, periodic handler | what the application is told is true; every request ends |
| SLMP slave (`cls_slmp.c`) | IP address, one pending answer with its delay | periodic handler | answers and carries out what it was asked, once and only if addressed |
| SLMP frames (`cl_slmp.c`, `cl_slmp_udp.c`) | none | build, parse, validate, send | conversions |
| process data areas (`clm_iefb.c`, `cls_iefb.c`, `cl_iefb.c`) | bits and registers in the master's memory, in the frames, in the slave | set, get, copy | what is written for a device arrives at that device, at that number, and nowhere else |
| configuration validation (`clm_master.c`, `cls_slave.c`) | none | validate | range checks |
| statistics (`clm_iefb.c`) | response times, counters | update, clear | exact; read by the application only |
| log and error limiter (`cl_limiter.c`) | a timer, the latest message | may this be reported now?, periodic | only repetitions are dropped; a lasting error does not flood the application |
| persistent file (`cl_file.c`) | `parameter_no` on disk | load, save, save if modified, clear | a restarted master uses a new number |
| utilities, literals, Ethernet, OS ports, sample applications, tests | - | - | not modelled |

**Interactions.**  `clm_handle_periodic()` runs the SLMP and the cyclic half with
one reading of the clock; the cyclic half checks the arbitration timer, then the
group timers, then reads frames until the socket is empty.  `cls_handle_periodic()`
runs SLMP first (it may change the IP address), then handles at most one cyclic
frame, then the timers.  In the master one event runs through up to three state
machines: the master's, each group's (all groups for arbitration events), each
device's; the handlers return follow-up events.  The application learns of all
this only through callbacks, called from inside the handlers.

**Hard behaviours**, each a hazard in `PROJECT.json` with the properties that
watch it: late and duplicated responses; a timeout racing the last response; a
stop of a device in the middle of a scan; buffers patched from several handlers;
several groups behind one arbitration; two timers per group under constant link
scan; a foreign master during arbitration; a slave that restarts while its bit is
on; suppressed callbacks; wrapping clocks, sequence and serial numbers; one
pending SLMP answer for several masters; commands that fail half way; a master
that is restarted, with another configuration, before its slaves have left the
earlier session; two masters that miss each other during arbitration.

## 2. Modules

| Module | What it is |
|---|---|
| `ClTimer` | timers as elapsed time; used by all modules of the stack |
| `ClTimerUse` | abstract specification of a polled timer |
| `ClTimerWrap` | the timer with time stamps that wrap, and its refinement of `ClTimerUse` |
| `ClsReceiveTimer` | the slave's receive timer on the wrapping clock (extends `ClTimerWrap`) |
| `ClLimiter`, `ClLimiterProofs` | the error limiter on the wrapping clock (extends `ClTimerWrap`); the refinement of the timer and the limiter proved |
| `ClIefb` | fields of the cyclic request, the walk over its slave ids, and the computations both ends share |
| `ClIefbProofs` | what the walk returns for every list of ids, and how devices lie behind each other |
| `ClsIefb` | the slave's state machine as operators on the record `cls` |
| `ClsSlave` | specification of one slave against arbitrary masters, and its properties |
| `ClsSlaveProofs` | proofs about `ClsSlave`: types, timers, callbacks, the controlling master; then data, handshake, the time a silent master keeps control |
| `ClmIefb` | the master's three state machines as operators on the record `clm` |
| `ClmMaster` | specification of one master against an arbitrary network, and its properties |
| `ClmMasterProofs` | proofs about `ClmMaster` |
| `ClAreas` | bits and registers by number, the slave's access to them, copies |
| `ClmAreas` | the master's access to process data and their way through a request and a response, stated of the requests `ClmMaster` sends |
| `ClmAreasProofs` | proofs about `ClAreas` and `ClmAreas` (extends `ClmMasterProofs` and `ClIefbProofs`) |
| `ClFile` | the parameter file: header, load, save that may fail or be cut short |
| `Cciefb` | composition: masters (`ClmIefb` by `INSTANCE`, one per address and configuration), their files (`ClFile`) and a slave (`ClsIefb`) on one network |
| `CciefbProofs` | proofs about `Cciefb` |
| `ClmStatistics` | the response time statistics of a device, and their proof |
| `ClSlmp` | the SLMP frames both sides prepare and parse |
| `ClmSlmp`, `ClsSlmp` | SLMP in the master and in the slave, as operators on records |
| `Slmp` | masters and slaves that exchange SLMP messages over a network |
| `SlmpProofs` | proofs about `Slmp` |
| `MCClsSlave`, `MCClmMaster`, `MCCciefb`, `MCSlmp` | instances for TLC |

Handlers keep their names of the C code.  A struct is a record, a handler an
operator from the record before to the record after; a chain of events (a handler
returning the next event) is a composition of operators, so each call from outside
(a periodic call with the frame it reads, an API call) is **one** action, with
everything the call changes.  What leaves the stack during a call (frames,
callbacks) is kept in fields that are cleared when the next call begins.  Time
advances where the periodic handler reads the clock, by up to `MaxDelay`.

`ClsIefb`.  `cls` holds `slave_state` (`MASTER_NONE`, `MASTER_CONTROL`,
`WAIT_DISABLING_SLAVE`, `SLAVE_DISABLED`), the master (id, parameter number,
group, station, timeouts), the timers, RY/RWw, and the memory of the latest
callback.  The actions of `ClsSlave` are the periodic handler with a frame, the
periodic handler without (`TimePasses`), stop and restart of the cyclic data, the
application's writes, a change of the slave's address, a power cycle.  Masters are
unconstrained: any request of the set `Requests` may arrive at any time, so loss,
duplication, reordering and any number of rival masters are included.

`ClmIefb`.  `clm` holds `master_state`, the arbitration timer, the groups (state,
sequence number, response and constant link scan timers, devices), and each
device its state, enable flag, transmission bit, timeout count, latest sequence
number, RX and RY, and its part of the request.  `ClmMaster` lets any frame of the
set `Frames` arrive at any time, including requests of other masters, of which the
code looks at the header only: one with anything behind it counts.

`Cciefb`.  Here both ends are the code, and only the network is arbitrary: `net`
holds for every receiver the frame each sender sent last, for at most one unit of
time, to be received late, twice or never; requests also reach the other masters.
A master may be started at any time with any configuration of `Configs`, and then
reads, increases and saves its `parameter_no` (`ClFile`); the slave may be
restarted, stopped and re-enabled.  The application's outputs name the session
that wrote them.  `calm`, once true, ends the faults: frames then arrive, once, in
time.  `Tick` advances the clock for all and runs every periodic handler without a
frame.

`ClmAreas`.  A state of `ClmMaster` has the requests that were sent in it; the
invariants write bits and registers at the borders of bytes, areas and devices into
an empty memory, put it through the request as it was sent (ids, marks and transmission
bits) and the slave's walk over the ids, and compare what every slave reads.

`ClLimiter`.  An error may be offered between any two periodic calls; the limiter's
timer is asked with the same reading of the clock as the timer of `ClTimerWrap`.

`ClTimerWrap` replaces the elapsed time by what the code computes it from.  Its
`PeriodsFit` (a period plus the longest time between two polls is at most half the
clock's range) is exactly what justifies `ClTimer` elsewhere.

`Slmp`.  A frame that was sent stays in `net` and may be received by any node at
any time, any number of times or never: loss, delay, reordering and duplication.
A request's timers run on each node's own clock.  In the instances slave "b" is
only offered the address it has, so a command that reached the wrong slave would
give two slaves one address.  A search or
command while one of its kind is in progress is refused by the code without any
change of state, so it is no step here.

Fault variants: an operator no other definition uses is a plausible mistake in
the operator that follows it; each property was checked to fail under one of them
(`mutants` in `PROJECT.json`).

## 3. Runs

| Run | Instance | What it shows |
|---|---|---|
| `slave` | 2 masters, 2 slave addresses, 2 stations, every layout of the request the handlers tell apart | types; timers run in the states that need them; the application's view agrees; control never outlives the timeout; data only from the controller's current request; no master steals the slave; no data before the handshake; a stop of the slave ends although requests keep coming |
| `master_devices` | 1 group of 2 devices | a lost device is dropped after exactly the configured number of scans; devices follow the scan; input of this scan only; every slave finds itself, and its stations, in every request; data written for a device arrives there and nowhere else |
| `master_groups` | 2 groups, one with constant link scan, a foreign master | groups share arbitration and standby; every active group has a timer; constant scans keep their pace; a standby master is silent |
| `master_application` | 1 device, all API calls, a foreign master | no request before arbitration is won; every request is up to date; scans go on until standby; a device kept stopped is in the end left out of the requests |
| `cyclic` | 1 master started up to twice with 2 configurations, 1 slave, repeated frames, a torn or foreign file | a controlled slave follows one session of its master; after the faults master and slave find each other, for good |
| `two_masters` | 2 masters with constant link scan for 1 slave, no place for the file | in the end at most one master runs, and if one does, it serves the slave |
| `timer` | 16-valued clock, periods to 5, polls every 2, 2 messages | the wrapping timer implements the abstract one, no expiry is missed; the limiter drops only repetitions, and a lasting error is reported once |
| `slmp` | 1 master, 2 slaves (one may not change its address), 3 requests | what the application is told is true of the slaves; no address is given twice; requests and timers go together |
| `slmp_two_masters` | 2 masters with the same serial numbers | a success never confirms another master's command; every request ends |

Runs that expect a violation show where the code disagrees with its documents
(`findings` in `PROJECT.json` quote both):

* `stopped_bit` - a device stopped by the application keeps its transmission bit
  for one more request;
* `scan_success` - a scan counts as successful although a device that is not yet
  connected did not answer;
* `receive_timer_overflow` - a product of timeout and count beyond 32 bits is
  truncated, and the master left too early.

Other observations made while modelling, without a run of their own: a timer with
the longest documented period (`UINT32_MAX/2`) expires only if it is polled at the
very tick, so `PeriodsFit` cannot be weakened; an error response to another master
with the same serial number is reported as this master's result (`ErrorMeansRefused`
holds with one master only); a second master's search overwrites a slave's pending
answer; the byte that counts search answers wraps below the number of entries.
With `parallel_off_timeout_count` 1, which the configuration check allows, a scan
without a connected device takes as long as the slave waits for its master: after
one lost frame the slave can leave just before every request, and is never
connected (`Recovers` fails with a count of 1, so the instances use 2 and 3).  A
late alarm can send the last running master to standby, and then all masters wait
there until one is restarted: the second outcome `Recovers` allows.  A running
master that goes to standby does not call the disconnect callback.  A response of
an earlier session that is accepted during arbitration is measured from timestamp
0, so its response time is arbitrary.

**Bounds.**  Timeouts are 1 to 3 units and a periodic call comes up to `MaxDelay`
units late, so timers expire on time, late and together.  Timeout counts are 1 to
3.  `MaxSequenceNo` is 2, so sequence numbers wrap (past 0, as in the code) within
a run; `MaxSerial` of SLMP is not reached (`MaxRequests`): a response that is late
by 65536 requests is not considered.  Two devices or two groups are enough for the
interactions, which are all pairwise: a device with the others of its group, a
group with the others through arbitration.  In `Cciefb` a frame lives for one
unit and the longest total timeout is 3, longer than arbitration and a lost request
take: a slave can still be connected when it sees the next session of its master.
Two starts are enough, since the slave compares with one stored number; a number
that comes round again after 65536 starts is not considered: `CciefbAssumption` bounds
the starts by the count of numbers (`MaxSessions` is at most `MaxParameterNo + 1`).  The data invariants
take every number at the borders of bytes and areas; the theorems take all.  The
clock of the timer runs has 16 or
32 values: the arithmetic depends on the proportions only, and the theorem covers
every width.  In `receive_timer_overflow` the width, the factors and the ticks per
unit are scaled down together: 65535 x 65535 x 1000 does not fit in 2^32, as
6 x 3 x 2 does not in 32.

**Fairness.**  Only that the application goes on calling the periodic handler and
that time passes (`WF` of `TimePasses`, of `Step` in `Cciefb`, of
`MasterPeriodic` and `SlavePeriodic`).  Nothing is assumed of the network or the peers, except in
`Cciefb`, where frames arrive once the faults have ended.  In `master_application`
`StoppedDeviceIsSuspended` is about a device whose application does not change its
mind for ever.  A periodic call may leave the state of a stack as it was, and `WF`
speaks of steps that change something; the variable `beat` of `ClsSlave`,
`ClmMaster` and `Cciefb` changes in every such call, so that fairness means that calls go on.

**Deadlock** is checked in all runs: a periodic call is always possible.

## 4. Proofs

`ClsSlaveProofs` (for every set of masters, addresses and requests, any number of
stations, any periods):

* `SlaveTypeCorrect`, `SlaveTimersFollowState`, `SlaveApplicationAgrees` and
  `SlaveControllerNeverStolen`: `Spec => []TypeOK`, `[]TimersFollowState`,
  `[]ApplicationAgrees`, and the action property `ControllerNeverStolen`.

The inductive invariant `IInv` is about the record `cls` alone, `SlaveInv(cls)`:
types, timers that agree with the state (`TimersAgree`), and what was told to the
application (`CallbackAgrees`, `ConnectionTold`).  It is stated of a *value*, not
of the variable, because one action passes `cls` through several operators: for
each operator a lemma says that it preserves the invariant, or which part of it
the operator establishes, and the step of an action is their composition.  The
type of the stored callback memory and of the master has to be part of it, since
the next request is compared with what was stored.  `ControllerNeverStolen` needs
in addition that each operator either keeps the controller or leaves it
(`SameController`).

The second half of `ClsSlaveProofs` (same constants): `SlaveDataFromController`, `SlaveNoStaleControl`
and the action property `SlaveHandshakeBeforeData`.  Every call into the stack has
one of three effects (`Effect`): it keeps the connection (`Kept`), it frees the slave
(`Freed`), or it serves a request of the master that is in control afterwards
(`Served`, which says where the data area comes from and to whom process data are
sent).  There is a lemma per event of the state machine, and the periodic handler
composes them.  `DataFromController` is inductive once the types are known.
`NoStaleControl` is not: it compares the observer's `silence` with the timeout of the
master, and what ends control is the timer.  `SilenceIsTimed` adds that the silence is
at most what the receive timer has counted, and that the timer has not expired
between two calls.  That a served request really lists the slave follows from the
number of stations found in it, by the theorems on finite sets.

`ClmMasterProofs` (for every configuration `clm_validate_config()` accepts, any number
of groups and devices, any frames and delays): `MasterTypeCorrect`,
`MasterGroupsShareFate`, `MasterScansAreTimed`, `MasterConstantScanPace`,
`MasterArbitrationFirst`, `MasterLostDeviceIsDropped`, `MasterDevicesFollowScan`, and
the action properties `MasterRequestIsCurrent`, `MasterInputFromThisScan` and
`MasterStandbyIsSilent`: every safety property `ClmMaster` states, except the two of
the findings, which the code does not have.  All rest on
`MasterInvariant`, `Spec => []IInv`, with two parts.

* `MasterOK(clm)` is about the structs, and made of `DeviceOK`, `GroupOK` (types,
  `TimersOK`, `DevicesOK`) and `StackOK`.  What had to be found: a device's counter is
  *below* its limit between two calls, and above 0 only while its transmission bit is
  on; under constant link scan the two timers of a group are equal during a scan, so
  neither expires alone; a group without constant link scan never rests in
  `MASTER_LINK_SCAN_COMP`; no running timer has expired when a call returns.
* `Noted` ties the notes of the observer (time since the last request, devices that
  answered, requests a device missed) to the structs: the time is what the timer that
  ends the scan has counted, a connected device in `CYCLIC_SENT` has been noted as
  answered, and a device in `CYCLIC_SENDING` has missed no more than its counter says.

One call passes the struct through the arbitration timer, the timers of every group
and a frame, and each through up to three state machines.  So there is a lemma per
operator on a device, a group or the stack; `GroupStep` sums up what a whole call
does to a group (it sends no request, or one that starts a scan, and input data
changes only by a response of the present scan), and `NextOK` goes from there to the
invariant and the action properties.  Assumptions: the configuration is valid
(`ConfigAssumption`), limits and times are positive (`MasterAssumption`,
`MasterDelayAssumption`), and the sets of statuses and frames hold statuses and frames
(`StatusAssumption`, `MasterFramesAssumption`).

`SlmpProofs` (for any number of masters and slaves, addresses and delays, and any
size of the search database): `SlmpTypeCorrect`, `SlmpTimersFollowRequests`,
`SlmpSuccessMeansSet`, `SlmpAddressesDistinct`, and `SlmpErrorMeansSomeRefused` and
`SlmpFoundAreSlaves`, what remains true of errors and searches when several masters
use the same serial numbers; and, if there is one master (`OneMaster`, which is needed: see the observations in section 3),
`SlmpErrorMeansRefused` and `SlmpFoundSinceSearch`.  The invariant says what each frame
on the network stands for.  `SerialsIssued`: no frame or pending answer has a number
its master has not issued yet; without it a new request could meet an answer that is
already there.  `CommandsAnswered`: a response to the latest command means that the
slave asked has carried it out, an error response that some slave refused a command
with that number.  `SearchInv` says the same of the answers to a search.  The serial
number is bounded by `MaxRequests`, below the point where it wraps.

The first half of `ClLimiterProofs` (for every width of the clock): `TimerImplementsAbs`, that
`ClTimerWrap` implements `ClTimerUse` where `PeriodsFit`, and `TimerNeverOverdue`.
The invariant is that a running timer is never older than its period plus the time
since the latest poll, which the poll that stops an expired timer ensures; so the
wrapped difference is the true one.  Assumption: `ClockAssumption` (a clock of at
least two values, periods within it).  Without `PeriodsFit` it is
false: with `MaxPeriod` equal to `Half`, TLC finds a timer that runs on.

The second half (for every width, period and set of messages, with the same
`PeriodsFit`): `LimiterDropsOnlyRepeats` and `LimiterNeverFloods`.  The invariant
ties the limiter's timer to the time since the latest offer: while it runs, the
wrapped difference is no less than that time and within a period and a poll
(`WhileRunning`), and once the poll has stopped it,
that time is at least the period (`OnceStopped`).

`ClIefbProofs` (for every list of ids): `AnalysisIsTheReference`, that the loop of
`cl_iefb_analyze_slave_ids()`, which keeps a station, a count and a flag while it
goes from id to id, fails exactly when the id is repeated, and otherwise returns what
the definitions over the whole list say: the only place of the id, or 0, and the
count of the stations marked behind it without a gap.  The loop is a recursive
function.  Induction comes in through a *set* of numbers: the least element of its
complement contradicts the step (`SetInduction`, from `WFMin` of the library), so the
theorems with an operator parameter are not needed.  That the recursive function
exists is proved the same way (`WalkExists`).  The module also holds what
follows from the master's way of counting stations: devices lie one behind the other,
and each station belongs to exactly one.

`ClmAreasProofs`, of single bits and registers (for every position and number of
stations): `OutputBitIsExact` and `InputRegisterIsExact`, that a bit or a register
written on one side is read at the same number on the other and changes no other
number; `DevicesDoNotOverlap`, that the bits of a device are not those of a device
behind it.  They rest on the lemmas that a number is determined by its place (area,
byte, bit), and that the bytes of a register give its value back.  And of whole
requests (for every configuration `clm_validate_config()` accepts, and every request
that `ClmMaster` sends, whatever frames come):

* `MasterSlavesFindThemselves`, that a slave's walk over the ids finds the place and
  the count of stations the master has computed for it, or nothing if it is left out;
* `MasterDataArrives`, that bits and registers reach their device and number in both
  directions;
* `MasterOutputIsExact`, which says of the output more than the run checks: every
  number and value, and whatever the memory held before.

The invariant of `ClmMasterProofs` says which devices take part in a scan, not what
the frame that was sent contains.  `RequestsFit` adds that a request describes the
devices as they are after the call that sent it; it follows from `GroupStep`, without
another pass over the operators.  The rest is about one such frame: the ids are
distinct except for 0.0.0.0 and the mark, a slot belongs to one device
(`SlotIsOfADevice`), the marks behind an id end with its device
(`HowManyItImplies`), and `AnalysisIsTheReference` makes that what the slave computes.

`CciefbProofs` (for any number of masters, any accepted configurations and files, any
interleaving of starts, stops, losses, delays and repetitions): `SlaveFollowsOneSession`,
`Spec => []FollowsOneSession`, and `SlaveMixesNoSessions`, that this session is the only
one.  `FollowsOneSession` speaks of the slave and the history of the masters only;
the invariant goes along the way of the data between them.

* `StackFits`: every output in the stack of a master is of its latest session, the ids
  and settings of every device are those of the session's configuration, and so is
  everything in the requests it has sent (`RunsIn`, `MasterCarries`).
* `FileFits`: as long as a master's number could always be saved (`kept`), its file
  holds the number of the latest session, and the sessions have consecutive numbers.  As there are no more sessions than numbers, a
  number stands for one session (`NumbersAreDistinct`).
* `EntryFits`: a request under way was sent in *some* session of its sender, and
  describes it (`RequestTells`): number, timeouts, the ids by station, and at a
  device's stations that session's output for it, or none.
* `ConnectionFits`: the slave's master record is of one session, with the station of
  the slave's id in that session's configuration, and its data are that session's
  output or cleared.

The step that matters is a request of the master already in control.  If it has the
stored number, it is of the same session, because numbers are distinct, so the
stored station is right for it although the slave does not search again; if not, the
slave computes everything anew from this request and takes all its data from it.
`AnalysisIsTheReference` gives the place in both cases.  As in the other modules
there is a lemma per operator of the master's and the slave's state machines: the
master's operators keep `RunsIn`, the slave's keep its connection, leave it or serve a request of it
(`SameSlave`, `Leaves`, `Receives`).  Assumptions (`CciefbAssumption`): the
configurations are valid, the slave's address is a unicast address and not a
master's, numbers in the first files are in range, and starts do not exhaust the
numbers.

`ClmStatistics` (for every width and number of samples): `ResponseTimesExact`, that
the sum never wraps and the average lies between the extremes, if every time is at
most half the range.  The invariant bounds the sum by the number of samples times
the smallest and the largest time.

Only model-checked: the liveness properties (`DisablingEnds`, `ScansContinue`,
`StoppedDeviceIsSuspended`, `Recovers`, `RequestsEnd`), which are out of the prover's
reach.  Every invariant and every action property of the passing runs is stated
by a theorem.

## 5. Not modelled

The counters of the statistics (connects, timeouts, frames), which nothing in the
stack reads; show functions and the wording of messages; the byte layout of frame
headers (a frame is well formed or not; process data are modelled down to the bit);
of the ranges of IP addresses all but 0.0.0.0 and 255.255.255.255, since the state
machines compare addresses for equality only; the conversions of `cl_util.c`, the
literals and the Ethernet wrappers, which keep no state; the operating system ports
(sockets, clock and files are modelled by how the stack uses them); netmasks,
broadcast addresses and the delay computed from a MAC address (any delay per slave);
restart of an SLMP master; the sample applications and tests.

The cyclic and the SLMP half of a stack share only the slave's IP address (a change
of it is an action of `ClsSlave`) and the clock, so they are not composed further.

## 6. Plan

1. Done: timer, limiter, cyclic slave, cyclic master, SLMP, process data, the
   composition with restarts and the parameter file; proofs of all their safety
   properties, among them the walk over the slave ids and the way of the data from
   a master's session to the slave.
2. Proofs that would add to this: the way back, that the input a master stores is of
   the slave's present session (the slave has no session number in its responses, so
   this needs an observer of its own).
3. Left open: a composition of one master with several slaves (the pairwise case is
   `master_devices` on one side and `slave` on the other; composed, it is beyond
   what TLC finishes in minutes).
