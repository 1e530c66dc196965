# Models of the RSU signal software

The repository is the software of a roadside unit (RSU): it watches a traffic
signal controller, works out the colour of every signal phase and how long it
will last, and broadcasts both to vehicles. This directory models that
software in TLA+, checks the models with TLC and proves theorems about them
with TLAPS. Every definition is taken from the source; `PROJECT.json` gives
the lines of each ("map").

## 1. The system

Separate processes on one QNX or Linux host share variables of a database
server (`db_clt`, not in the repository). Writing a variable sends a trigger
to the clients that asked for one. No process locks anything.

```
 controller --lamps--> rdsniff ----+
            --AB3418-> rd3418 -----+-> DB_ATSC_VAR --trigger--> phases
            --NTCIP--> rdntcip ----+                             |   |
                                          DB_ATSC_BCAST_VAR <----+   |
                 DB_IX_MSG_VAR, DB_IX_APPROACHn_VAR <----------------+
                                        |
                 snd_ix_msg --UDP broadcast--> rcv_ix_msg (vehicle)

 controller <--AB3418--> ab3418comm --> status variable, DB_SHORT_STATUS_VAR
 170E ------> its poller --> status and priority variables --> phase170e
                                        --> DB_IX_MSG_VAR, DB_ATSC_VAR, ...
 ramp meter <--TCP--> urms <-- command variable
```

| Part | State | Operations | What is hard | What makes it correct |
|---|---|---|---|---|
| `phases` loop (`phases/phases.c:609-1186`) | per phase: lamps, old lamps, colour, start times, countdown; the program's clock; its copy of the ATSC data | wake on trigger or timer, decode (three kinds of input), countdown, publish, remember | the clock is read before the wait; yellow and red are guessed from edges and time; passes on stale data; uninitialised memory at the start | colours in order, inferred yellow right to within the clock's lag, countdown anchored at the change of colour, copies that agree, UNKNOWN until known |
| `get_timing_plan` (`phases.c:72-155`) | none | scan of the intervals | edges of the day and of the list | the plan of the interval that started last |
| overlaps (`phases.c:866-959`) | colour of parent phases, shared scalars | derive an overlap's colour | state shared by all overlaps | an overlap is green only with a parent |
| intersection broadcast (`ix/`) | database variables, the message being read, datagrams | write header and approaches, read back, format, send, receive | no lock between writer and reader; UDP loses, repeats, reorders | a message mixes neighbouring passes at most; the last state gets through |
| sniffer (`sniffer/`) | greens of the last write | poll, decode bits, write on change | writes only on some changes; polls and triggers race | every change of a green reaches `phases` within a poll and its delay |
| AB3418 library (`ab3418/ab3418_lib.c`) | port, frames received and not read, `errno` | framing, check sequence, request and answer | late, lost and cut answers; calls that ask and do not read, or read and do not ask; escaping in place | a frame that is accepted was sent; answers fall no further behind than frames or rests of frames were left over; calls end, but for one read |
| AB3418 poller (`ab3418/ab3418comm.c`) | last answer, greens of the last short status, colours of the phases | polling loop, patterns, reopening the port, exit handler | one port or socket for several requests; a signal at any moment | an answer belongs to its request; one status is published whole; a port is not left half open |
| `tscp_memory_probe` (`ab3418/`) | position in the range, cells to set | read a chunk, match, substitute | 16-bit addresses swapped byte by byte, a range of more than a short | every cell of the range is looked at, substitutions go to the cell that matched (for cells with a phase) |
| NTCIP link (`ntcip/asc_get.c`) | bytes read of an answer, select loop | escape, send, receive, parse | reads that block on every byte, escape bytes in frames, damage | the database has lamps that were shown, the reader stays in step |
| URMS (`urms/urms.c`) | connections, control flags, metering rates | poll, forward a command, release, exit handler | a signal at any call, short answers, descriptors, `longjmp` and locals | control that is switched off stays off, exit gives the meter back |
| phase 170, TSP (`phase170/phase170e.c`) | last status, priority in progress, countdown | triggers of status and request, timer | latency, missed polls, triggers in either order | the countdown goes to the moment the light changes; a priority is announced only while it is given |
| EDI monitor (`edi2010/`), comparison programs (`phases/compare*.c`, `phases_init_only.c`) | as `phases` | variants and tools | - | - |

The hazards found while reading are listed in `PROJECT.json`, each at its
line.

## 2. Modules

| Module | Models |
|---|---|
| `Phases` | the main loop of `phases.c` without overlaps and without `-t` |
| `PhasesTiming` | `Phases` at one site, with an observer of real time; its properties |
| `PhasesProofs` | theorems about `PhasesTiming` and `SniffedPhases` |
| `TimingPlan` | `get_timing_plan` and a day of passes |
| `IxMixture` | abstract specification: what a datagram may mix |
| `IxBroadcast` | the database calls of `phases` and `snd_ix_msg`, the network, `rcv_ix_msg`; refinement of `IxMixture` |
| `DataPathProofs` | theorems about `TimingPlan`, `IxBroadcast` and `Ab3418Frame` |
| `SniffedPhases` | signal, `rdsniff` and `phases` (extends `Phases`) on one clock |
| `Ab3418Frame` | check sequence, escaping and the reader of frames, byte by byte |
| `Ab3418Poll`, `Ab3418PollProofs` | `ab3418comm -D` on a serial port with the calls of `ab3418_lib.c` it makes, the line and the controller; its theorems |
| `Ab3418Udp`, `Ab3418UdpProofs` | `ab3418comm` over UDP with its options, `process_phase_status` and the exit handler; its theorems |
| `Ab3418Calls`, `Ab3418CallsProofs` | every other call of `ab3418_lib.c`, and `tscp_memory_probe`; its theorems |
| `Ntcip`, `NtcipProofs` | `rdntcip` and the serial line byte by byte; its theorems |
| `Urms`, `UrmsProofs` | `urms`: commands, polls, connections, exit; its theorems |
| `Phase170`, `Phase170Proofs` | `phase170e` beside the 170E it follows; its theorems |
| `MC...` | the instances for TLC |

`Phases` is composed twice: with real time (`PhasesTiming`), and with the
sniffer and the signal (`SniffedPhases`). The three AB3418 modules lie on top
of what `Ab3418Frame` shows: they have frames that are whole or damaged, and
no bytes. What the reader makes of a damaged frame is part of `Ab3418Calls`;
`Ab3418Poll` reads one to its end.

### How state and actions correspond to the code

**Phases.** `ph[p]` holds `green[], yellow[], red[]`, the three `old_` arrays,
`signal_color[]` and `time_left[]` of a phase. The start times are stored as
ages: the program only ever uses `time_sec - start`, and the model stores that
difference and makes it older when the program reads its clock. `Unset` is
`start_yellow = -1`. One `Pass` is one turn of the loop: decode, countdown,
publish, remember, and the clock of the next turn. `d` is the wait before the
pass; because the clock is read before `clt_ipc_receive` (611-621) it counts
only after the pass. `Trigger` reads any combination of lamps from the
variable; `Timer` works on the copy the last pass left, completed bits
included. A timer pulse whose `trig_info` still names DB_ATSC_VAR reads the
variable again: that is `Trigger` with the same lamps. Until the first trigger
nothing is published, but passes run. Uninitialised arrays and the
uninitialised copy are nondeterministic (`Garbage...`). A pass may take any
plan: a plan changes at any moment. Every phase has one approach; at the sites
several approaches share a phase and would get equal values. `site` is the set
of sources that write the variable at a site, and does not change: `Sites`
says which there are, and one run goes through all of them. The properties
about inferred yellow are those of a site whose sources give greens only.

**TimingPlan.** `FirstHolding` is the turn on which the loop ends. The lists
are those the site files describe, in order by time of day. A pass a minute
covers every hour and minute of a day.

**IxBroadcast.** A published value is the number of the pass that wrote it:
every value of a pass is distinguishable from every other. Each database call
is an action, of the writer (`WriteHeader`, `WriteApproach`) and of the reader
(`ReadHeader`, `ReadApproach`). Before the first publication the header may
announce any number of approaches (`Junk`). `FormatError` goes round without
the timer. The network may drop, repeat and overtake.

**SniffedPhases.** The lamps change at any time, green and not-green lasting at
least `MinShow`. `Poll` is a turn of the loop of `atsc_dio.c`, `Digio` the byte
it reads and decodes, `WriteAtscDbVar` the test on `last_greens` and the write.
Triggers queue; `phases` reads the variable when it takes one, so it may see a
later write. A poll is made when it is due, but `phases` may be late: `queued`
triggers and timer pulses (`timer` beyond its interval) wait for up to
`MaxDelay` ticks while the lamps change and the sniffer polls and writes again,
and are taken in any order. `behind` says for how long there has been something
to take; the tick waits only when that is `MaxDelay`. `phases` may start at any
time, also between a write and the next.

**Ab3418Frame.** `fcstab` is computed by the polynomial `fcs.h` names and
compared with its first row (`FirstRow`); `Xor` is the exclusive or of two
words, bit by bit. `EscapeLoop` is the inner loop of `fcs_hdlc` as it is, which
counts inside the loop that moves the bytes, `EscapeTurn` one turn of the outer
loop and `EscapedData` all of them; `HdlcFrame` is what a frame should be, and
what the controller answers with. `First`, `Second`, `Body` and `Unescape` are
the four places of `ser_driver_read`, which compares nothing with the start
flag and reads the byte after an escape without a time limit. A fault changes,
loses or adds a byte, cuts the line off, or lets a second go by before the next
byte.

**Ab3418Poll.** A request or an answer is what it asks for and its age: how
many requests were made after it. A number would say the same but would grow
for ever; ages keep the instance finite without a bound on the run. Neither
exists in the code, which reads whatever comes first. `Damaged` stands for
every frame `ser_driver_read` refuses: check sequence, illegal escape, too
long, cut. A frame without its start flag is read to its end flag and refused,
so damage costs one answer per frame. `Ask`, `AskClosed` and `AskStuck` are the
first half of `get_status`, `get_short_status` and `set_time`; `TimeOut`,
`ReadDamaged` and `Read` the second, with what `main` does with the value
returned (`Fail`, `Publish`). `OpenInput` and `OpenOutput` are the halves of
`check_and_reconnect_serial`; between them the program sleeps and answers may
come. `MayBeLate` says which answers may still be missing when the program has
slept or waited: with `MaxAge = 0` none. Patterns take time and send nothing.

**Ab3418Udp.** A socket keeps datagrams whole and nothing empties it. `Read`
takes the oldest, whatever it answers: the first ten bytes for `set_pattern`,
all of it for a status, over what the buffer held before (`Received`), which is
why the buffer has a `head` and a `tail`. `todo` are the calls an option makes
before the loop. `Publish` and `Show` are the two writes of a turn, the status
variable and what `process_phase_status` works out. `phase_status` has its
colours, yellows and reds: `Ring1` and `Ring2` are its two branches, and
because the `else` has no braces the second sets the yellows of ring 2 whenever
ring 1 or ring 2 has a yellow (`Yellows`). The greens are those of the last
short status, as `main` copies them. `Signal` is the jump to the exit handler:
`retval` is a local that is not volatile, and may have its last value or the
one it had at `setjmp`. `late` counts the questions given up before they were
answered.

**Ab3418Calls.** A call is what it does: `asks`, `takes` a frame, `goes_on`
after an interrupted wait. `OtherCall` lets any program make any of them one
after another, and the probe makes two of them in a loop of its own
(`ReadChunk`, `Byte`, `EndChunk`, `ExitProbe`). `get_mem` does not ask, because
its write is commented out, so the bytes the probe looks at are of whatever
frame came; `get_request` and calls that need not wait leave their answer on
the line. `eintr` is `errno` as the last call left it: `get_timing` and
`get_spat` look at it although a wait that only timed out does not set it.
`Read` is `ser_driver_read` without its bytes: a whole frame is taken, but of a
damaged one the reader may take all, stop inside (a flag or an escape in the
wrong place) and leave the rest on the line, or run on into the next frame,
which is then damaged too, or is taken whole if what came before was taken for
no frame (`TakesWhole`, `TakesDamaged`). `Block` is the read without a time
limit: behind an escape character always, and anywhere when `errno` is `EINTR`.
`SubstitutedCell` compares the address that is set with the one that was looked
at. Addresses are 16 bits with their bytes swapped, lengths `short`, a byte
that is matched a `char`.

**Ntcip.** The reader has no way to find where an answer begins but to read
bytes, and waits for each without a time limit, so each place it reads at is
an action. An escape is collapsed as `collapse_escape` does it, with its
assignment in the place of a comparison. The check sequence is one token that
knows the bytes it was computed from; a group of lamps is three bytes (object,
type, value), the fields of SNMP the reader skips are left out. `wide` is how
the controller writes the length: in one byte, or after one that says how many
follow, never in fewer than it needs (`Wide`); the objects asked for are
distinct. `hits` says what may go wrong in a behaviour; each set in `HitSets` is
a kind of fault the properties tell apart. `"tail"` is a start behind the end
flag of an answer to the program before, with a request under way or not, and
together with a request that is lost.

**Urms.** `pc` is the call about to be made. `WakeCommand`, `ConnectCommand`,
`SendCommand` are the branch of a trigger, `WakeTimer` to `Release` that of the
timer, `Ask` to `TosSetAction` the standalone program. `Startup` and `Address`
are what the options leave, which share one array: the last of `-c` and `-T`
decides. `SetMeter` is `urms_set_meter` with its clamping of the caller's
record and its three results; after a lost answer the result is what the stack
holds. `Hang` is an answer that never comes while the connection stays up: the
read has no time limit, and `hung` ends only with a signal, whose handler may
hang in the same way (`SignalHangs`). `fds` are the descriptors open, handed
out from the lowest; a command opens a connection that is never closed.
`Signal` is `longjmp`, with `urmsfd` as it is or as it was at `setjmp`.

**Phase170.** Seconds, and the 170E beside the program as the specification of
what it should count down to (external). `Poll` writes a status that may be a
second old when the program takes it over; `Request` has the controller give a
priority and writes what was asked. `StatusTrigger`, `RequestTrigger` and
`Timer` are the three branches of the loop; the timer runs five times in a
second, and `published` is what it writes with what is known in that second.
`lag` is the observer that knows how old the status was. The request may come
again before the priority is cleared. `PhaseSwap` is the table `phase_swap` of
`int_cfg.h:69`, which exchanges nothing (the comment at line 31 of that file
says that phase 2 is the output of phase 4); `AtscSwap` is `atsc_phase_swap`
(line 77), which does.

## 3. What is checked

Bounds: ages saturate at `MaxAge`, above every length they are compared with;
lengths are scaled to a few ticks, keeping the order *yellow > timer interval*
where it matters; datagrams, frames, requests, faults and commands are at most
`Max...`, each named in its module.

| Run | Instance | Shows |
|---|---|---|
| `phases` | one phase, a coordinated and an actuated plan, a site of each kind of input, several values of every uninitialised variable, waits of 0 or 1 tick | `TTypeOK`, the inductive `GreenOnlyInv`, `StartUnknownWhenTriggeredFirst`, `YellowWindow`, `BroadcastAgrees`, `CountdownAnchored` (all three decoders), `ColorOrder`, and under fairness `YellowEnds` |
| `sniffed` | one phase, yellow of 4 ticks, lamps that may change, a poll and a timer pulse in every tick, `phases` up to two ticks late | `GreenPrompt`, `TriggersNotStale`, `YellowEndToEnd` |
| `timing_plan` | lists of up to four intervals, a day of 4 hours of 2 minutes | `PlanInEffect` when starts are in different hours |
| `broadcast` | two approaches, three passes, two datagrams in the air, junk headers of none and of too many approaches | `QuietReadIsWhole`, refinement `ShownMixture`, liveness `LastPassShown` |
| `ab3418_frame` | four answers of three kinds, up to two faults at any byte, a buffer that one answer fills; eight requests | `AcceptedWasSent`, `ThreePerFault`, `FlagsAreEscaped`, liveness `ReadEnds` |
| `ab3418_frame_escape` | the requests of `ab3418comm`, no fault | violated: `RequestIsFramed` |
| `ab3418_poll` | answers overtaken by up to two later requests, noise while fewer than two frames are unread | `InStep`, liveness `OutputReopened` |
| `ab3418_udp` | two kinds of status, two answers that come too late, any number lost, a signal at any moment | `LagIsLate`, `WholeStatus`, `ColorsAgree`, liveness `Stops` |
| `ab3418_calls` | any calls on a serial port or a socket; a probe of three ranges; up to two frames or rests of frames left over, any of them damaged | `AnswerLag`, `SubstitutedCell`, liveness `CallEnds` and `ProbeEnds` |
| `ntcip` | two groups of lamps that need escaping, one change, two requests under way, one fault of the line, with a leftover flag also a lost request and the end of the port | `DbIsShown`, `Aligned`, liveness `Recorded` |
| `urms` | two lanes, six command lines, three commands, two calls that fail or hang, three descriptors | `NoControlHeld`, `PollsDoNotLeak`, action property `ExitGivesBack`, liveness `GivenBack` |
| `phase170` | plan 1 of `int_cfg.h` in seconds, polls 1 to 7 s apart, two priorities, one time without a plan | `CountdownRight`, `ExtensionRed`, `SavedRight`, `PriorityIsGiven` |

Type invariants are proved for `IxBroadcast`, `Ab3418Poll`, `Ab3418Udp`,
`Ab3418Calls`, `Ntcip`, `Urms`, `Phase170`, `SniffedPhases` and `PhasesTiming`;
of these only `TTypeOK` is also a property of a run. `MCPhases` asserts the
premises of the theorem about the countdown of its instance (`SiteAssumption`).

Why the bounds are enough.
*Phases*: decoding treats phases independently, so one phase shows every
colour sequence; what phases share is the plan, the source and the byte of
greens, of which a change in any writes all: the theorems about the way from
lamp to message cover any number. In `sniffed`, with a poll in every tick and
two ticks of delay, the variable is written twice again while the trigger of a
write waits; its yellow is longer than a wait, so that red could come too soon.
An age matters only up to the longest length it
is compared with. *TimingPlan*: the scan of the intervals looks at the first,
the last, one interval and its two neighbours, so four intervals hold every
case. *Broadcast*: a reader passes each approach once, so two approaches and
three passes contain every mixture of neighbours. *Frame*: after a fault a
read that fails takes at most the rest of one answer and part of the next two,
so four answers leave a whole one after the worst fault, and two faults can
hit answers next to each other; the theorem about lost reads covers any number
of both. The answers have an escape at the end,
two in a row, and none. *Poll*: with two late requests an answer one behind is
of the other kind, and one two behind of the same kind but old. *Udp* and
*Calls*: with two late or left over an answer can be behind by one and by more
than one, a damaged frame can leave a rest and spoil the next, and the theorems
cover any number. The ranges of the probe go over
the border of a phase and of a page, and one has more cells than a `short`
counts (`MAX_SHORT` is 6 there). *Ntcip*: one fault per behaviour, at every
byte of an answer and of every kind; the two lamps are the flag, the escape
character and the two characters that stand for them. *Urms*: lane 3 is
treated apart from lane 1, and both are there; a third command finds the table
of descriptors full. *Phase170*: nothing is scaled down, and early greens begin
at two places.

### What the violated property says

`RequestIsFramed` (`ab3418_lib.c:968`). The comment at 954-955 says that every
0x7d of a request is replaced by 0x7d 0x5d. The loop that makes room counts the
length and the position up inside the loop that moves the bytes, and so
overwrites bytes it has not moved. The check sequence decides which requests
need escaping: of those `ab3418comm` sends, six patterns. Pattern 125 has a
0x7d two bytes before its end and goes out as ... 93 7d 5d 9e 9e where the frame
is ... 93 7d 5d 82 9e; in pattern 217 the 0x7d is the last byte and is not
replaced. The other four (99, 126, 234, 242) are escaped right. All six lose
their end flag, because the callers write as many bytes as the request had
before; that is not what the comment is about, and the property does not count
it. `FlagsAreEscaped` is what does hold.

### Known disagreements that are not runs

The properties are stated where they hold; these are the cases left out of
their conditions.

- **A start from the timer** (`phases.c:1177`). `phases` starts its timer before
  it waits for data, and the first pulse makes a pass over uninitialised lamps;
  the marks -1 that stand for "not known yet" are overwritten. A phase that has
  never been seen green is then published with a colour, although the comment
  at 790-791 says it cannot be known.
- **Two lamps at once** (`phases.c:700-718`). With all three lamps read, green
  hides a yellow that is lit with it, and a yellow that goes out again before
  green does leaves `old_yellow` at 1: the start of the next yellow is not
  set. `CountdownAnchored` is proved where a site's readings do not do this.
- **The countdown wraps** (`phases.c:1036`) after some 55 minutes of one colour;
  `CountdownAnchored` ends at `MaxAge`.
- **Two starts in one hour** (`phases.c:95`): the second has no effect before
  the next hour.
- **Answers one behind** (`ab3418comm.c:366`). The calls before the loop do not
  look at what they return. One refused frame leaves an answer over in the
  input, and from then on each call reads the answer to the one before: the
  short status goes to the status variable, and `greens` is a byte of flags.
  Nothing fails any more, so nothing opens the port again. `InStep` is the
  other side: the first failure in the loop heals it. Over UDP nothing does
  (`LagIsLate`).
- **Yellow lamps are read and dropped** (`atsc_db.c:83`).
- **Lanes 3 and 4** (`urms.c:620`): the standalone program takes the upper byte
  of the rate it reads back from lane 1.
- **A lost byte** (`asc_get.c:217`) leaves `rdntcip` waiting in the next answer,
  and a program that waits asks nothing; `Recorded` and `Aligned` are for the
  faults that leave every byte in its place (`Harmless`).
- **A leftover flag** (`asc_get.c:220`). A program that starts behind the end
  flag of an answer to the program before takes it for a start flag and reads
  on without a time limit. If its request is lost, or it makes none, it asks
  nothing any more: the exception of `Recorded` (`LeftWaiting`).
- **The yellows of ring 2** (`ab3418comm.c:684`). The `else` without braces puts
  the active phases of ring 2 among the yellows whenever ring 1 has a yellow;
  their colours are right. `ColorsAgree` says how far the two agree.
- **The byte after an escape** (`ab3418_lib.c:471`). A wait that times out there
  is reported and the byte is read all the same: an answer that breaks off
  behind an escape character blocks the call until something else comes, with
  no signal caught (`ReadEnds`, `CallEnds`, `ProbeEnds` name it).
- **A time-out taken for a signal** (`ab3418_lib.c:362`, 375, 401, 433). `errno`
  is `EINTR` for good once a signal interrupted a wait, and every later time-out
  goes on to a read without a limit. `CallEnds` is not said of calls after a
  signal, and the bytes of `Ab3418Frame` are read without one.
- **The cell sixteen further** (`tscp_memory_probe.c:113`). The usage text (line
  13) says that with `-m` and `-s` the new value is substituted for the old
  value shown. The program takes the phase out of the address and gives it to
  `set_timing`, which puts it in again only if it is not 0: of a cell without a
  phase, such as 0x10e, the value is shown, and cell 0x11e is set.
  `SubstitutedCell` excepts these cells.
- **A pattern on a serial port** (`ab3418_lib.c:2390`). `set_pattern` calls
  `sendto`, which fails there: with `-D` a pattern is read from the database
  and never sent, and the call succeeds when an old message is left in the
  buffer (`SetPattern` of `Ab3418Poll` sends nothing).
- **One array for two options** (`urms.c:486`). `-c` and `-T` cut their arguments
  up into the same array: with `-T` after `-c` the program ends at once or
  ignores commands (`Startup`, `Address`).
- **A meter that does not answer** (`urms.c:1189`, 1256). A controller that takes
  a command and keeps the connection up without an answer leaves `urms` waiting
  with the meter commanded, after the metering hours too (`GivenBack`).
- **Silence** (`phase170e.c:321`): a countdown whose end passed more than a
  second and a half ago is taken for one in the next cycle, although five
  seconds of silence are let pass; `CountdownRight` ends at two seconds. A
  silence longer than the green a priority waits for may hide that green
  altogether, and the priority is announced for another cycle; with plan 1 that
  takes more than ten seconds.

### Fairness

`Fairness` of `Phases`: again and again a wake comes after a wait that is not
zero. The timer of `timer_init` (312-317) gives pulses an interval apart for
ever and `clt_ipc_receive` returns on each. It does not assume that any data
ever comes. `IxBroadcast`: the processes run on (`WF` on their steps), and the
network does not lose or pass over the datagrams of the last pass for ever
(`SF`). The last is an assumption on the radio link, not on the code: without
it nothing can be shown of a protocol that only repeats.

`Ab3418Poll`: every select has a time-out, so the program goes on (`WF` on its
steps); triggers are received in the order in which they come, so a poll is not
put off for ever (`SF`); a port that is opened again and again opens at last
(`SF`), an assumption on the port. `Ab3418Frame`: the controller answers or
not, the program reads what is there, and a select ends; there is no fairness
on the read that has no time limit, because it may block. `Ab3418Udp` and
`Ab3418Calls`: the program goes on, and a request is answered or lost (`WF`).
Neither assumes that answers come, or that a byte follows one that is read
without a limit; a signal is never assumed, and `Stops` says
what it needs of the port. `Ntcip`: the program runs on what is there and the
select times out (`WF`); a controller that is asked answers (`WF`), an
assumption on the controller without which the database shows nothing new.
`Urms`: a call returns unless its answer never comes, and the timer pulses
(`WF`); nothing brings such an answer, and a signal is never assumed.

Deadlock is not checked where the system may stop: `rdntcip` with `-k 0` or in
the middle of an answer, a call in a read that blocks, a probe that has ended.
The modules of programs that exit by themselves stay alive by their
environment (`Plug`, `Tick`).

## 4. What is proved

**The main loop** (`PhasesProofs`), for every set of phases, plans and sites,
all lengths, every timer interval and any uninitialised memory
(`PhasesAssumption`: lengths and intervals are natural numbers, and ages
saturate above yellow plus an interval; `SitesAssumption`: a site's sources are
sources):

- `TypeCorrect`: `TTypeOK`.
- `GreenOnlyInvariant`: `GreenOnlyInv`. It is the inductive invariant. The
  properties alone are not inductive: that YELLOW is not published too long
  depends on the age of the yellow, and that on the lamps the previous pass
  remembered. `LampInv` says phase by phase what the marks, the remembered
  lamps, the ages and the published values are worth; its heart is
  `off <= age_yellow <= off + Period`, the program's age of a yellow runs ahead
  of the real time by at most one wait.
- From it `YellowWindowHolds`, `StartsUnknown`, `BroadcastsAgree`, and as an
  action property `ColorsInOrder`.
- `CountdownsAnchored`: `CountdownAnchored`, for all three ways of reading the
  lamps. `ClockInv` says of a phase that the lamps it remembers are those of
  its colour, that the start of a colour seen to come on was set then and is
  kept while the colour lasts, and that the program's age of it is at most one
  wait ahead of the time it has been shown; the countdown is arithmetic from
  there. The premises are about the site and the signal, none about the code:
  the plans agree on the yellows (`SameYellow`), the sources of a site are read
  in one way (`ReadOneWay`: a site has one controller), lamps that are all read
  come one at a time (`ReadClearly`), the lengths fit the `short` they are
  published in (`CountdownFits`), and a yellow that is lit beside a green is not
  withdrawn while the green stays (`YellowStays`, a premise on the behaviour).
  Without the last TLC finds the countdown wrong.

**From lamp to message** (also in `PhasesProofs`), for any phases, wires, plans,
yellow lengths, poll and timer intervals, any longest delay of `phases` and any
moment at which it starts; the phases meant are the watched ones with a number
of 1 to 8, since the sniffer compares one byte:

- `TriggersBringTheLast`: `TriggersNotStale`, and `GreensArePrompt`:
  `GreenPrompt`, both from `WayInv`, which follows a green step by step: the
  variable always has the greens last compared; those are the lamps of all
  phases that did not change since the last poll; what `phases` publishes is
  what it read; and unless a trigger is queued, that is what the variable has,
  however often it was written while triggers waited. A trigger is queued no
  longer than `phases` is `behind`, and that is at most `MaxDelay`.
- `YellowsKeepTime`: `YellowEndToEnd`. `AgeInv` bounds the age `phases` gives a
  yellow by the time since the lamp left green: at most a wait more, at most a
  poll, a delay and the wait so far less. It needs `WayInv` where green ends: a
  green that is published then is still in the copy, so `phases` has yet to
  read of its end. A green so short that it was not published when it ended
  (`was_green`) is not meant: `phases` may then show the red before it.

**The plan** (`DataPathProofs`): `PlanAlwaysInEffect`, for lists of any
length. A least member of a set of numbers exists (from the well-foundedness of
strict subset on finite sets), so the scan ends; then each branch of the code
returns the plan of the one interval that is in effect.

**The broadcast** (also in `DataPathProofs`): `BroadcastTypeCorrect`,
`QuietReadsWhole` and `Implements`: `IxBroadcast` refines `IxMixture` for any
number of approaches, passes and datagrams. The invariant follows the writer's
position and the reader's: what the writer has not reached yet is one pass
older, so what a reader has taken and what it will find differ by at most one
pass.

**The frames** (also in `DataPathProofs`), for any requests, any buffer and any
number of answers and faults:

- `SumFits`: the check sequence that `get_modframe_string` appends makes the
  sum over the whole message `PPPGOODFCS`, whatever the message, so the reader
  refuses no answer that comes whole. Bytes are taken apart into bits, words
  into bytes; each of the two bytes appended is the complement of a half of
  the sum and takes that half away, so whatever the sum was, the table is
  looked up at 255 and then at 135 (`Table255`, `Table135`).
- `FlagsAlwaysEscaped`: `FlagsAreEscaped`. Each turn of the outer loop that
  meets a flag makes room for one byte and goes on behind it (`TurnEscapes`),
  so after all turns the request begins as the frame does; the last bytes are
  cut off by the length that is written (`HdlcBegins`).
- `ThreeLostPerFault`: `ThreePerFault`. The count alone is not inductive: the
  damage is on the line before the reads fail. `FaultInv` says that the bytes
  on the line can be labelled with the places of the controller's answers they
  belong to (between two answers, before a byte, between the two that stand for
  an escaped one), so that each byte leads from its place to the next or is one
  of those still `owed`, the damaged ones; and that the reads that failed, plus
  those that `Lost` still allows the reader where it is, plus three for every
  damaged byte to come, are at most three times the faults. An answer that was
  hit, in any of the ways of the model, can be labelled with one damaged byte
  (`HitLeads`); a damaged byte read pays three for the worst place it can leave
  the reader in; a byte that was not damaged never costs anything, because what
  the reader loses by it had been counted (`CleanPays`): nothing where it is in
  step with the answers, one or two where it takes the end of an answer for its
  beginning or has taken a byte of an answer for the start, three where it may
  miss the end. Its premise is `ResponsesAssumption`: an answer begins with an
  address that is neither flag nor escape, and fits the buffer. Some labelling
  exists, which TLC cannot look for; the run checks what follows from it.

**Polling on a serial port** (`Ab3418PollProofs`): `PollTypes` and
`ReopeningHeals`, for answers however late and any noise. That the first
message read is the right answer is not inductive; `HealedInv` adds that
between two questions only damaged frames are left, and that while the program
waits the answer awaited is alone on the line and in the input.

**Polling over UDP** (`Ab3418UdpProofs`), for any lamps and any number of late
answers:

- `UdpTypes`: `TypeOK`.
- `LagNeverWorse`: `LagIsLate`. `LagInv` says that answers stand in the order
  of their questions, the queue before those still due, and that each is
  younger than the number of questions given up, one more while a question is
  pending. So an answer given up makes the next ones older by one, a loss makes
  nothing older, and what is read is within the bound.
- `WholeWhileInStep`: `WholeStatus`. While nothing was given up, `LagInv` leaves
  nothing over between two questions, so the one datagram a question waits for
  is its own (`WholeInv`), and no part of the buffer stays behind.
- `ColorsAlwaysAgree`: `ColorsAgree`. Between publishing and showing the buffer
  and the variable are one (`ColorsInv`). The rest compares three outcomes of
  one call that are worked out apart, colours phase by phase, yellows in two
  branches, reds as what is left: a case split on rings and intervals shows
  that the branch that runs for both rings adds phases of ring 2 to the yellows
  beside a yellow of ring 1, and does nothing else.

**The other calls** (`Ab3418CallsProofs`), for any ranges, bytes, chunk length
and number of frames left over:

- `CallTypes`: `TypeOK`; the addresses and lengths of the probe keep their
  width, and a call is in a read without a time limit only after a signal.
- `CellsSubstituted`: `SubstitutedCell`, for every cell with a phase and, without
  `-m`, for every cell, from the type of the probe and the arithmetic of
  addresses: swapping the bytes of an address twice gives it
  back (`SwapTwice`), and the parts of a cell's number (`CellParts`) put
  together again by `calc_cell_addr` are the number (`SubstitutedAddress`).
- `AnswersLagBounded`: `AnswerLag`. The age alone is not inductive, because an
  answer grows older while it waits. `LagInv` bounds the age of a frame
  together with its place on the line, which is its age when it is taken: at
  most the frames left over, one more while a question is pending. A read may
  take several frames, or none but leave a rest: the bound falls by as many as
  have gone (`ReadWithin`, `ReadBound`), and damage changes no place
  (`SpoiltWithin`).

**The NTCIP link** (`NtcipProofs`), for any distinct objects, any lamps, any
number of requests under way and of faults, of any of the kinds the model has:

- `LampsWereShown`: `DbIsShown`. `DbInv` says that the line holds bytes, and
  check sequences only of messages the controller sent; that the place the
  reader takes for the first object follows from the first byte of the length
  (`HeadInv`); and so that what passes the check sequence and is parsed is a
  message that was sent (`GoodPacket`), wherever the reader started. The type
  invariant `TypeInv` is part of it.
- `ReaderAligned`: `Aligned`. The bytes on the line do not say where they
  belong, so the property is not inductive. `AlignInv` gives every one of them
  a label (a byte of a message, or the first or second half of an escaped one)
  so that labels next to each other follow each other and the reader waits for
  the byte the first label says. Reading a byte takes its label away
  (`ReadsAligned`); every answer, escaped and framed, can be labelled
  (`FrameCovers`), and a hit of the harmless kinds leaves a labelling
  (`HitCovers`). Escaping is the only part of the model computed over data: it
  is labelled byte by byte, by induction over how much of it is.

Both rest on the way the check sequence is modelled, as a token that fits only
the bytes it was computed from; damage that a real CRC misses is outside.

**The ramp meter** (`UrmsProofs`), for any lanes, commands, moments and number
of faults (`UrmsAssumption`):

- `UrmsTypes`: `TypeOK`, with the limits every rate and action sent obeys.
- `SwitchedOffStaysOff`: `NoControlHeld`; `ControlInv` adds that a command is
  on its way only while control is on, and that what the controller took is
  forgotten where the program is about to send again.
- `OnlyCommandsLeak`: `PollsDoNotLeak`, and `SignalGivesBack`: `ExitGivesBack`,
  both from `FdsInv`: at every call the open descriptors are the first ones,
  one for each command forwarded and one in use, which is the highest, and the
  one from before `setjmp` is the first, which is open whenever the program
  waits.

**Phase 170** (`Phase170Proofs`), for any plan with the order of intervals
`Phase170Assumption` names, any requests and any lag and silence within the
premises:

- `TypesKept`: `TypeInv`, the ranges, and the clocks of the 170E that a plan
  allows.
- `InvariantKept` and `OffInvariantKept`: what the program knows is right. A
  status tells of a moment that has passed, so everything is said in terms of
  `Fits`: the master clock, the local clock and the force-off the controller
  has now are those of a status `k` seconds old, moved on by `k` seconds. Of
  the status in the database and of the one taken over, `LinkInv` says that
  they fit. `PrioInv` says what a priority adds: when an early green or an
  extension was taken up (`EarlyOn`, `ExtensionOn`), how much of the cycle it
  moves (`ExtensionShown`, `CutShort`), and that there is a plan (`PlanKnown`).
  `OffInv` adds that its end is not missed (`EarlyOff`, `ExtensionOff`).
- `SavedAlwaysRight`: `SavedRight`, and `ExtensionAlwaysRed`: `ExtensionRed`,
  where no poll comes a whole cycle after the one before (`PollsInCycle`): a
  clock that has gone round cannot be told from one that stood still.
- `PriorityAlwaysGiven`: `PriorityIsGiven`, and `CountdownAlwaysRight`:
  `CountdownRight`, where a silence is also shorter than the green a priority
  waits for (`PollsOften`), for otherwise the program may see nothing of it.
  Both are premises on the poller, which is not in the repository; the run,
  with silences of seven seconds, satisfies them.

Only model-checked: the liveness properties `YellowEnds`, `LastPassShown`,
`OutputReopened`, `Stops`, `CallEnds`, `ProbeEnds`, `ReadEnds`, `Recorded` and
`GivenBack` (liveness is out of the prover's reach), and `AcceptedWasSent` of
`Ab3418Frame`: a check sequence of sixteen bits misses some damage, so it does
not hold for every set of answers, only for those of the instance.

## 5. What is not modelled, and the plan

- Of `phases`: overlaps (866-959), the `-t` message for CICAS (1137-1172), the
  reading of the configuration files (345-608; their contents are constants),
  the float rounding of the clock.
- Of AB3418: `rd3418`, which repeats the library's framing with reads that
  block; `set_min_max_green`, which calls `set_timing` with parameters the
  library no longer has; the variants of the poller that read a file, a USB
  port or TCP, which hunt for a device and send nothing of their own;
  `print_status`, output only.
- Of NTCIP: the encoding of requests in ASN.1 (abstracted to the objects asked
  for), and `signal_get_qnx6`, an earlier program of the same kind.
- Of URMS: `send_urms_data` and `receive_urms_data` (one datagram each),
  `hash.c` and the parts of `tos_lib.c` that are not linked into `urms`, the
  layout of the published status.
- Of phase 170: `snd_tsp_msg`, which formats what `phase170e` publishes.
- The EDI monitor and the comparison programs, variants of `phases` and tools
  for reading logs; the web pages, documents and controller binaries.
- The database server, timers and message queues are not in the repository and
  are used as external.

What a continuation would take up, in this order: `Overlap`, extending
`Phases` (parents, omitted phases, the shared `start_parentsred`); an abstract
request/answer specification which `Ab3418Poll` and `Ab3418Udp` both implement
while nothing is late.
