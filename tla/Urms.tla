-------------------------------- MODULE Urms ---------------------------------
(***************************************************************************)
(* urms/urms.c: the program that commands a ramp meter controller over     *)
(* TCP.  With a database it polls the controller on a timer, forwards the  *)
(* commands other programs write, and gives the meter back to the          *)
(* controller's own plan (action SKIP) outside the metering hours and when *)
(* it ends.  Standalone (-s) it reads the controller, sends one setting    *)
(* and ends.                                                               *)
(*                                                                         *)
(* The controller keeps an action and a rate for each lane.  Any call may  *)
(* fail, an answer may be cut short, or never come: no read has a time     *)
(* limit.  A signal may come at any call.                                  *)
(***************************************************************************)
EXTENDS Integers, FiniteSets, Sequences

CONSTANTS
  CommandLines, \* the options -n, -c and -T, in the order given
  Lane,         \* metered lanes, the first of them 1
  Commands,     \* commands other programs write
  Requests,     \* settings asked for on the command line, rate 0 for none
  Moments,      \* the time: day of the week of the PC, hour of the controller
  FirstSetting, \* settings a lane of the controller may start with
  MaxCommands, MaxFaults, MaxFds  \* bounds

SKIP == 6

Setting == [action : Int, rate : Int]
Command == [lane : [Lane -> Setting], no_control : BOOLEAN]
LaneOptions == [Lane -> Setting]   \* -1 to -6, -E to -J
Moment == [dow : 0..6, hour : 0..23]

\* -n, -c with "on", with another word or a bad address, and -T.
Option == {"no_control", "section_on", "section_off", "section_bad",
           "interval"}

ASSUME UrmsAssumption ==
  /\ CommandLines \subseteq Seq(Option)
  /\ 1 \in Lane
  /\ Commands \subseteq Command /\ Requests \subseteq LaneOptions
  /\ Moments \subseteq Moment
  /\ FirstSetting \subseteq Setting
  /\ MaxCommands \in Nat /\ MaxFaults \in Nat /\ MaxFds \in Nat

VARIABLES
  pc,        \* the call the program is about to make
  hung,      \* it has made that call and waits for an answer that never comes
  startup,   \* no_control_startup: the commands of the database are ignored
  address,   \* the address to connect to is one
  runtime,   \* no_control_runtime
  db_urms,   \* the program's copy of the command
  hour,      \* hour in the status buffer, which a short answer leaves alone
  urmsfd,    \* the program's descriptor of the connection
  setjmpfd,  \* its value when setjmp was called
  fds,       \* descriptors that are open
  meter,     \* what the controller does with each lane
  now,       \* the time
  db_var,    \* the command variable in the database
  triggers,  \* commands written and not yet noticed
  commands,  \* commands written so far
  faults,    \* calls that went wrong so far
  forwarded, \* observer: commands sent, each on a connection of its own
  heard      \* observer: the controller took the last message of Release

chosen == <<startup, address>>
program == <<pc, hung, chosen, runtime, db_urms, hour, urmsfd, setjmpfd>>
world == <<now, db_var, triggers, commands>>
vars == <<program, fds, meter, world, faults, forwarded, heard>>

Stopped == {"done", "failed"}
Alone == {"ask", "report", "tos_enable_detectors", "tos_set_action"}
Pc == {"open", "first", "wait", "connect_command",
       "send_command", "connect_poll", "poll", "connect_again", "release",
       "exit"}
      \cup Alone \cup Stopped

-----------------------------------------------------------------------------
(* The command line.                                                       *)

\* -c and -T cut their argument up into one array, and the section keeps
\* pointers into it: what the last of the two wrote is what the section says.
Section == {"section_on", "section_off"}
GivesSection(line) == \E i \in DOMAIN line : line[i] \in Section
StrSeg(line) ==
  line[CHOOSE i \in DOMAIN line :
         /\ line[i] \in Section \cup {"interval"}
         /\ \A j \in DOMAIN line :
              line[j] \in Section \cup {"interval"} => j <= i]

\* A section decides by its word alone, also against -n.
Startup(line) ==
  IF GivesSection(line) THEN StrSeg(line) # "section_on"
  ELSE \E i \in DOMAIN line : line[i] = "no_control"

\* The date of an interval is no address; nor is there one after a bad section,
\* which ends the program while it reads its options.
Address(line) ==
  /\ \A i \in DOMAIN line : line[i] # "section_bad"
  /\ GivesSection(line) => StrSeg(line) # "interval"

-----------------------------------------------------------------------------
(* The meter.                                                              *)

Clamp(s) ==
  [rate   |-> IF s.rate < 150 THEN 150 ELSE IF s.rate > 1100 THEN 1100
              ELSE s.rate,
   action |-> IF s.action < 1 \/ s.action > 7 THEN SKIP ELSE s.action]

\* The lanes as urms_set_meter sends them; the caller's record is clamped too.
Clamped(setting) == [l \in Lane |-> Clamp(setting[l])]

AllSkip(setting) == [l \in Lane |-> [setting[l] EXCEPT !.action = SKIP]]

Fault(n) == faults + n <= MaxFaults /\ faults' = faults + n

\* One urms_set_meter(fd, setting): the controller may take the message and
\* its answer be lost or damaged, the message may be lost, the write fail.
\* The answer is compared even if nothing was read, so what is returned after
\* a lost answer depends on what the stack holds.
SetMeter(fd, setting, retval) ==
  \/ /\ fd \in fds /\ retval = 0
     /\ meter' = Clamped(setting) /\ UNCHANGED faults
  \/ /\ fd \in fds /\ Fault(1) /\ retval \in {0, -1}
     /\ meter' \in {meter, Clamped(setting)}
  \/ /\ fd \in fds /\ Fault(1) /\ retval = -2
     /\ UNCHANGED meter
  \/ fd \notin fds /\ retval = -2 /\ UNCHANGED <<meter, faults>>

-----------------------------------------------------------------------------
(* Connections: socket() hands out the lowest descriptor that is free.     *)

Descriptor == 1..MaxFds
Lowest(free) == CHOOSE n \in free : \A m \in free : n <= m

\* OpenURMSConnection fails when the controller does not answer, or when the
\* table of descriptors is full; every caller then ends the program.
Connect(next) ==
  \/ /\ address /\ Descriptor \ fds # {}
     /\ urmsfd' = Lowest(Descriptor \ fds)
     /\ fds' = fds \cup {urmsfd'}
     /\ pc' = next /\ UNCHANGED faults
  \/ /\ IF address /\ Descriptor \ fds # {} THEN Fault(1) ELSE UNCHANGED faults
     /\ urmsfd' = -1 /\ pc' = "failed" /\ UNCHANGED fds

-----------------------------------------------------------------------------
(* Standalone.                                                             *)

\* metered_lane_rate_msb and _lsb.
Msb(rate) == (rate \div 256) % 256
Lsb(rate) == rate % 256

\* The rate read back for a lane whose rate was not asked for.  Lanes 3 and 4
\* take the upper byte from lane 1.
CurrentRate(l) ==
  Lsb(meter[l].rate) + 256 * Msb(meter[IF l > 2 THEN 1 ELSE l].rate)

StandaloneSetting(request) ==
  [l \in Lane |->
     IF request[l].rate # 0 THEN request[l]
     ELSE [action |-> meter[l].action, rate |-> CurrentRate(l)]]

\* The status is read; a controller under manual or police control is left
\* alone (cmd_src 1 and 2, some status says so).
Ask ==
  /\ pc = "ask"
  /\ \/ pc' = "failed" /\ (Fault(1) \/ UNCHANGED faults)
        /\ UNCHANGED db_urms
     \/ /\ pc' = "report" /\ UNCHANGED faults
        /\ \E request \in Requests :
             db_urms' = [db_urms EXCEPT !.lane = StandaloneSetting(request)]
  /\ UNCHANGED <<chosen, runtime, hour, urmsfd, setjmpfd, fds, meter, world,
                 forwarded, heard>>

\* The setting is sent, and the status read again for printing; nothing that
\* goes wrong here ends the program.
Report ==
  /\ pc = "report"
  /\ \E retval \in {0, -1, -2} : SetMeter(urmsfd, db_urms.lane, retval)
  /\ pc' = "tos_enable_detectors"
  /\ db_urms' = [db_urms EXCEPT !.lane = Clamped(@)]
  /\ UNCHANGED <<chosen, runtime, hour, urmsfd, setjmpfd, fds, world, forwarded,
                 heard>>

\* The messages of the other protocol (TOS), if asked for: the detectors, whose
\* answer is read and not looked at, then the actions, which have none.  Only a
\* failed write counts.
TosEnableDetectors ==
  /\ pc = "tos_enable_detectors"
  /\ \/ pc' = "tos_set_action" /\ UNCHANGED faults
     \/ pc' = "failed" /\ Fault(1)
  /\ UNCHANGED <<chosen, runtime, db_urms, hour, urmsfd, setjmpfd, fds, meter,
                 world, forwarded, heard>>

TosSetAction ==
  /\ pc = "tos_set_action"
  /\ \/ pc' = "done" /\ UNCHANGED faults
     \/ pc' = "failed" /\ Fault(1)
  /\ fds' = {}
  /\ UNCHANGED <<chosen, runtime, db_urms, hour, urmsfd, setjmpfd, meter, world,
                 forwarded, heard>>

-----------------------------------------------------------------------------
(* With the database: the start.                                           *)

Zero == [lane |-> [l \in Lane |-> [action |-> 0, rate |-> 0]],
         no_control |-> FALSE]

Init ==
  /\ pc = "open" /\ hung = FALSE /\ runtime = TRUE
  /\ \E line \in CommandLines :
       startup = Startup(line) /\ address = Address(line)
  /\ db_urms = Zero
  /\ hour \in 0..23                        \* the buffer is not initialized
  /\ urmsfd = -1 /\ setjmpfd = -1 /\ fds = {}
  /\ meter \in [Lane -> FirstSetting]
  /\ now \in Moments /\ db_var = Zero
  /\ triggers = 0 /\ commands = 0 /\ faults = 0
  /\ forwarded = 0 /\ heard = FALSE

\* The connection, then setjmp: from here on a signal runs the exit handler.
Open ==
  /\ pc = "open" /\ \E mode \in {"ask", "first"} : Connect(mode)
  /\ setjmpfd' = urmsfd'
  /\ UNCHANGED <<chosen, runtime, db_urms, hour, meter, world, forwarded,
                 heard>>

\* Does urms_get_status return 0?  A short answer counts as a whole one: the
\* hour in the buffer stays what it was.
Answered == \/ hour' = now.hour /\ UNCHANGED faults
            \/ hour' = hour /\ Fault(1)
NotAnswered == hour' = hour /\ Fault(1)

First ==
  /\ pc = "first"
  /\ \/ pc' = "wait" /\ Answered
     \/ pc' = "failed" /\ NotAnswered
  /\ UNCHANGED <<chosen, runtime, db_urms, urmsfd, setjmpfd, fds, meter,
                 world, forwarded, heard>>

-----------------------------------------------------------------------------
(* A command in the database.                                              *)

\* A faulty variant of the next definition: no_control is tested on its own.
WakeCommandUnchecked ==
  /\ pc = "wait" /\ triggers > 0
  /\ triggers' = triggers - 1 /\ db_urms' = db_var
  /\ pc' = IF startup THEN "wait" ELSE "connect_command"
  /\ UNCHANGED <<chosen, runtime, hour, urmsfd, setjmpfd, fds, meter, now,
                 db_var, commands, faults, forwarded, heard>>

\* The command is read, and forwarded unless control is switched off.
WakeCommand ==
  /\ pc = "wait" /\ triggers > 0
  /\ triggers' = triggers - 1 /\ db_urms' = db_var
  /\ pc' = IF startup \/ runtime THEN "wait" ELSE "connect_command"
  /\ UNCHANGED <<chosen, runtime, hour, urmsfd, setjmpfd, fds, meter, now,
                 db_var, commands, faults, forwarded, heard>>

\* A new connection; the one in use is not closed.
ConnectCommand ==
  /\ pc = "connect_command" /\ Connect("send_command")
  /\ UNCHANGED <<chosen, runtime, db_urms, hour, setjmpfd, meter, world,
                 forwarded, heard>>

\* A faulty variant of the next definition: the connection is closed again, as
\* a line commented out in the program had it.
SendCommandClosing ==
  /\ pc = "send_command"
  /\ \E retval \in {0, -1, -2} :
       /\ SetMeter(urmsfd, db_urms.lane, retval)
       /\ pc' = IF retval < 0 THEN "failed" ELSE "wait"
  /\ db_urms' = [db_urms EXCEPT !.lane = Clamped(@)]
  /\ forwarded' = forwarded + 1 /\ fds' = fds \ {urmsfd}
  /\ UNCHANGED <<chosen, runtime, hour, urmsfd, setjmpfd, world, heard>>

\* An error of urms_set_meter ends the program here, without SKIP.
SendCommand ==
  /\ pc = "send_command"
  /\ \E retval \in {0, -1, -2} :
       /\ SetMeter(urmsfd, db_urms.lane, retval)
       /\ pc' = IF retval < 0 THEN "failed" ELSE "wait"
  /\ db_urms' = [db_urms EXCEPT !.lane = Clamped(@)]
  /\ forwarded' = forwarded + 1
  /\ UNCHANGED <<chosen, runtime, hour, urmsfd, setjmpfd, fds, world, heard>>

-----------------------------------------------------------------------------
(* The timer.                                                              *)

\* A faulty variant of the next definition: the old connection stays open.
WakeTimerLeak ==
  /\ pc = "wait" /\ pc' = "connect_poll"
  /\ UNCHANGED <<chosen, runtime, db_urms, hour, urmsfd, setjmpfd, fds, meter,
                 world, faults, forwarded, heard>>

WakeTimer ==
  /\ pc = "wait" /\ pc' = "connect_poll" /\ fds' = fds \ {urmsfd}
  /\ UNCHANGED <<chosen, runtime, db_urms, hour, urmsfd, setjmpfd, meter,
                 world, faults, forwarded, heard>>

ConnectPoll ==
  /\ pc = "connect_poll" /\ Connect("poll")
  /\ UNCHANGED <<chosen, runtime, db_urms, hour, setjmpfd, meter, world,
                 forwarded, heard>>

Closed(moment) == moment.dow \in {0, 6} \/ moment.hour \notin 7..9

\* The status is read.  Outside the metering hours, or when the last command
\* read says so, control is switched off.
Poll ==
  /\ pc = "poll"
  /\ \/ /\ Answered
        /\ runtime' = \/ Closed([now EXCEPT !.hour = hour'])
                      \/ db_urms.no_control \/ startup
        /\ pc' = IF runtime' THEN "release" ELSE "wait"
        /\ heard' = (heard /\ ~runtime')
        /\ UNCHANGED fds
     \/ /\ NotAnswered
        /\ pc' = "connect_again" /\ fds' = fds \ {urmsfd}
        /\ UNCHANGED <<runtime, heard>>
  /\ UNCHANGED <<chosen, db_urms, urmsfd, setjmpfd, meter, world, forwarded>>

\* No status: nothing is decided and nothing published until the next timer.
ConnectAgain ==
  /\ pc = "connect_again" /\ Connect("wait")
  /\ UNCHANGED <<chosen, runtime, db_urms, hour, setjmpfd, meter, world,
                 forwarded, heard>>

\* A faulty variant of the next definition: lane 1 only.
ReleaseFirstLane ==
  /\ pc = "release" /\ pc' = "wait"
  /\ LET skip == [db_urms.lane EXCEPT ![1].action = SKIP] IN
       /\ \E retval \in {0, -1, -2} : SetMeter(urmsfd, skip, retval)
       /\ db_urms' = [db_urms EXCEPT !.lane = Clamped(skip)]
  /\ heard' = (faults' = faults)
  /\ UNCHANGED <<chosen, runtime, hour, urmsfd, setjmpfd, fds, world,
                 forwarded>>

\* Every lane is given back; an error is only printed.
Release ==
  /\ pc = "release" /\ pc' = "wait"
  /\ LET skip == AllSkip(db_urms.lane) IN
       /\ \E retval \in {0, -1, -2} : SetMeter(urmsfd, skip, retval)
       /\ db_urms' = [db_urms EXCEPT !.lane = Clamped(skip)]
  /\ heard' = (faults' = faults)
  /\ UNCHANGED <<chosen, runtime, hour, urmsfd, setjmpfd, fds, world,
                 forwarded>>

-----------------------------------------------------------------------------
(* An answer that never comes.  The controller may have taken the message; *)
(* the connection stays up, and read() waits for ever.  (An answer that    *)
(* comes late, or a connection that ends, is a call that takes long.)      *)

Sets == {"report", "send_command", "release"}
Reads == {"ask", "tos_enable_detectors", "first", "poll"} \cup Sets

Hang ==
  /\ pc \in Reads /\ hung' = TRUE /\ Fault(1)
  /\ IF pc \in Sets
     THEN LET sent == IF pc = "release" THEN AllSkip(db_urms.lane)
                                        ELSE db_urms.lane IN
            /\ meter' \in {meter, Clamped(sent)}
            /\ db_urms' = [db_urms EXCEPT !.lane = Clamped(sent)]
     ELSE UNCHANGED <<meter, db_urms>>
  /\ UNCHANGED <<pc, chosen, runtime, hour, urmsfd, setjmpfd, fds, world,
                 forwarded, heard>>

-----------------------------------------------------------------------------
(* A signal at any call after setjmp, also in a read.  The handler sends   *)
(* SKIP on urmsfd, which is not volatile: after longjmp it holds its value *)
(* or the one it had at setjmp.  While a connection is being opened the    *)
(* socket with the number of the old one is not connected, and the write   *)
(* fails.                                                                  *)

Interruptible == pc \notin {"open"} \cup Alone \cup Stopped

Signal ==
  /\ Interruptible
  /\ \E fd \in {urmsfd, setjmpfd} :
       IF startup THEN UNCHANGED <<meter, faults>>
       ELSE \E retval \in {0, -1, -2} :
              SetMeter(fd, AllSkip(db_urms.lane), retval)
  /\ pc' = "done" /\ hung' = FALSE /\ fds' = {}
  /\ db_urms' = [db_urms EXCEPT !.lane =
                   IF startup THEN AllSkip(@) ELSE Clamped(AllSkip(@))]
  /\ UNCHANGED <<chosen, runtime, hour, urmsfd, setjmpfd, world, forwarded,
                 heard>>

\* The handler waits for the answer to SKIP as every other call does; only
\* another signal gets it out of there.
SignalHangs ==
  /\ Interruptible /\ ~startup
  /\ {urmsfd, setjmpfd} \cap fds # {} /\ Fault(1)
  /\ meter' \in {meter, Clamped(AllSkip(db_urms.lane))}
  /\ pc' = "exit" /\ hung' = TRUE
  /\ db_urms' = [db_urms EXCEPT !.lane = Clamped(AllSkip(@))]
  /\ UNCHANGED <<chosen, runtime, hour, urmsfd, setjmpfd, fds, world,
                 forwarded, heard>>

-----------------------------------------------------------------------------
(* The other programs and the clock.                                       *)

WriteCommand ==
  /\ commands < MaxCommands /\ commands' = commands + 1
  /\ db_var' \in Commands /\ triggers' = triggers + 1
  /\ UNCHANGED <<program, fds, meter, now, faults, forwarded, heard>>

Tick ==
  /\ now' \in Moments
  /\ UNCHANGED <<program, fds, meter, db_var, triggers, commands, faults,
                 forwarded, heard>>

Return == \/ Open \/ First
          \/ Ask \/ Report \/ TosEnableDetectors \/ TosSetAction
          \/ WakeCommand \/ ConnectCommand \/ SendCommand
          \/ WakeTimer \/ ConnectPoll \/ Poll \/ ConnectAgain \/ Release

Run == ~hung /\ ((Return /\ hung' = FALSE) \/ Hang)

Next == Run \/ Signal \/ SignalHangs \/ WriteCommand \/ Tick

\* A call returns unless it waits for an answer that never comes, and the
\* timer pulses.  Nothing brings such an answer, and no signal need come.
Fairness == WF_vars(Run)
Spec == Init /\ [][Next]_vars /\ Fairness

-----------------------------------------------------------------------------
(* Properties.                                                             *)

Sent == [action : 1..7, rate : 150..1100]

\* Types.  What the controller holds is a setting it may start with or one
\* that passed the limits of urms_set_meter.
TypeOK ==
  /\ pc \in Pc /\ hung \in BOOLEAN /\ startup \in BOOLEAN /\ address \in BOOLEAN
  /\ runtime \in BOOLEAN
  /\ db_urms \in Command /\ db_var \in Command
  /\ hour \in 0..23
  /\ urmsfd \in Descriptor \cup {-1} /\ setjmpfd \in Descriptor \cup {-1}
  /\ fds \subseteq Descriptor
  /\ meter \in [Lane -> FirstSetting \cup Sent]
  /\ now \in Moments
  /\ triggers \in Nat /\ commands \in Nat /\ faults \in Nat
  /\ forwarded \in Nat /\ heard \in BOOLEAN

Given == \A l \in Lane : meter[l].action = SKIP

\* While control is switched off (metering hours over, weekend, no_control,
\* -n) and the controller took the SKIP that was sent then, no lane is
\* commanded: commands that come meanwhile do not get through, also in the
\* polls whose status cannot be read.
NoControlHeld == runtime /\ heard => Given

\* Only a forwarded command leaves a connection open behind it: polls, also
\* those that fail and connect a second time, do not use up descriptors.
PollsDoNotLeak ==
  pc \notin {"send_command", "exit"} => Cardinality(fds) <= 1 + forwarded

\* A signal that finds the program waiting gives every lane back, whatever
\* longjmp makes of urmsfd, unless a call fails: both values it may have are
\* open connections to the controller, however many were opened since.
ExitGivesBack ==
  [][pc = "wait" /\ pc' = "done" /\ ~startup /\ faults' = faults => Given']_vars

\* Once the metering hours are over for good, every lane is given back for
\* good, or the program has ended (after an error it ends without SKIP), or it
\* waits in a read for an answer that never comes: no other mixture of lost,
\* late and short answers, commands and reconnections leaves a lane commanded.
GivenBack == <>[]Closed(now) => <>[](Given \/ pc \in Stopped \/ hung)
=============================================================================
