----------------------------- MODULE Ab3418Poll ------------------------------
(***************************************************************************)
(* ab3418comm polling a 2070 controller over RS-232 (ab3418/ab3418comm.c   *)
(* with -D, and the calls of ab3418_lib.c it makes): it asks for the long  *)
(* status, publishes the answer, asks for the short status, publishes that *)
(* answer, and opens the port again when an answer does not come or is     *)
(* damaged.                                                                *)
(*                                                                         *)
(* A request carries no number and the type of an answer is not compared   *)
(* with what was asked for: whatever frame is first in the input is the    *)
(* answer.  The controller answers in order; an answer may be late, lost   *)
(* or damaged, and noise may look like a frame.                            *)
(***************************************************************************)
EXTENDS Naturals, Sequences

CONSTANTS
  MaxAge,   \* an answer is overtaken by at most so many later requests
  MaxInput  \* noise comes only while the input holds fewer frames

ASSUME PollAssumption == MaxAge \in Nat /\ MaxInput \in Nat

VARIABLES
  pc,         \* where the program waits
  job,        \* the call in progress, or the last one: what it asks for
  boot,       \* before the endless loop
  fpout,      \* the port is open for output
  due,        \* requests the controller has not answered
  input,      \* frames received and not read
  db_status,  \* the status variable
  db_short,   \* DB_SHORT_STATUS_VAR (and the poller's own copy, greens)
  healed      \* observer: the input was emptied with no answer on its way
              \* when the port was last opened again

vars == <<pc, job, boot, fpout, due, input, db_status, db_short, healed>>

Asks == {"time", "long", "short"}

\* The age of a request or an answer: how many requests were made after it.
Request == [asks : Asks, age : Nat]

\* A frame that fails the check sequence, is cut, or is no message at all.
Damaged == [asks |-> "nothing", age |-> 0]
Frame == Request \cup {Damaged}

NeverWritten == [asks |-> "unset", age |-> 0]

TypeOK ==
  /\ pc \in {"receive", "pattern", "ask", "await", "reopen", "open_out"}
  /\ job \in Asks \cup {"start"}
  /\ boot \in BOOLEAN /\ fpout \in BOOLEAN /\ healed \in BOOLEAN
  /\ due \in Seq(Request) /\ input \in Seq(Frame)
  /\ db_status \in Request \cup {NeverWritten}
  /\ db_short \in Request \cup {NeverWritten}
  /\ pc \in {"ask", "await"} => job # "start"
  /\ boot => db_status = NeverWritten /\ db_short = NeverWritten /\ ~healed

Init ==
  /\ pc = "reopen" /\ job = "start" /\ boot = TRUE /\ fpout = FALSE
  /\ due = <<>> /\ input = <<>>
  /\ db_status = NeverWritten /\ db_short = NeverWritten
  /\ healed = FALSE

-----------------------------------------------------------------------------
(* The order of the calls: the time, the long status and the short status  *)
(* once, then the long and the short status for ever.                      *)

Return ==
  IF job = "short" THEN pc' = "receive" /\ boot' = FALSE /\ UNCHANGED job
  ELSE /\ pc' = "ask" /\ UNCHANGED boot
       /\ job' = CASE job = "start" -> "time" [] job = "time" -> "long"
                   [] job = "long" -> "short"

\* A faulty variant of the next definition: only a time-out reopens the port.
FailTimeoutOnly(retval) ==
  IF ~boot /\ retval = "-2" THEN pc' = "reopen" /\ UNCHANGED <<job, boot>>
  ELSE Return

\* A call returns a negative value.  Before the loop nobody looks at it; in
\* the loop -1 (lost) and -2 (no input) have the port opened again.
Fail(retval) ==
  IF ~boot /\ retval \in {"-1", "-2"}
  THEN pc' = "reopen" /\ UNCHANGED <<job, boot>>
  ELSE Return

-----------------------------------------------------------------------------
(* get_status, get_short_status and set_time.                              *)

Older(seq) == [i \in DOMAIN seq |->
                 IF seq[i] = Damaged THEN Damaged
                 ELSE [seq[i] EXCEPT !.age = @ + 1]]

Unanswered(seq) == Append(seq, [asks |-> job, age |-> 0])

Ask ==
  /\ pc = "ask" /\ fpout
  /\ pc' = "await"
  /\ due' = Unanswered(Older(due)) /\ input' = Older(input)
  /\ UNCHANGED <<job, boot, fpout, db_status, db_short, healed>>

\* The port is not open (set_time does not look; its select fails), ...
AskClosed ==
  /\ pc = "ask" /\ ~fpout
  /\ Fail(IF job = "time" THEN "-3" ELSE "-1")
  /\ UNCHANGED <<fpout, due, input, db_status, db_short, healed>>

\* ... or takes no output for a second.
AskStuck ==
  /\ pc = "ask" /\ fpout
  /\ Fail("-3")
  /\ UNCHANGED <<fpout, due, input, db_status, db_short, healed>>

\* What the program waits for or sleeps through has come, or is that late.
MayBeLate == IF due = <<>> THEN TRUE ELSE Head(due).age < MaxAge

TimeOut ==
  /\ pc = "await" /\ input = <<>> /\ MayBeLate
  /\ Fail("-2")
  /\ UNCHANGED <<fpout, due, input, db_status, db_short, healed>>

ReadDamaged ==
  /\ pc = "await" /\ input # <<>> /\ Head(input) = Damaged
  /\ input' = Tail(input)
  /\ Fail("-1")
  /\ UNCHANGED <<fpout, due, db_status, db_short, healed>>

Publish(message) ==
  /\ db_status' = IF job = "long" /\ ~boot THEN message ELSE db_status
  /\ db_short' = IF job = "short" /\ ~boot THEN message ELSE db_short

Read ==
  /\ pc = "await" /\ input # <<>> /\ Head(input) # Damaged
  /\ input' = Tail(input)
  /\ Publish(Head(input))
  /\ Return
  /\ UNCHANGED <<fpout, due, healed>>

-----------------------------------------------------------------------------
(* check_and_reconnect_serial.                                             *)

\* A faulty variant of the next definition: without tcflush.
OpenInputUnflushed ==
  /\ pc = "reopen" /\ MayBeLate
  /\ pc' = "open_out"
  /\ healed' = (~boot /\ due = <<>>)
  /\ UNCHANGED <<job, boot, fpout, due, input, db_status, db_short>>

\* Close both, open for input until that works, sleep and flush the input.
OpenInput ==
  /\ pc = "reopen" /\ MayBeLate
  /\ pc' = "open_out"
  /\ input' = <<>>
  /\ healed' = (~boot /\ due = <<>>)
  /\ UNCHANGED <<job, boot, fpout, due, db_status, db_short>>

\* Open for output, which may fail; nobody looks at the value returned.
OpenOutput(works) ==
  /\ pc = "open_out"
  /\ fpout' = works
  /\ Return
  /\ UNCHANGED <<due, input, db_status, db_short, healed>>

-----------------------------------------------------------------------------
(* The endless loop: a trigger of the set-pattern variable, or a poll.     *)

\* set_pattern uses sendto on the serial port, which sends nothing; it then
\* waits for input up to ten seconds and reads none of it.
PatternTrigger ==
  /\ pc = "receive"
  /\ pc' = "pattern"
  /\ UNCHANGED <<job, boot, fpout, due, input, db_status, db_short, healed>>

SetPattern ==
  /\ pc = "pattern"
  /\ pc' = "receive"
  /\ UNCHANGED <<job, boot, fpout, due, input, db_status, db_short, healed>>

Poll ==
  /\ pc = "receive"
  /\ pc' = "ask" /\ job' = "long"
  /\ UNCHANGED <<boot, fpout, due, input, db_status, db_short, healed>>

-----------------------------------------------------------------------------
(* The controller and the line.                                            *)

program == <<pc, job, boot, fpout, db_status, db_short, healed>>

Answer ==
  /\ due # <<>>
  /\ due' = Tail(due)
  /\ input' \in {Append(input, Head(due)), Append(input, Damaged)}
  /\ UNCHANGED program

Lose ==
  /\ due # <<>>
  /\ due' = Tail(due)
  /\ UNCHANGED <<input, program>>

Noise ==
  /\ Len(input) < MaxInput
  /\ input' = Append(input, Damaged)
  /\ UNCHANGED <<due, program>>

-----------------------------------------------------------------------------
Asking == Ask \/ AskClosed \/ AskStuck
Awaiting == TimeOut \/ ReadDamaged \/ Read
Reopening == OpenInput \/ \E works \in BOOLEAN : OpenOutput(works)

Next ==
  \/ Asking \/ Awaiting \/ Reopening
  \/ PatternTrigger \/ SetPattern \/ Poll
  \/ Answer \/ Lose \/ Noise

\* The program goes on; triggers are received in the order of their arrival,
\* so patterns do not keep a poll away; a port that is opened again and again
\* opens at last; an answer comes or is lost.
Fairness ==
  /\ WF_vars(Asking) /\ WF_vars(Awaiting) /\ WF_vars(Reopening)
  /\ SF_vars(Poll) /\ WF_vars(SetPattern)
  /\ SF_vars(OpenOutput(TRUE))
  /\ WF_vars(Answer \/ Lose)

Spec == Init /\ [][Next]_vars /\ Fairness

-----------------------------------------------------------------------------
(* Opening the port again puts questions and answers back in step: if no   *)
(* answer was on its way when the input was emptied in                     *)
(* check_and_reconnect_serial, then get_status and get_short_status read   *)
(* the answer to the question they have just asked, in spite of losses,    *)
(* damage and noise, until the port is opened again.                       *)
InStep ==
  healed /\ pc = "await" /\ input # <<>> /\ Head(input) # Damaged =>
    Head(input) = [asks |-> job, age |-> 0]

(* A port that could not be opened for output is not left closed: the next *)
(* call of get_status or get_short_status notices and has it opened again. *)
OutputReopened == ~fpout ~> fpout
=============================================================================
