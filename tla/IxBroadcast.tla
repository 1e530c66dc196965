---------------------------- MODULE IxBroadcast -----------------------------
(***************************************************************************)
(* The intersection message from phases to a vehicle.  Three processes:    *)
(* phases writes DB_IX_MSG_VAR and then DB_IX_APPROACH1_VAR and the next   *)
(* ones, one database call each; snd_ix_msg reads them back one by one     *)
(* with no lock, makes a datagram and broadcasts it by UDP; rcv_ix_msg     *)
(* takes whatever arrives.                                                 *)
(*                                                                         *)
(* A value is the number of the pass of phases that published it, 0 if     *)
(* none did.  The seconds field of the header stands for that number, the  *)
(* fields that never change but num_approaches are left out, and so is the *)
(* byte order, swapped by the same routines at both ends.                  *)
(***************************************************************************)
EXTENDS Integers, FiniteSets

CONSTANTS
  N,         \* num_approaches of the intersection
  MaxSlot,   \* the most approaches a header may announce
  Junk,      \* the announced numbers when no header has been published yet
  Capacity,  \* the approaches a datagram has room for
  MaxPass,   \* BOUND: passes of phases
  MaxAir     \* BOUND: datagrams on their way

ASSUME BroadcastAssumption ==
  /\ N \in Nat /\ MaxSlot \in Nat /\ N <= MaxSlot
  /\ Junk \subseteq 0 .. MaxSlot
  /\ Capacity \in Nat /\ N <= Capacity
  /\ MaxPass \in Nat /\ MaxAir \in Nat \ {0}

VARIABLES
  hdr,      \* DB_IX_MSG_VAR
  appr,     \* DB_IX_APPROACHi_VAR
  next,     \* phases: the approach it writes next, 0 between two passes
  rpc,      \* snd_ix_msg: "header", "approach", "format" or "wait"
  upto,     \* snd_ix_msg: the approaches read so far
  pmsg,     \* snd_ix_msg: the message being read
  air,      \* the datagrams on their way
  shown,    \* rcv_ix_msg: the message extracted last
  quiet     \* observer: phases has published nothing since pmsg was begun

dbvars == <<hdr, appr, next>>
sndvars == <<rpc, upto, pmsg>>
vars   == <<dbvars, sndvars, air, shown, quiet>>

Slot == 1 .. MaxSlot

Message ==
  [seconds : Nat, num_approaches : 0 .. MaxSlot, approach : [Slot -> Nat]]

Nothing ==
  [seconds |-> 0, num_approaches |-> 0, approach |-> [i \in Slot |-> 0]]

Init ==
  /\ hdr = 0 /\ appr = [i \in Slot |-> 0] /\ next = 0
  /\ rpc = "header" /\ upto = 0 /\ pmsg = Nothing
  /\ air = {} /\ shown = Nothing /\ quiet = FALSE

-----------------------------------------------------------------------------
(* phases: publishing one pass.                                            *)

WriteHeader ==
  /\ next = 0 /\ hdr < MaxPass
  /\ hdr' = hdr + 1
  /\ next' = IF N = 0 THEN 0 ELSE 1
  /\ quiet' = FALSE
  /\ UNCHANGED <<appr, sndvars, air, shown>>

\* A faulty variant of the next definition: the last approach is not written.
WriteApproachShort ==
  /\ next # 0
  /\ appr' = IF next < N THEN [appr EXCEPT ![next] = hdr] ELSE appr
  /\ next' = IF next < N THEN next + 1 ELSE 0
  /\ quiet' = FALSE
  /\ UNCHANGED <<hdr, sndvars, air, shown>>

WriteApproach ==
  /\ next # 0
  /\ appr' = [appr EXCEPT ![next] = hdr]
  /\ next' = IF next < N THEN next + 1 ELSE 0
  /\ quiet' = FALSE
  /\ UNCHANGED <<hdr, sndvars, air, shown>>

-----------------------------------------------------------------------------
(* snd_ix_msg: reading, formatting, sending.                               *)

\* The header; one that was never published may hold any number of approaches.
ReadHeader ==
  /\ rpc = "header"
  /\ \E n \in IF hdr = 0 THEN Junk ELSE {N} :
       pmsg' = [pmsg EXCEPT !.seconds = hdr, !.num_approaches = n]
  /\ rpc' = "approach"
  /\ upto' = 0
  /\ quiet' = (next = 0)
  /\ UNCHANGED <<dbvars, air, shown>>

\* A faulty variant of the next definition: the approaches are read backwards.
ReadApproachBackwards ==
  /\ rpc = "approach"
  /\ IF upto < pmsg.num_approaches
     THEN LET i == pmsg.num_approaches - upto
          IN  /\ pmsg' = [pmsg EXCEPT !.approach[i] = appr[i]]
              /\ upto' = upto + 1
              /\ rpc' = rpc
     ELSE rpc' = "format" /\ UNCHANGED <<upto, pmsg>>
  /\ UNCHANGED <<dbvars, air, shown, quiet>>

ReadApproach ==
  /\ rpc = "approach"
  /\ IF upto < pmsg.num_approaches
     THEN /\ pmsg' = [pmsg EXCEPT !.approach[upto + 1] = appr[upto + 1]]
          /\ upto' = upto + 1
          /\ rpc' = rpc
     ELSE rpc' = "format" /\ UNCHANGED <<upto, pmsg>>
  /\ UNCHANGED <<dbvars, air, shown, quiet>>

\* A faulty variant of the next definition: a full datagram is refused too.
FitsStrict(m) == m.num_approaches < Capacity

\* ix_msg_format refuses a message that does not fit the send buffer.
Fits(m) == m.num_approaches <= Capacity

\* "Message formatting error": read again at once, without the timer wait.
FormatError ==
  /\ rpc = "format" /\ ~Fits(pmsg)
  /\ rpc' = "header"
  /\ UNCHANGED <<dbvars, upto, pmsg, air, shown, quiet>>

\* sendto: the datagram sets out, or is dropped at once.
Send ==
  /\ rpc = "format" /\ Fits(pmsg)
  /\ rpc' = "wait"
  /\ \/ air' = air
     \/ Cardinality(air) < MaxAir /\ air' = air \cup {pmsg}
  /\ UNCHANGED <<dbvars, upto, pmsg, shown, quiet>>

TimerWait ==
  /\ rpc = "wait"
  /\ rpc' = "header"
  /\ UNCHANGED <<dbvars, upto, pmsg, air, shown, quiet>>

-----------------------------------------------------------------------------
(* The network and rcv_ix_msg.                                             *)

Lose ==
  /\ \E m \in air : air' = air \ {m}
  /\ UNCHANGED <<dbvars, sndvars, shown, quiet>>

\* UDP may deliver a datagram again, and in any order.
Receive(m) ==
  /\ m \in air
  /\ shown' = m
  /\ air' \in {air, air \ {m}}
  /\ UNCHANGED <<dbvars, sndvars, quiet>>

Publishes == WriteHeader \/ WriteApproach
Sends     == ReadHeader \/ ReadApproach \/ FormatError \/ Send \/ TimerWait

Next == Publishes \/ Sends \/ Lose \/ \E m \in air : Receive(m)

Spec == Init /\ [][Next]_vars

\* Is the whole of m what pass n published?
Whole(m, n) ==
  m.seconds = n /\ m.num_approaches = N /\ \A i \in 1 .. N : m.approach[i] = n

\* Datagrams leave the network one way or another; those of the last pass are
\* neither dropped for ever nor passed over for ever.
Drains == (Lose \/ \E m \in air : Receive(m)) /\ air' # air

FairNetwork ==
  /\ WF_vars(Drains)
  /\ SF_vars(Send /\ pmsg \in air')
  /\ SF_vars(\E m \in air : Whole(m, MaxPass) /\ Receive(m))

\* The processes run on.
FairSpec == Spec /\ WF_vars(Publishes) /\ WF_vars(Sends) /\ FairNetwork

-----------------------------------------------------------------------------
TypeOK ==
  /\ hdr \in 0 .. MaxPass /\ appr \in [Slot -> Nat] /\ next \in 0 .. N
  /\ rpc \in {"header", "approach", "format", "wait"}
  /\ upto \in Nat /\ pmsg \in Message
  /\ air \subseteq Message /\ shown \in Message /\ quiet \in BOOLEAN

\* A datagram whose reading no write of phases overlapped is the whole of one
\* pass: the approaches of the header's pass, all of them and no other.
QuietReadIsWhole ==
  rpc = "format" /\ quiet /\ pmsg.seconds > 0 => Whole(pmsg, pmsg.seconds)

\* However the reads of snd_ix_msg and the writes of phases interleave, and
\* whatever the network does, what a vehicle is shown mixes neighbouring
\* passes only: no approach is more than one pass older than the header's time
\* stamp, nor than an approach before it in the message.
Mix == INSTANCE IxMixture WITH newest <- hdr

ShownMixture == Mix!MSpec

\* Without acknowledgement or retry in the protocol, a lost datagram is made
\* good by the next one: once phases stops publishing, a vehicle is shown the
\* whole last pass.
LastPassShown == hdr = MaxPass ~> Whole(shown, MaxPass)
=============================================================================
