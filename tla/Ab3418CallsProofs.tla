-------------------------- MODULE Ab3418CallsProofs --------------------------
(***************************************************************************)
(* Proofs about Ab3418Calls, for any ranges of cells, any bytes and any    *)
(* number of frames left over: types, how old the frame is that a call     *)
(* takes, and which cell a probe substitutes.                              *)
(***************************************************************************)
EXTENDS Ab3418Calls, SequenceTheorems, TLAPS

-----------------------------------------------------------------------------
(* Addresses.  The solver writes out a range with literal bounds, so the   *)
(* range of a short integer is given as two inequalities.                  *)

LEMMA ShortMember ==
  \A n : n \in UnsignedShort <=> n \in Int /\ 0 <= n /\ n <= 65535
  <1> DEFINE max == 65535
  <1>1. UnsignedShort = 0 .. max
    BY DEF UnsignedShort
  <1>2. max \in Int
    OBVIOUS
  <1> HIDE DEF max
  <1>3. \A n : n \in 0 .. max <=> n \in Int /\ 0 <= n /\ n <= max
    BY <1>2
  <1>4. \A n : n \in UnsignedShort <=> n \in Int /\ 0 <= n /\ n <= max
    BY <1>1, <1>3, Zenon
  <1> QED
    BY <1>4 DEF max

LEMMA SwapTwice ==
  ASSUME NEW address \in UnsignedShort
  PROVE  Swap(address) \in UnsignedShort /\ Swap(Swap(address)) = address
  <1> DEFINE low == address % 256
             high == address \div 256
  <1>1. /\ low \in Int /\ 0 <= low /\ low <= 255
        /\ high \in Int /\ 0 <= high /\ high <= 255
        /\ address = high * 256 + low
    BY ShortMember
  <1>2. Swap(address) = low * 256 + high
    BY DEF Swap
  <1> HIDE DEF low, high
  <1>3. Swap(address) % 256 = high /\ Swap(address) \div 256 = low
    BY <1>1, <1>2
  <1>4. Swap(Swap(address)) = high * 256 + low
    BY <1>3 DEF Swap
  <1> QED
    BY <1>1, <1>2, <1>4, ShortMember

\* A cell is in a page, and there has a phase and a place in its block.
LEMMA CellParts ==
  ASSUME NEW i \in UnsignedShort
  PROVE  \E page, place \in Int :
           /\ i = page * 256 + PhaseOf(i) * 16 + place
           /\ PhaseOf(i) \in Int /\ 0 <= PhaseOf(i) /\ PhaseOf(i) <= 15
           /\ 0 <= place /\ place <= 15
           /\ PhaseOne(i) = page * 256 + place + 16
  <1> DEFINE page == i \div 256
             block == i \div 16
             phase == block % 16
             place == i % 16
  <1>1. i \in Int /\ 0 <= i
    BY ShortMember
  <1>2. /\ page \in Int /\ block \in Int /\ place \in Int
        /\ 0 <= place /\ place <= 15 /\ i = block * 16 + place
    BY <1>1
  <1>3. /\ block \div 16 = page
        /\ block = page * 16 + phase
        /\ 0 <= phase /\ phase <= 15 /\ phase \in Int
    BY <1>1
  <1>4. PhaseOf(i) = phase /\ PhaseOne(i) = page * 256 + place + 16
    BY <1>2 DEF PhaseOf, PhaseOne
  <1> HIDE DEF page, block, phase, place
  <1>5. i = page * 256 + phase * 16 + place
    BY <1>2, <1>3
  <1>6. page \in Int
    BY <1>2
  <1> USE <1>2, <1>6
  <1> WITNESS page \in Int, place \in Int
  <1> QED
    BY <1>3, <1>4, <1>5

LEMMA SubstitutedAddress ==
  ASSUME NEW i \in UnsignedShort
  PROVE  /\ Substituted(i) \in UnsignedShort
         /\ Swap(Substituted(i)) =
              IF probe.do_match /\ PhaseOf(i) = 0 THEN i + 16 ELSE i
  <1>1. CASE ~probe.do_match
    BY <1>1, SwapTwice DEF Substituted, SetAddress
  <1>2. CASE probe.do_match /\ PhaseOf(i) = 0
    <2>1. PICK page, place \in Int :
            /\ i = page * 256 + PhaseOf(i) * 16 + place
            /\ 0 <= place /\ place <= 15
            /\ PhaseOne(i) = page * 256 + place + 16
      BY CellParts
    <2>2. PhaseOne(i) = i + 16 /\ PhaseOne(i) \in Int
      BY <1>2, <2>1
    <2>3. i \in Int /\ 0 <= i /\ i <= 65519
      BY <1>2, <2>1, ShortMember
    <2>4. PhaseOne(i) = i + 16 /\ PhaseOne(i) \in UnsignedShort
      BY <2>2, <2>3, ShortMember
    <2> QED
      BY <1>2, <2>4, SwapTwice DEF Substituted, SetAddress
  <1>3. CASE probe.do_match /\ PhaseOf(i) # 0
    <2>1. PhaseOf(i) > 0 /\ (PhaseOf(i) - 1) * 16 + PhaseOne(i) = i
      BY <1>3, CellParts
    <2>2. i % 65536 = i
      BY ShortMember
    <2>3. calc_cell_addr(PhaseOne(i), PhaseOf(i)) = Swap(i)
      BY <2>1, <2>2 DEF calc_cell_addr
    <2> QED
      BY <1>3, <2>1, <2>3, SwapTwice DEF Substituted, SetAddress
  <1> QED
    BY <1>1, <1>2, <1>3

-----------------------------------------------------------------------------
(* Types.                                                                  *)

AnyCall == SerialCalls \cup SocketCalls

LEMMA CallType ==
  ASSUME NEW c \in AnyCall
  PROVE  c.name \in To
  BY Zenon DEF AnyCall, To

LEMMA ProbeCalls == get_mem(TRUE) \in AnyCall /\ set_timing \in AnyCall
  <1>1. get_mem(TRUE) \in
          {get_timing(TRUE), get_spat(TRUE), get_overlap(TRUE),
           get_special_flags(TRUE), get_mem(TRUE), get_detector(TRUE)}
    OBVIOUS
  <1>2. get_mem(TRUE) \in SerialCalls
    BY <1>1 DEF SerialCalls
  <1>3. set_timing \in SerialCalls
    BY DEF SerialCalls
  <1> QED
    BY <1>2, <1>3 DEF AnyCall

LEMMA StartType ==
  ASSUME NEW at \in {"chunk", "no"}, NEW range \in Ranges,
         NEW match \in BOOLEAN, NEW subst \in BOOLEAN,
         NEW value \in Values \cup {0}
  PROVE  Start(at, range, match, subst, value) \in Probe
  <1>1. range \in UnsignedShort \X UnsignedShort
    BY CallsAssumption
  <1>2. Short(range[2] - range[1] + 1) \in Int
    BY <1>1, ShortMember, CallsAssumption DEF Short
  <1>3. SignedChar(value) \in Char
    BY CallsAssumption DEF SignedChar, UnsignedChar, Char
  <1> QED
    BY <1>1, <1>2, <1>3 DEF Start, Probe

LEMMA OlderType ==
  /\ \A seq \in Seq(Request) : Older(seq) \in Seq(Request)
  /\ \A seq \in Seq(Frame) : Older(seq) \in Seq(Frame)
  <1>1. ASSUME NEW seq \in Seq(Request)
        PROVE  Older(seq) \in Seq(Request)
    <2>1. \A i \in 1 .. Len(seq) : seq[i] \in Request
      OBVIOUS
    <2>2. \A r \in Request : [r EXCEPT !.age = @ + 1] \in Request
      BY DEF Request
    <2> QED
      BY <2>1, <2>2, IsASeq DEF Older
  <1>2. ASSUME NEW seq \in Seq(Frame)
        PROVE  Older(seq) \in Seq(Frame)
    <2>1. \A i \in 1 .. Len(seq) : seq[i] \in Frame
      OBVIOUS
    <2>2. \A r \in Frame : [r EXCEPT !.age = @ + 1] \in Frame
      BY DEF Frame
    <2> QED
      BY <2>1, <2>2, IsASeq DEF Older
  <1> QED
    BY <1>1, <1>2

LEMMA TypeInit == Init => TypeOK
  <1> SUFFICES ASSUME Init PROVE TypeOK
    OBVIOUS
  <1>1. probe \in Probe /\ line \in {"serial", "socket"}
    <2>1. PICK range \in Ranges, match \in BOOLEAN, subst \in BOOLEAN,
               value \in Values :
            \/ /\ line = "serial"
               /\ probe = Start("chunk", range, match, subst, value)
            \/ /\ line \in {"serial", "socket"}
               /\ probe = Start("no", CHOOSE r \in Ranges : TRUE, FALSE,
                                FALSE, 0)
      BY DEF Init
    <2>2. (CHOOSE r \in Ranges : TRUE) \in Ranges
      BY <2>1
    <2> QED
      BY <2>1, <2>2, StartType
  <1>2. call \in AnyCall /\ retval = "0" /\ taken = None /\ pc = "idle"
        /\ eintr = FALSE
    BY ProbeCalls DEF Init
  <1>3. due \in Seq(Request) /\ input \in Seq(Frame) /\ over \in 0 .. MaxOver
    BY CallsAssumption DEF Init
  <1> QED
    BY <1>1, <1>2, <1>3 DEF TypeOK, AnyCall

\* What does not belong to the probe.
CallOK ==
  /\ pc \in {"idle", "send", "recvfrom", "await", "read", "byte"}
  /\ call \in AnyCall
  /\ retval \in {"0", "-1", "-2", "-3"}
  /\ taken \in Frame \cup {None} /\ line \in {"serial", "socket"}
  /\ due \in Seq(Request) /\ input \in Seq(Frame) /\ over \in 0 .. MaxOver
  /\ pc = "recvfrom" => line = "socket"

\* A call reads although nothing came only if it was interrupted.
Interrupted ==
  /\ eintr \in BOOLEAN
  /\ pc = "read" => call.goes_on /\ eintr

LEMMA TypeSplit == TypeOK <=> CallOK /\ Interrupted /\ probe \in Probe
  BY Zenon DEF TypeOK, CallOK, Interrupted, AnyCall

LEMMA BeginType ==
  ASSUME CallOK, NEW c \in AnyCall, Begin(c)
  PROVE  CallOK'
  BY DEF Begin, CallOK, frames

LEMMA TakeFirst ==
  /\ \A seq \in Seq(Request) : seq # <<>> =>
       Head(seq) \in Request /\ Tail(seq) \in Seq(Request)
  /\ \A seq \in Seq(Frame) : seq # <<>> =>
       Head(seq) \in Frame /\ Tail(seq) \in Seq(Frame)
  BY HeadTailProperties

\* The frames after the first m, and those with the first one damaged.
LEMMA UnreadFrames ==
  ASSUME NEW f \in Seq(Frame), NEW m \in 0 .. Len(f)
  PROVE  /\ SubSeq(f, m + 1, Len(f)) \in Seq(Frame)
         /\ Len(SubSeq(f, m + 1, Len(f))) = Len(f) - m
         /\ \A i \in 1 .. (Len(f) - m) :
              SubSeq(f, m + 1, Len(f))[i] = f[m + i]
  <1>1. Len(f) \in Nat /\ m \in Nat /\ m <= Len(f)
    OBVIOUS
  <1>2. /\ m + 1 \in 1 .. (Len(f) + 1) /\ Len(f) \in m .. Len(f)
        /\ Len(f) - (m + 1) + 1 = Len(f) - m
    BY <1>1
  <1> DEFINE g == SubSeq(f, m + 1, Len(f))
  <1>3. g = [i \in 1 .. (Len(f) - m) |-> f[m + i]]
    BY <1>1, <1>2
  <1>4. \A i \in 1 .. (Len(f) - m) : f[m + i] \in Frame
    BY <1>1
  <1>5. Len(f) - m \in Nat
    BY <1>1
  <1> HIDE DEF g
  <1>6. g \in Seq(Frame)
    BY <1>3, <1>4, <1>5, IsASeq
  <1>7. DOMAIN g = 1 .. (Len(f) - m)
    BY <1>3
  <1>8. Len(g) = Len(f) - m
    BY <1>5, <1>6, <1>7
  <1> QED
    BY <1>3, <1>6, <1>8 DEF g

Spoilt(f) == [f EXCEPT ![1].whole = FALSE]

LEMMA SpoiltFrames ==
  ASSUME NEW f \in Seq(Frame), f # <<>>
  PROVE  /\ Spoilt(f) \in Seq(Frame) /\ Len(Spoilt(f)) = Len(f)
         /\ \A i \in 1 .. Len(f) : Spoilt(f)[i].age = f[i].age
  <1>1. /\ Len(f) \in Nat /\ DOMAIN f = 1 .. Len(f) /\ 1 \in DOMAIN f
        /\ \A i \in 1 .. Len(f) : f[i] \in Frame
    BY EmptySeq
  <1>2. [f[1] EXCEPT !.whole = FALSE] \in Frame
        /\ [f[1] EXCEPT !.whole = FALSE].age = f[1].age
    BY <1>1 DEF Frame
  <1>3. /\ \A i \in 1 .. Len(f) :
             Spoilt(f)[i] = IF i = 1 THEN [f[1] EXCEPT !.whole = FALSE]
                            ELSE f[i]
        /\ DOMAIN Spoilt(f) = 1 .. Len(f)
        /\ Spoilt(f) = [i \in 1 .. Len(f) |-> Spoilt(f)[i]]
    BY <1>1 DEF Spoilt
  <1>4. \A i \in 1 .. Len(f) : Spoilt(f)[i] \in Frame
    BY <1>1, <1>2, <1>3
  <1>5. Spoilt(f) \in Seq(Frame)
    BY <1>1, <1>3, <1>4, IsASeq
  <1>6. Len(Spoilt(f)) = Len(f)
    BY <1>1, <1>3, <1>5
  <1> QED
    BY <1>1, <1>2, <1>3, <1>5, <1>6

LEMMA ReadFrames ==
  ASSUME input \in Seq(Frame), NEW n \in DOMAIN input
  PROVE  /\ n \in 0 .. Len(input) /\ n - 1 \in 0 .. Len(input)
         /\ input[n] \in Frame
         /\ Unread(n) \in Seq(Frame)
         /\ Unread(n - 1) \in Seq(Frame) /\ Unread(n - 1) # <<>>
         /\ Spoilt(Unread(n - 1)) \in Seq(Frame)
  <1>1. /\ Len(input) \in Nat /\ n \in 1 .. Len(input)
        /\ input[n] \in Frame
    OBVIOUS
  <1>2. n \in 0 .. Len(input) /\ n - 1 \in 0 .. Len(input)
    BY <1>1
  <1>3. Unread(n) \in Seq(Frame) /\ Unread(n - 1) \in Seq(Frame)
    BY <1>2, UnreadFrames DEF Unread
  <1>4. Len(Unread(n - 1)) = Len(input) - (n - 1)
    BY <1>2, UnreadFrames DEF Unread
  <1>5. Unread(n - 1) # <<>>
    BY <1>1, <1>4
  <1> QED
    BY <1>1, <1>2, <1>3, <1>5, SpoiltFrames

\* What a step of a call does, apart from the flags.
LEMMA CallEffect ==
  /\ Send =>
       /\ \/ /\ due' = Append(Older(due), [to |-> call.name, age |-> 0])
             /\ input' = Older(input)
          \/ due' = due /\ input' = input
       /\ \/ line = "socket" /\ pc' = "recvfrom" /\ over' = over
          \/ line = "serial" /\ pc' = "await" /\ over' = over
          \/ line = "serial" /\ pc' = "idle" /\ (over' = over \/ LeftOver)
       /\ retval' = retval \/ retval' = "0"
       /\ call' = call /\ taken' = taken /\ line' = line
  /\ SendStuck =>
       /\ pc' = "idle" /\ retval' = "-3"
       /\ call' = call /\ taken' = taken /\ line' = line /\ frames' = frames
  /\ TimeOut \/ Interrupt =>
       /\ input = <<>>
       /\ \/ pc' = "read" /\ retval' = retval
          \/ pc' = "idle" /\ retval' = "-2"
       /\ over' = over \/ LeftOver
       /\ call' = call /\ taken' = taken /\ line' = line
       /\ due' = due /\ input' = input
  /\ Read =>
       /\ \E n \in DOMAIN input :
            \/ /\ input' = Unread(n) /\ Gone(n)
               /\ taken' = taken \/ taken' = input[n]
            \/ /\ input' = Spoilt(Unread(n - 1)) /\ Gone(n - 1)
               /\ taken' = taken
       /\ pc' = "idle" /\ (retval' = "0" \/ retval' = "-1")
       /\ call' = call /\ line' = line /\ due' = due
  /\ Block =>
       /\ pc' = "byte" /\ call' = call /\ retval' = retval /\ taken' = taken
       /\ line' = line /\ frames' = frames
  /\ ReadSocket =>
       /\ pc' = "idle" /\ (retval' = "0" \/ retval' = "-1")
       /\ input' = input \/ input' = <<>>
       /\ call' = call /\ taken' = taken /\ line' = line /\ due' = due
       /\ over' = over
  /\ Receive =>
       /\ input # <<>> /\ input' = Tail(input)
       /\ pc' = "await" \/ pc' = "idle"
       /\ call' = call /\ retval' = retval /\ taken' = taken /\ line' = line
       /\ due' = due /\ over' = over
  <1>1. line = "socket" => line # "serial"
    OBVIOUS
  <1>2. frames' = frames => due' = due /\ input' = input /\ over' = over
    BY DEF frames
  <1> USE <1>1, <1>2
  <1>3. Send =>
       /\ \/ /\ due' = Append(Older(due), [to |-> call.name, age |-> 0])
             /\ input' = Older(input)
          \/ due' = due /\ input' = input
       /\ call' = call /\ taken' = taken /\ line' = line
    BY Zenon DEF Send
  <1>4. Send =>
       /\ \/ line = "socket" /\ pc' = "recvfrom" /\ over' = over
          \/ line = "serial" /\ pc' = "await" /\ over' = over
          \/ line = "serial" /\ pc' = "idle" /\ (over' = over \/ LeftOver)
       /\ retval' = retval \/ retval' = "0"
    BY Zenon DEF Send, Sent
  <1>5. SendStuck =>
       /\ pc' = "idle" /\ retval' = "-3"
       /\ call' = call /\ taken' = taken /\ line' = line /\ frames' = frames
    BY Zenon DEF SendStuck, Return
  <1>6. ASSUME TimeOut \/ Interrupt
        PROVE  /\ input = <<>>
               /\ \/ pc' = "read" /\ retval' = retval
                  \/ pc' = "idle" /\ retval' = "-2"
               /\ over' = over \/ LeftOver
               /\ call' = call /\ taken' = taken /\ line' = line
               /\ due' = due /\ input' = input
    <2>1. /\ input = <<>>
          /\ \/ /\ pc' = "read"
                /\ UNCHANGED <<call, retval, taken, line, frames, probe>>
             \/ GiveUp
      BY <1>6, Zenon DEF TimeOut, Interrupt
    <2>3. UNCHANGED <<call, retval, taken, line, frames, probe>> =>
            UNCHANGED <<call, retval, taken, line, due, input, over>>
      BY DEF frames
    <2>2. GiveUp =>
            /\ pc' = "idle" /\ retval' = "-2" /\ (over' = over \/ LeftOver)
            /\ UNCHANGED <<call, taken, line, due, input>>
      BY Zenon DEF GiveUp, Return
    <2> QED
      BY <2>1, <2>2, <2>3, Zenon
  <1>7. ASSUME Read
        PROVE  /\ \E n \in DOMAIN input :
                    \/ /\ input' = Unread(n) /\ Gone(n)
                       /\ taken' = taken \/ taken' = input[n]
                    \/ /\ input' = Spoilt(Unread(n - 1)) /\ Gone(n - 1)
                       /\ taken' = taken
               /\ pc' = "idle" /\ (retval' = "0" \/ retval' = "-1")
               /\ call' = call /\ line' = line /\ due' = due
    <2>1. PICK n \in DOMAIN input : TakesWhole(n) \/ TakesDamaged(n)
      BY <1>7, Zenon DEF Read
    <2>2. pc' = "idle" /\ call' = call /\ line' = line /\ due' = due
      BY <1>7, Zenon DEF Read
    <2>3. CASE TakesWhole(n)
      BY <2>2, <2>3, Zenon DEF TakesWhole
    <2>4. CASE TakesDamaged(n)
      BY <2>2, <2>4, Zenon DEF TakesDamaged, Spoilt
    <2> QED
      BY <2>1, <2>3, <2>4, Zenon
  <1>10. Block =>
       /\ pc' = "byte" /\ call' = call /\ retval' = retval /\ taken' = taken
       /\ line' = line /\ frames' = frames
    BY DEF Block
  <1>8. ReadSocket =>
       /\ pc' = "idle" /\ (retval' = "0" \/ retval' = "-1")
       /\ input' = input \/ input' = <<>>
       /\ call' = call /\ taken' = taken /\ line' = line /\ due' = due
       /\ over' = over
    BY Zenon DEF ReadSocket, Return
  <1>9. Receive =>
       /\ input # <<>> /\ input' = Tail(input)
       /\ pc' = "await" \/ pc' = "idle"
       /\ call' = call /\ retval' = retval /\ taken' = taken /\ line' = line
       /\ due' = due /\ over' = over
    BY Zenon DEF Receive
  <1> QED
    BY <1>3, <1>4, <1>5, <1>6, <1>7, <1>8, <1>9, <1>10, Zenon

\* The steps of a call keep its types.
LEMMA CallStep ==
  ASSUME CallOK,
         Calling \/ Receive \/ Interrupt \/ Answer \/ Lose \/ Unasked
           \/ BeginClosed \/ UNCHANGED vars
  PROVE  CallOK'
  <1> USE DEF CallOK
  <1>0. MaxOver \in Nat
    BY CallsAssumption
  <1>1. CASE Send
    <2>1. [to |-> call.name, age |-> 0] \in Request
      BY CallType DEF Request
    <2>2. \/ /\ due' = Append(Older(due), [to |-> call.name, age |-> 0])
             /\ input' = Older(input)
          \/ due' = due /\ input' = input
      BY <1>1, CallEffect, Zenon
    <2>3. due' \in Seq(Request) /\ input' \in Seq(Frame)
      <3>1. Older(due) \in Seq(Request) /\ Older(input) \in Seq(Frame)
        BY OlderType
      <3> DEFINE new == [to |-> call.name, age |-> 0]
      <3>2. Append(Older(due), new) \in Seq(Request)
        <4> HIDE DEF new
        <4>1. new \in Request
          BY <2>1 DEF new
        <4> QED
          BY <3>1, <4>1, AppendProperties
      <3> QED
        BY <2>2, <3>1, <3>2
    <2> QED
      BY <1>0, <1>1, <2>3, CallEffect DEF LeftOver
  <1>2. CASE SendStuck
    BY <1>2, CallEffect DEF frames
  <1>3. CASE TimeOut \/ Interrupt
    BY <1>0, <1>3, CallEffect DEF LeftOver
  <1>4. CASE Read
    <2>1. PICK n \in DOMAIN input :
            \/ /\ input' = Unread(n) /\ Gone(n)
               /\ taken' = taken \/ taken' = input[n]
            \/ /\ input' = Spoilt(Unread(n - 1)) /\ Gone(n - 1)
               /\ taken' = taken
      BY <1>4, CallEffect, Zenon
    <2>2. input' \in Seq(Frame) /\ taken' \in Frame \cup {None}
      BY <2>1, ReadFrames
    <2>3. over' \in 0 .. MaxOver
      BY <2>1, Zenon DEF Gone
    <2>4. /\ pc' = "idle" /\ (retval' = "0" \/ retval' = "-1")
          /\ call' = call /\ line' = line /\ due' = due
      BY <1>4, CallEffect, Zenon
    <2> QED
      BY <2>2, <2>3, <2>4
  <1>11. CASE Block
    <2>1. due' = due /\ input' = input /\ over' = over
      BY <1>11, CallEffect DEF frames
    <2> QED
      BY <1>11, <2>1, CallEffect
  <1>5. CASE ReadSocket \/ Receive
    <2>1. \/ input # <<>> /\ input' = Tail(input)
          \/ input' = input \/ input' = <<>>
      BY <1>5, CallEffect, Zenon
    <2>2. input' \in Seq(Frame)
      <3>1. <<>> \in Seq(Frame)
        OBVIOUS
      <3> QED
        BY <2>1, <3>1, TakeFirst
    <2> QED
      BY <1>5, <2>2, CallEffect
  <1>6. CASE Answer
    <2>1. PICK whole \in BOOLEAN :
            input' = Append(input, [to |-> Head(due).to,
                              age |-> Head(due).age, whole |-> whole])
      BY <1>6, Zenon DEF Answer
    <2>2. Head(due) \in Request /\ Tail(due) \in Seq(Request)
      BY <1>6, TakeFirst DEF Answer
    <2>3. [to |-> Head(due).to, age |-> Head(due).age, whole |-> whole]
            \in Frame
      BY <2>2 DEF Request, Frame
    <2>4. input' \in Seq(Frame)
      BY <2>1, <2>3, AppendProperties
    <2> QED
      BY <1>6, <2>2, <2>4 DEF Answer, calls
  <1>7. CASE Lose
    BY <1>7, TakeFirst DEF Lose, calls
  <1>8. CASE Unasked
    <2>1. [to |-> "nobody", age |-> 0, whole |-> TRUE] \in Frame
      BY DEF Frame
    <2>2. input' \in Seq(Frame)
      BY <1>8, <2>1, AppendProperties DEF Unasked
    <2> QED
      BY <1>0, <1>8, <2>2 DEF Unasked, LeftOver, calls
  <1>9. CASE BeginClosed
    BY <1>9 DEF BeginClosed, frames, AnyCall
  <1>10. CASE UNCHANGED vars
    BY <1>10 DEF vars, calls, frames
  <1> QED
    BY <1>1, <1>2, <1>3, <1>4, <1>5, <1>6, <1>7, <1>8, <1>9, <1>10, <1>11,
       Zenon DEF Calling

\* A byte is looked at: its cell is substituted, or not.
LEMMA ByteEffect ==
  ASSUME Byte
  PROVE  LET i == (probe.lomem + probe.j) % 65536
             next == [probe EXCEPT !.j = @ + 1, !.seen = @ \cup {i}]
         IN  \/ /\ Begin(set_timing)
                /\ probe' = [next EXCEPT
                               !.sets = @ \cup {<<i, Substituted(i)>>}]
             \/ probe' = next /\ UNCHANGED <<calls, line, frames>>
  <1> DEFINE i == (probe.lomem + probe.j) % 65536
             next == [probe EXCEPT !.j = @ + 1, !.seen = @ \cup {i}]
             bytes == IF probe.filled THEN Values ELSE {0}
             found(byte) == probe.do_subst /\
                              (probe.do_match => byte = probe.match_val)
  <1>1. PICK byte \in bytes :
                    IF found(byte)
                    THEN /\ Begin(set_timing)
                         /\ probe' = [next EXCEPT
                                        !.sets = @ \cup {<<i, Substituted(i)>>}]
                    ELSE /\ pc = "idle" /\ probe' = next
                         /\ UNCHANGED <<calls, line, frames>>
    BY DEF Byte
  <1> HIDE DEF i, next, found
  <1> QED
    BY <1>1 DEF next, i

LEMMA BeginEffect ==
  ASSUME NEW c, Begin(c)
  PROVE  pc' # "read" /\ eintr' = eintr
  BY DEF Begin

\* So do those of the two programs.
LEMMA ProgramStep ==
  ASSUME CallOK, Probing \/ OtherCall
  PROVE  CallOK'
  <1>1. CASE ReadChunk \/ OtherCall
    BY <1>1, BeginType, ProbeCalls DEF ReadChunk, OtherCall, AnyCall
  <1>2. CASE Byte
    <2>1. Begin(set_timing) \/ UNCHANGED <<calls, line, frames>>
      BY <1>2, ByteEffect
    <2> QED
      BY <2>1, BeginType, ProbeCalls DEF CallOK, calls, frames
  <1>3. CASE EndChunk \/ ExitProbe
    BY <1>3 DEF EndChunk, ExitProbe, CallOK, calls, frames
  <1> QED
    BY <1>1, <1>2, <1>3 DEF Probing

LEMMA InterruptedStep ==
  ASSUME Interrupted, [Next]_vars
  PROVE  Interrupted'
  <1>1. CASE UNCHANGED <<pc, call, eintr>>
    BY <1>1, Zenon DEF Interrupted
  <1>2. CASE pc' # "read" /\ (eintr' = eintr \/ eintr' = TRUE)
    BY <1>2, Zenon DEF Interrupted
  <1>3. calls' = calls => UNCHANGED <<pc, call, eintr>>
    BY DEF calls
  <1>4. CASE Probing \/ OtherCall
    <2>1. (\E c : Begin(c)) \/ calls' = calls
      <3>1. ReadChunk \/ OtherCall => \E c : Begin(c)
        BY Zenon DEF ReadChunk, OtherCall
      <3>2. Byte => Begin(set_timing) \/ calls' = calls
        BY ByteEffect
      <3>3. EndChunk \/ ExitProbe => calls' = calls
        BY DEF EndChunk, ExitProbe
      <3> QED
        BY <1>4, <3>1, <3>2, <3>3, Zenon DEF Probing
    <2> QED
      BY <1>1, <1>2, <1>3, <2>1, BeginEffect, Zenon
  <1>5. CASE Answer \/ Lose \/ Unasked
    BY <1>1, <1>3, <1>5, Zenon DEF Answer, Lose, Unasked
  <1>6. CASE UNCHANGED vars
    BY <1>1, <1>3, <1>6 DEF vars
  <1>7. CASE BeginClosed
    <2>1. pc' # "read"
      BY <1>7 DEF BeginClosed
    <2> QED
      BY <1>2, <1>7, <2>1, Zenon DEF BeginClosed
  <1>8. CASE Send \/ SendStuck \/ Read \/ Block \/ ReadSocket \/ Receive
    <2>1. pc' # "read"
      BY <1>8, CallEffect
    <2>2. eintr' = eintr \/ eintr' = TRUE
      BY <1>8, Zenon DEF Send, SendStuck, Read, Block, ReadSocket,
                           Receive
    <2> QED
      BY <1>2, <2>1, <2>2, Zenon
  <1>9. CASE TimeOut \/ Interrupt
    <2>1. call' = call /\ (pc' = "idle" \/ (call.goes_on /\ eintr'))
      <3>1. GiveUp => call' = call /\ pc' = "idle"
        BY Zenon DEF GiveUp, Return
      <3>2. UNCHANGED <<call, retval, taken, line, frames, probe>> =>
              call' = call
        OBVIOUS
      <3>3. TimeOut =>
              \/ GiveUp
              \/ /\ UNCHANGED <<call, retval, taken, line, frames, probe>>
                 /\ call.goes_on /\ eintr /\ eintr' = eintr
        BY Zenon DEF TimeOut, GoesOn
      <3>4. Interrupt =>
              \/ GiveUp
              \/ /\ UNCHANGED <<call, retval, taken, line, frames, probe>>
                 /\ call.goes_on /\ eintr' = TRUE
        BY Zenon DEF Interrupt
      <3>5. call' = call
        BY <1>9, <3>1, <3>2, <3>3, <3>4
      <3>6. /\ eintr' = TRUE => eintr'
            /\ eintr /\ eintr' = eintr => eintr'
        OBVIOUS
      <3>7. GiveUp \/ (call.goes_on /\ eintr')
        BY <1>9, <3>3, <3>4, <3>6, Zenon
      <3> QED
        BY <3>1, <3>5, <3>7, Zenon
    <2>2. eintr' = eintr \/ eintr' = TRUE
      BY <1>9, Zenon DEF TimeOut, Interrupt
    <2>3. CASE pc' = "idle"
      BY <1>2, <2>2, <2>3
    <2>4. CASE call.goes_on /\ eintr'
      BY <2>1, <2>2, <2>4, Zenon DEF Interrupted
    <2> QED
      BY <2>1, <2>3, <2>4, Zenon
  <1> QED
    BY <1>4, <1>5, <1>6, <1>7, <1>8, <1>9, Zenon DEF Next, Calling

-----------------------------------------------------------------------------
(* The probe.                                                              *)

LEMMA ProbeKept ==
  ASSUME [Next]_vars
  PROVE  \/ Probing
         \/ probe' = probe \/ probe' = [probe EXCEPT !.filled = TRUE]
  <1>1. OtherCall \/ BeginClosed \/ Send \/ SendStuck \/ Receive \/ Answer
          \/ Lose \/ Unasked => probe' = probe
    BY Zenon DEF OtherCall, BeginClosed, Send, SendStuck, Return, Receive,
                 Answer, Lose, Unasked
  <1>2. GiveUp => probe' = probe
    BY Zenon DEF GiveUp, Return
  <1>3. TimeOut \/ Interrupt => probe' = probe
    <2>1. TimeOut \/ Interrupt =>
            \/ GiveUp
            \/ UNCHANGED <<call, retval, taken, line, frames, probe>>
      BY Zenon DEF TimeOut, Interrupt
    <2> QED
      BY <1>2, <2>1
  <1>4. ReadSocket \/ Block => probe' = probe
    BY Zenon DEF ReadSocket, Return, Block
  <1>5. Read => probe' = probe \/ probe' = [probe EXCEPT !.filled = TRUE]
    BY DEF Read
  <1>6. vars' = vars => probe' = probe
    BY DEF vars
  <1> QED
    BY <1>1, <1>3, <1>4, <1>5, <1>6, Zenon DEF Next, Calling

\* What a step writes to the probe is of its type.
LEMMA NextByteType ==
  ASSUME NEW p \in Probe, NEW n \in Nat, NEW i \in UnsignedShort
  PROVE  [p EXCEPT !.j = n, !.seen = @ \cup {i}] \in Probe
  BY DEF Probe

LEMMA NextSetType ==
  ASSUME NEW p \in Probe, NEW i \in UnsignedShort, NEW a \in UnsignedShort
  PROVE  [p EXCEPT !.sets = @ \cup {<<i, a>>}] \in Probe
  BY DEF Probe

LEMMA NextChunkType ==
  ASSUME NEW p \in Probe, NEW m \in Int, NEW i \in UnsignedShort
  PROVE  [p EXCEPT !.at = "chunk", !.num_left = m, !.lomem = i] \in Probe
  BY DEF Probe

LEMMA ProbeNumbers ==
  ASSUME NEW p \in Probe
  PROVE  /\ p.j \in Nat /\ p.num_left \in Int /\ p.num_bytes \in Nat
         /\ p.lomem \in Int
         /\ \A n \in Nat : (p.lomem + n) % 65536 \in UnsignedShort
  <1>1. p.j \in Nat /\ p.num_left \in Int /\ p.num_bytes \in Nat
        /\ p.lomem \in UnsignedShort
    BY DEF Probe
  <1> QED
    BY <1>1, ShortMember

LEMMA ProbeStep ==
  ASSUME probe \in Probe, [Next]_vars
  PROVE  probe' \in Probe
  <1>1. CASE ReadChunk
    <2>1. Chunk(probe.num_left) \in Nat
      BY <1>1, CallsAssumption, ProbeNumbers DEF ReadChunk, Chunk
    <2> QED
      BY <1>1, <2>1 DEF ReadChunk, Probe
  <1>2. CASE Byte
    <2> DEFINE i == (probe.lomem + probe.j) % 65536
               n == probe.j + 1
               next == [probe EXCEPT !.j = n, !.seen = @ \cup {i}]
    <2>1. i \in UnsignedShort /\ n \in Nat
      BY ProbeNumbers
    <2>2. \/ probe' = next
          \/ probe' = [next EXCEPT !.sets = @ \cup {<<i, Substituted(i)>>}]
      BY <1>2, ByteEffect
    <2>3. Substituted(i) \in UnsignedShort
      BY <2>1, SubstitutedAddress
    <2>4. next \in Probe
      <3> HIDE DEF i, n
      <3> QED
        BY <2>1, NextByteType
    <2>5. [next EXCEPT !.sets = @ \cup {<<i, Substituted(i)>>}] \in Probe
      <3> HIDE DEF i, next
      <3> QED
        BY <2>1, <2>3, <2>4, NextSetType, Zenon
    <2> HIDE DEF i, next
    <2> QED
      BY <2>2, <2>4, <2>5
  <1>3. CASE EndChunk
    <2> DEFINE n == probe.num_left - probe.num_bytes
               i == (probe.lomem + probe.num_bytes) % 65536
    <2>1. n \in Int /\ i \in UnsignedShort
      BY ProbeNumbers
    <2>2. probe' = [probe EXCEPT !.at = "chunk", !.num_left = n, !.lomem = i]
      BY <1>3 DEF EndChunk
    <2> HIDE DEF n, i
    <2> QED
      BY <2>1, <2>2, NextChunkType, Zenon
  <1>4. CASE ExitProbe
    BY <1>4 DEF ExitProbe, Probe
  <1>5. CASE probe' = probe \/ probe' = [probe EXCEPT !.filled = TRUE]
    <2>1. [probe EXCEPT !.filled = TRUE] \in Probe
      BY Zenon DEF Probe
    <2> QED
      BY <1>5, <2>1
  <1> QED
    BY <1>1, <1>2, <1>3, <1>4, <1>5, ProbeKept, Zenon DEF Probing

LEMMA TypeStep == TypeOK /\ [Next]_vars => TypeOK'
  <1> SUFFICES ASSUME TypeOK, [Next]_vars PROVE TypeOK'
    OBVIOUS
  <1>1. CallOK /\ Interrupted /\ probe \in Probe
    BY TypeSplit, Zenon
  <1>2. CallOK'
    BY <1>1, CallStep, ProgramStep, Zenon DEF Next
  <1>3. Interrupted' /\ probe' \in Probe
    BY <1>1, InterruptedStep, ProbeStep, Zenon
  <1> QED
    BY <1>2, <1>3, Zenon DEF TypeOK, CallOK, Interrupted, AnyCall

(* Every variable has its type: addresses and lengths of the probe keep    *)
(* the width they have in the program, and a call reads when nothing came  *)
(* only after a signal.                                                    *)
THEOREM CallTypes == Spec => []TypeOK
  BY TypeInit, TypeStep, PTL DEF Spec

(* A substitution goes to the cell whose byte matched, if its address has  *)
(* a phase or -m was not given, for any range and any bytes: taking the    *)
(* phase out of the address and putting it in again is no loss.            *)
THEOREM CellsSubstituted == Spec => []SubstitutedCell
  <1>1. Init => SubstitutedCell
    BY DEF Init, Start, SubstitutedCell
  <1>2. TypeOK /\ SubstitutedCell /\ [Next]_vars => SubstitutedCell'
    <2> SUFFICES ASSUME TypeOK, SubstitutedCell, [Next]_vars
                 PROVE  SubstitutedCell'
      OBVIOUS
    <2>1. probe \in Probe
      BY TypeSplit
    <2>2. CASE probe'.sets = probe.sets /\ probe'.do_match = probe.do_match
      BY <2>2, Zenon DEF SubstitutedCell
    <2>3. CASE Byte
      <3> DEFINE i == (probe.lomem + probe.j) % 65536
                 n == probe.j + 1
                 next == [probe EXCEPT !.j = n, !.seen = @ \cup {i}]
      <3>1. i \in UnsignedShort
        BY <2>1, ProbeNumbers
      <3>2. \/ probe' = next
            \/ probe' = [next EXCEPT !.sets = @ \cup {<<i, Substituted(i)>>}]
        BY <2>3, ByteEffect
      <3> HIDE DEF i, n
      <3>3. /\ probe'.do_match = probe.do_match
            /\ \/ probe'.sets = probe.sets
               \/ probe'.sets = probe.sets \cup {<<i, Substituted(i)>>}
        BY <2>1, <3>2 DEF Probe
      <3>4. Swap(Substituted(i)) =
              IF probe.do_match /\ PhaseOf(i) = 0 THEN i + 16 ELSE i
        BY <3>1, SubstitutedAddress
      <3> QED
        BY <3>3, <3>4 DEF SubstitutedCell
    <2>4. CASE ReadChunk \/ EndChunk \/ ExitProbe
      <3>1. CASE ReadChunk
        BY <2>1, <2>2, <3>1 DEF ReadChunk, Probe
      <3>2. CASE EndChunk
        <4> DEFINE n == probe.num_left - probe.num_bytes
                   i == (probe.lomem + probe.num_bytes) % 65536
        <4>1. probe' =
                [probe EXCEPT !.at = "chunk", !.num_left = n, !.lomem = i]
          BY <3>2 DEF EndChunk
        <4> HIDE DEF n, i
        <4> QED
          BY <2>1, <2>2, <4>1 DEF Probe
      <3>3. CASE ExitProbe
        BY <2>1, <2>2, <3>3 DEF ExitProbe, Probe
      <3> QED
        BY <2>4, <3>1, <3>2, <3>3
    <2>5. CASE probe' = probe \/ probe' = [probe EXCEPT !.filled = TRUE]
      <3>1. probe'.sets = probe.sets /\ probe'.do_match = probe.do_match
        BY <2>1, <2>5 DEF Probe
      <3> QED
        BY <2>2, <3>1
    <2> QED
      BY <2>3, <2>4, <2>5, ProbeKept, Zenon DEF Probing
  <1> QED
    BY <1>1, <1>2, CallTypes, PTL DEF Spec

-----------------------------------------------------------------------------
(* How old the frame is that a call takes.  The frames on a serial line    *)
(* are taken in order, and a call that asks takes one and adds one: what   *)
(* bounds the age of a frame when it is taken is its age now together with *)
(* its place in the line, and that sum is at most the number of frames     *)
(* left over, one more while a question is pending.  The rest of a frame   *)
(* that a read stops in keeps its place, and counts as one left over.      *)

Pending == pc \in {"await", "read", "byte"} /\ call.asks
Bound == IF Pending THEN over + 1 ELSE over

\* Frames f and requests r are within bound b.
Within(f, r, b) ==
  /\ \A i \in DOMAIN f : f[i].age + i <= b
  /\ \A j \in DOMAIN r : r[j].age + Len(f) + j <= b
  /\ Len(f) + Len(r) <= b

LineLag == Within(input, due, Bound)

\* A call in progress was not answered yet.
Untaken == pc # "idle" => taken = None

LagInv ==
  /\ line = "serial" => LineLag
  /\ AnswerLag
  /\ Untaken

LEMMA SpatDoesNotAsk ==
  ASSUME NEW c \in AnyCall, c.name = "get_spat"
  PROVE  ~c.asks
  <1>1. CASE c \in {set_timing, get_request, set_overlap,
                    set_special_flags, set_detector}
    BY <1>1 DEF Call, set_timing, get_request, set_overlap,
                set_special_flags, set_detector
  <1>2. ASSUME NEW wait_for_data \in BOOLEAN,
               c \in {get_timing(wait_for_data), get_spat(wait_for_data),
                      get_overlap(wait_for_data),
                      get_special_flags(wait_for_data),
                      get_mem(wait_for_data), get_detector(wait_for_data),
                      get_timing_udp(wait_for_data)}
        PROVE  ~c.asks
    BY <1>2 DEF Call, get_timing, get_spat, get_overlap, get_special_flags,
                get_mem, get_detector, get_timing_udp
  <1> QED
    BY <1>1, <1>2, Zenon DEF AnyCall, SerialCalls, SocketCalls

LEMMA Numbers ==
  ASSUME CallOK
  PROVE  over \in Nat /\ Bound \in Nat
  <1>1. over \in Nat
    BY CallsAssumption DEF CallOK
  <1> QED
    BY <1>1 DEF Bound

LEMMA LagInit == Init => LagInv
  <1> SUFFICES ASSUME Init PROVE LagInv
    OBVIOUS
  <1>1. /\ over = 0 /\ taken.age = 0 /\ input = <<>> /\ due = <<>>
        /\ Bound = 0 /\ taken = None
    BY DEF Init, None, Bound, Pending
  <1>2. DOMAIN input = {} /\ DOMAIN due = {} /\ Len(input) + Len(due) = 0
    BY <1>1
  <1> QED
    BY <1>1, <1>2 DEF LagInv, LineLag, Within, AnswerLag, Untaken

LEMMA Indices ==
  ASSUME NEW S, NEW seq \in Seq(S)
  PROVE  /\ Len(seq) \in Nat /\ DOMAIN seq = 1 .. Len(seq)
         /\ \A new : /\ Len(Append(seq, new)) = Len(seq) + 1
                     /\ DOMAIN Append(seq, new) = 1 .. (Len(seq) + 1)
                     /\ \A i \in DOMAIN seq : Append(seq, new)[i] = seq[i]
                     /\ Append(seq, new)[Len(seq) + 1] = new
         /\ seq # <<>> =>
              /\ 1 \in DOMAIN seq /\ Head(seq) = seq[1]
              /\ Len(Tail(seq)) = Len(seq) - 1
              /\ \A i \in DOMAIN Tail(seq) :
                   i \in Nat /\ i + 1 \in DOMAIN seq
                     /\ Tail(seq)[i] = seq[i + 1]
  <1>1. Len(seq) \in Nat /\ DOMAIN seq = 1 .. Len(seq)
    OBVIOUS
  <1>2. ASSUME NEW new
        PROVE  /\ Len(Append(seq, new)) = Len(seq) + 1
               /\ DOMAIN Append(seq, new) = 1 .. (Len(seq) + 1)
               /\ \A i \in DOMAIN seq : Append(seq, new)[i] = seq[i]
               /\ Append(seq, new)[Len(seq) + 1] = new
    OBVIOUS
  <1>3. ASSUME seq # <<>>
        PROVE  /\ 1 \in DOMAIN seq /\ Head(seq) = seq[1]
               /\ Len(Tail(seq)) = Len(seq) - 1
               /\ \A i \in DOMAIN Tail(seq) :
                    i \in Nat /\ i + 1 \in DOMAIN seq
                      /\ Tail(seq)[i] = seq[i + 1]
    BY <1>3, HeadTailProperties
  <1> QED
    BY <1>1, <1>2, <1>3

LEMMA Ages ==
  ASSUME NEW f \in Seq(Frame), NEW r \in Seq(Request)
  PROVE  /\ \A i \in DOMAIN f : f[i].age \in Nat
         /\ \A j \in DOMAIN r : r[j].age \in Nat
  <1>1. /\ \A i \in DOMAIN f : f[i] \in Frame
        /\ \A j \in DOMAIN r : r[j] \in Request
    OBVIOUS
  <1> QED
    BY <1>1 DEF Frame, Request

\* A question makes everything one older, and is the last of all.
LEMMA AskWithin ==
  ASSUME NEW f \in Seq(Frame), NEW r \in Seq(Request), NEW b \in Nat,
         NEW new, new.age = 0, Within(f, r, b)
  PROVE  Within(Older(f), Append(Older(r), new), b + 1)
  <1>1. /\ \A i \in DOMAIN f : Older(f)[i].age = f[i].age + 1
        /\ \A j \in DOMAIN r : Older(r)[j].age = r[j].age + 1
    <2>1. /\ \A i \in DOMAIN f : f[i] \in Frame
          /\ \A j \in DOMAIN r : r[j] \in Request
      OBVIOUS
    <2> QED
      BY <2>1 DEF Older, Frame, Request
  <1>2. /\ Older(f) \in Seq(Frame) /\ Older(r) \in Seq(Request)
        /\ DOMAIN Older(f) = DOMAIN f /\ DOMAIN Older(r) = DOMAIN r
    BY OlderType DEF Older
  <1>3. Len(Older(f)) = Len(f) /\ Len(Older(r)) = Len(r)
    BY <1>2, Indices
  <1> DEFINE s == Append(Older(r), new)
  <1>4. /\ Len(s) = Len(r) + 1 /\ DOMAIN s = 1 .. (Len(r) + 1)
        /\ \A j \in DOMAIN r : s[j] = Older(r)[j]
        /\ s[Len(r) + 1] = new
    BY <1>2, <1>3, Indices
  <1>5. Len(f) \in Nat /\ Len(r) \in Nat /\ DOMAIN r = 1 .. Len(r)
        /\ DOMAIN f = 1 .. Len(f)
    BY Indices
  <1> HIDE DEF s
  <1>6. \A j \in DOMAIN s : j \in DOMAIN r \/ j = Len(r) + 1
    BY <1>4, <1>5
  <1>7. ASSUME NEW j \in DOMAIN s
        PROVE  s[j].age + Len(Older(f)) + j <= b + 1
    <2>1. CASE j \in DOMAIN r
      <3> DEFINE age == r[j].age
      <3>1. s[j].age = age + 1
        BY <1>1, <1>4, <2>1
      <3>2. age \in Nat /\ j \in Nat
        BY <1>5, <2>1, Ages
      <3>3. age + Len(f) + j <= b
        BY <2>1 DEF Within
      <3>4. Len(Older(f)) = Len(f) /\ Len(f) \in Nat
        BY <1>3, <1>5
      <3> HIDE DEF age
      <3> QED
        BY ONLY <3>1, <3>2, <3>3, <3>4, b \in Nat
    <2>2. CASE j = Len(r) + 1
      <3>1. s[j].age = 0
        BY <1>4, <2>2
      <3>2. Len(f) + Len(r) <= b
        BY DEF Within
      <3> QED
        BY ONLY <1>3, <1>5, <2>2, <3>1, <3>2, b \in Nat
    <2> QED
      BY <1>6, <2>1, <2>2
  <1>8. ASSUME NEW i \in DOMAIN Older(f)
        PROVE  Older(f)[i].age + i <= b + 1
    <2>1. i \in DOMAIN f /\ i \in Nat
      BY <1>2, <1>5
    <2>2. Older(f)[i].age = f[i].age + 1 /\ f[i].age \in Nat
      BY <1>1, <2>1, Ages
    <2>3. f[i].age + i <= b
      BY <2>1 DEF Within
    <2> QED
      BY ONLY <2>1, <2>2, <2>3, b \in Nat
  <1> QED
    BY <1>3, <1>4, <1>5, <1>7, <1>8 DEF Within, s

\* Frames that are taken leave room for as many.
LEMMA ReadWithin ==
  ASSUME NEW f \in Seq(Frame), NEW r \in Seq(Request), NEW b \in Nat,
         NEW m \in 0 .. Len(f), Within(f, r, b)
  PROVE  Within(SubSeq(f, m + 1, Len(f)), r, b - m)
  <1> DEFINE g == SubSeq(f, m + 1, Len(f))
  <1>1. /\ g \in Seq(Frame) /\ Len(g) = Len(f) - m
        /\ \A i \in 1 .. (Len(f) - m) : g[i] = f[m + i]
    BY UnreadFrames
  <1>2. /\ Len(f) \in Nat /\ Len(r) \in Nat /\ DOMAIN f = 1 .. Len(f)
        /\ DOMAIN g = 1 .. (Len(f) - m) /\ \A j \in DOMAIN r : j \in Nat
        /\ m \in Nat
    BY <1>1, Indices
  <1> HIDE DEF g
  <1>3. ASSUME NEW i \in DOMAIN g
        PROVE  g[i].age + i <= b - m
    <2>1. i \in Nat /\ m + i \in DOMAIN f /\ g[i] = f[m + i]
      BY <1>1, <1>2
    <2>2. g[i].age \in Nat
      BY <2>1, Ages
    <2>3. g[i].age + (m + i) <= b
      BY <2>1 DEF Within
    <2> QED
      BY ONLY <1>2, <2>1, <2>2, <2>3, b \in Nat
  <1>4. ASSUME NEW j \in DOMAIN r
        PROVE  r[j].age + Len(g) + j <= b - m
    <2>1. r[j].age \in Nat /\ j \in Nat
      BY <1>2, Ages
    <2>2. r[j].age + Len(f) + j <= b
      BY DEF Within
    <2> QED
      BY ONLY <1>1, <1>2, <2>1, <2>2, b \in Nat
  <1>5. Len(g) + Len(r) <= b - m
    <2>1. Len(f) + Len(r) <= b
      BY DEF Within
    <2> QED
      BY ONLY <1>1, <1>2, <2>1, b \in Nat
  <1> QED
    BY <1>3, <1>4, <1>5 DEF Within, g

\* Damage does not change a place.
LEMMA SpoiltWithin ==
  ASSUME NEW f \in Seq(Frame), f # <<>>, NEW r, NEW b, Within(f, r, b)
  PROVE  Within(Spoilt(f), r, b)
  <1>1. /\ Spoilt(f) \in Seq(Frame) /\ Len(Spoilt(f)) = Len(f)
        /\ \A i \in 1 .. Len(f) : Spoilt(f)[i].age = f[i].age
    BY SpoiltFrames
  <1>2. DOMAIN f = 1 .. Len(f) /\ DOMAIN Spoilt(f) = 1 .. Len(f)
    BY <1>1, Indices
  <1> QED
    BY <1>1, <1>2 DEF Within

\* An answer changes its place from the requests to the frames.
LEMMA AnswerWithin ==
  ASSUME NEW f \in Seq(Frame), NEW r \in Seq(Request), NEW b \in Nat,
         r # <<>>, Within(f, r, b)
  PROVE  /\ Within(f, Tail(r), b)
         /\ \A new : new.age = Head(r).age =>
              Within(Append(f, new), Tail(r), b)
  <1>1. /\ 1 \in DOMAIN r /\ Head(r) = r[1] /\ Len(Tail(r)) = Len(r) - 1
        /\ \A j \in DOMAIN Tail(r) :
             j \in Nat /\ j + 1 \in DOMAIN r /\ Tail(r)[j] = r[j + 1]
    BY Indices
  <1>2. Len(f) \in Nat /\ Len(r) \in Nat /\ DOMAIN f = 1 .. Len(f)
    BY Indices
  <1>3. ASSUME NEW j \in DOMAIN Tail(r)
        PROVE  Tail(r)[j].age + (Len(f) + 1) + j <= b
    <2>1. /\ j \in Nat /\ j + 1 \in DOMAIN r /\ Tail(r)[j] = r[j + 1]
          /\ r[j + 1].age \in Nat
      BY <1>1, Ages
    <2>2. r[j + 1].age + Len(f) + (j + 1) <= b
      BY <2>1 DEF Within
    <2> QED
      BY <1>2, <2>1, <2>2
  <1>4. ASSUME NEW j \in DOMAIN Tail(r)
        PROVE  Tail(r)[j].age + Len(f) + j <= b
    <2>1. Tail(r)[j].age \in Nat /\ j \in Nat
      BY <1>1, Ages
    <2>2. Tail(r)[j].age + (Len(f) + 1) + j <= b
      BY <1>3
    <2> QED
      BY ONLY <1>2, <2>1, <2>2, b \in Nat
  <1>5. Within(f, Tail(r), b)
    BY <1>1, <1>2, <1>4 DEF Within
  <1>6. ASSUME NEW new, new.age = Head(r).age
        PROVE  Within(Append(f, new), Tail(r), b)
    <2> DEFINE g == Append(f, new)
    <2>1. /\ Len(g) = Len(f) + 1 /\ DOMAIN g = 1 .. (Len(f) + 1)
          /\ \A i \in DOMAIN f : g[i] = f[i]
          /\ g[Len(f) + 1] = new
      BY Indices
    <2> HIDE DEF g
    <2>2. \A i \in DOMAIN g : i \in DOMAIN f \/ i = Len(f) + 1
      BY <1>2, <2>1
    <2>3. ASSUME NEW i \in DOMAIN g
          PROVE  g[i].age + i <= b
      <3>1. CASE i \in DOMAIN f
        BY <2>1, <3>1 DEF Within
      <3>2. CASE i = Len(f) + 1
        <4>1. r[1].age \in Nat /\ g[i].age = r[1].age
          BY <1>1, <1>6, <2>1, <3>2, Ages
        <4>2. r[1].age + Len(f) + 1 <= b
          BY <1>1 DEF Within
        <4> QED
          BY ONLY <1>2, <3>2, <4>1, <4>2, b \in Nat
      <3> QED
        BY <2>2, <3>1, <3>2
    <2>4. \A j \in DOMAIN Tail(r) : Tail(r)[j].age + Len(g) + j <= b
      BY <1>3, <2>1
    <2>5. Len(g) + Len(Tail(r)) <= b
      <3>1. Len(f) + Len(r) <= b
        BY DEF Within
      <3>2. Len(g) = Len(f) + 1 /\ Len(Tail(r)) = Len(r) - 1
        BY <1>1, <2>1
      <3>3. (Len(f) + 1) + (Len(r) - 1) = Len(f) + Len(r)
        BY <1>2
      <3> QED
        BY ONLY <3>1, <3>2, <3>3
    <2> QED
      BY <2>3, <2>4, <2>5 DEF Within, g
  <1> QED
    BY <1>5, <1>6

\* A frame that nobody asked for.
LEMMA UnaskedWithin ==
  ASSUME NEW f \in Seq(Frame), NEW r \in Seq(Request), NEW b \in Nat,
         NEW new, new.age = 0, Within(f, r, b)
  PROVE  Within(Append(f, new), r, b + 1)
  <1> DEFINE g == Append(f, new)
  <1>1. /\ Len(g) = Len(f) + 1 /\ DOMAIN g = 1 .. (Len(f) + 1)
        /\ \A i \in DOMAIN f : g[i] = f[i]
        /\ g[Len(f) + 1] = new
    BY Indices
  <1>2. Len(f) \in Nat /\ Len(r) \in Nat /\ DOMAIN f = 1 .. Len(f)
        /\ DOMAIN r = 1 .. Len(r)
    BY Indices
  <1> HIDE DEF g
  <1>3. \A i \in DOMAIN g : i \in DOMAIN f \/ i = Len(f) + 1
    BY <1>1, <1>2
  <1>4. ASSUME NEW i \in DOMAIN g
        PROVE  g[i].age + i <= b + 1
    <2>1. CASE i \in DOMAIN f
      <3>1. g[i] = f[i] /\ f[i].age \in Nat /\ i \in Nat
        BY <1>1, <1>2, <2>1, Ages
      <3>2. f[i].age + i <= b
        BY <2>1 DEF Within
      <3> QED
        BY ONLY <3>1, <3>2, b \in Nat
    <2>2. CASE i = Len(f) + 1
      <3>1. g[i].age = 0
        BY <1>1, <2>2
      <3>2. Len(f) <= b
        BY <1>2 DEF Within
      <3> QED
        BY ONLY <1>2, <2>2, <3>1, <3>2, b \in Nat
    <2> QED
      BY <1>3, <2>1, <2>2
  <1>5. ASSUME NEW j \in DOMAIN r
        PROVE  r[j].age + Len(g) + j <= b + 1
    <2>1. r[j].age \in Nat /\ j \in Nat
      BY <1>2, Ages
    <2>2. r[j].age + Len(f) + j <= b
      BY DEF Within
    <2> QED
      BY ONLY <1>1, <1>2, <2>1, <2>2, b \in Nat
  <1> QED
    BY <1>1, <1>2, <1>4, <1>5 DEF Within, g

\* What a step of a call does to the bound.
LEMMA SendBound ==
  ASSUME Send, line = "serial"
  PROVE  \/ /\ due' = Append(Older(due), [to |-> call.name, age |-> 0])
            /\ input' = Older(input) /\ Bound' = Bound + 1
         \/ due' = due /\ input' = input /\ Bound' = Bound
  <1>1. Bound = over /\ call' = call
    BY DEF Send, Bound, Pending
  <1>2. CASE call.asks
    <2>1. /\ due' = Append(Older(due), [to |-> call.name, age |-> 0])
          /\ input' = Older(input)
      BY <1>2, Zenon DEF Send
    <2>2. (pc' = "await" /\ over' = over) \/ (pc' = "idle" /\ LeftOver)
      BY <1>2 DEF Send, Sent
    <2>3. Bound' = over + 1
      BY <1>1, <1>2, <2>2 DEF Bound, Pending, LeftOver
    <2> QED
      BY <1>1, <2>1, <2>3
  <1>3. CASE ~call.asks
    <2>1. due' = due /\ input' = input
      BY <1>3, Zenon DEF Send
    <2>2. over' = over
      BY <1>3 DEF Send, Sent
    <2>3. Bound' = over
      BY <1>1, <1>3, <2>2 DEF Bound, Pending
    <2> QED
      BY <1>1, <2>1, <2>3
  <1> QED
    BY <1>2, <1>3

LEMMA WaitBound ==
  ASSUME TimeOut \/ Interrupt, line = "serial"
  PROVE  (due = <<>> /\ input = <<>>) \/ Bound' = Bound
  <1>1. pc = "await" /\ input = <<>> /\ call' = call
    BY CallEffect DEF TimeOut, Interrupt
  <1>2. CASE pc' = "read" /\ over' = over
    BY <1>1, <1>2 DEF Bound, Pending
  <1>3. CASE GiveUp
    <2>1. pc' = "idle"
      BY <1>3 DEF GiveUp, Return
    <2>2. CASE call.asks /\ due # <<>>
      BY <1>1, <1>3, <2>1, <2>2 DEF GiveUp, LeftOver, Bound, Pending
    <2>3. CASE ~call.asks
      <3>1. over' = over
        BY <1>3, <2>3 DEF GiveUp
      <3> QED
        BY <1>1, <2>1, <2>3, <3>1 DEF Bound, Pending
    <2> QED
      BY <1>1, <2>2, <2>3
  <1>4. GiveUp \/ UNCHANGED <<call, retval, taken, line, frames, probe>>
    BY Zenon DEF TimeOut, Interrupt
  <1>5. pc' = "read" \/ pc' = "idle"
    BY CallEffect
  <1>6. UNCHANGED <<call, retval, taken, line, frames, probe>> => over' = over
    BY DEF frames
  <1>7. GiveUp \/ pc' = "read"
    BY Zenon DEF TimeOut, Interrupt
  <1> QED
    BY <1>2, <1>3, <1>4, <1>6, <1>7

LEMMA ReadBound ==
  ASSUME CallOK, Read, NEW m \in Nat, Gone(m)
  PROVE  Bound' = Bound - m /\ over' = Bound - m /\ over' \in Nat
  <1>1. pc \in {"await", "read", "byte"} /\ pc' = "idle" /\ over \in Nat
    BY CallEffect, Numbers DEF Read
  <1>2. Bound' = over' /\ over' \in Nat
    BY <1>1, CallsAssumption DEF Bound, Pending, Gone
  <1>3. CASE call.asks
    BY <1>1, <1>2, <1>3 DEF Bound, Pending, Gone
  <1>4. CASE ~call.asks
    BY <1>1, <1>2, <1>4 DEF Bound, Pending, Gone
  <1> QED
    BY <1>3, <1>4

LEMMA BeginBound ==
  ASSUME NEW c \in AnyCall, Begin(c)
  PROVE  /\ Bound' = Bound /\ due' = due /\ input' = input /\ line' = line
         /\ taken' = None /\ over' = over
  <1>1. /\ due' = due /\ input' = input /\ line' = line /\ taken' = None
        /\ over' = over /\ pc = "idle" /\ call' = c
    BY DEF Begin, frames
  <1>2. CASE c.name = "get_spat"
    BY <1>1, <1>2, SpatDoesNotAsk DEF Bound, Pending
  <1>3. CASE c.name # "get_spat"
    <2>1. pc' = "send"
      BY <1>3 DEF Begin
    <2> QED
      BY <1>1, <2>1 DEF Bound, Pending
  <1> QED
    BY <1>2, <1>3

LEMMA TakenLag ==
  ASSUME CallOK, AnswerLag, call' = call, taken' = taken,
         over' = over \/ LeftOver
  PROVE  AnswerLag'
  <1>1. over \in Nat /\ (taken.age \in Nat \/ taken.age = 0)
    BY Numbers DEF CallOK, Frame, None
  <1>2. over' >= over /\ over' \in Nat
    BY <1>1 DEF LeftOver
  <1>3. taken.age <= over => taken'.age <= over'
    BY <1>1, <1>2
  <1> QED
    BY <1>3 DEF AnswerLag

LEMMA UntakenStep == Untaken /\ [Next]_vars => Untaken'
  <1> SUFFICES ASSUME Untaken, [Next]_vars PROVE Untaken'
    OBVIOUS
  <1> USE DEF Untaken
  <1>1. CASE pc' = "idle" \/ taken' = None
    BY <1>1
  <1>2. CASE pc # "idle" /\ taken' = taken
    BY <1>2
  <1>3. CASE pc' = pc /\ taken' = taken
    BY <1>3
  <1>4. calls' = calls => pc' = pc /\ taken' = taken
    BY DEF calls
  <1>5. (\E c : Begin(c)) => taken' = None
    BY Zenon DEF Begin
  <1>6. CASE Probing \/ OtherCall
    <2>1. ReadChunk \/ OtherCall => \E c : Begin(c)
      BY Zenon DEF ReadChunk, OtherCall
    <2>2. Byte => Begin(set_timing) \/ calls' = calls
      BY ByteEffect
    <2>3. EndChunk \/ ExitProbe => calls' = calls
      BY DEF EndChunk, ExitProbe
    <2> QED
      BY <1>1, <1>3, <1>4, <1>5, <1>6, <2>1, <2>2, <2>3, Zenon DEF Probing
  <1>7. CASE BeginClosed
    BY <1>1, <1>7, Zenon DEF BeginClosed
  <1>8. CASE Send \/ TimeOut \/ Interrupt \/ Block \/ Receive
    <2>1. taken' = taken
      BY <1>8, CallEffect, Zenon
    <2>2. pc # "idle"
      BY <1>8 DEF Send, TimeOut, Interrupt, Block, Receive
    <2> QED
      BY <1>2, <2>1, <2>2
  <1>9. CASE SendStuck \/ Read \/ ReadSocket
    <2>1. pc' = "idle"
      BY <1>9, CallEffect, Zenon
    <2> QED
      BY <1>1, <2>1
  <1>10. CASE Answer \/ Lose \/ Unasked
    BY <1>3, <1>4, <1>10, Zenon DEF Answer, Lose, Unasked
  <1>11. CASE UNCHANGED vars
    BY <1>3, <1>4, <1>11 DEF vars
  <1> QED
    BY <1>6, <1>7, <1>8, <1>9, <1>10, <1>11, Zenon DEF Next, Calling

LEMMA LagStep == TypeOK /\ LagInv /\ [Next]_vars => LagInv'
  <1> SUFFICES ASSUME TypeOK, LagInv, [Next]_vars PROVE LagInv'
    OBVIOUS
  <1>1. CallOK /\ CallOK'
    BY TypeSplit, TypeStep, Zenon DEF TypeOK, CallOK, AnyCall
  <1>2. /\ due \in Seq(Request) /\ input \in Seq(Frame)
        /\ over \in Nat /\ Bound \in Nat
    BY <1>1, Numbers DEF CallOK
  <1>3. AnswerLag /\ (line = "serial" => Within(input, due, Bound))
    BY DEF LagInv, LineLag
  <1>0. Untaken /\ Untaken'
    BY UntakenStep, Zenon DEF LagInv
  <1>4. CASE \E c \in AnyCall : Begin(c)
    <2>1. PICK c \in AnyCall : Begin(c)
      BY <1>4
    <2>2. taken'.age = 0 /\ over' \in Nat
      BY <1>2, <2>1, BeginBound DEF None
    <2>3. AnswerLag'
      BY <2>2 DEF AnswerLag
    <2> QED
      BY <1>0, <1>3, <2>1, <2>3, BeginBound DEF LagInv, LineLag
  <1>5. CASE UNCHANGED <<calls, line, frames>>
    <2>1. /\ line' = line /\ due' = due /\ input' = input
          /\ Bound' = Bound /\ call' = call /\ taken' = taken /\ over' = over
      BY <1>5 DEF calls, frames, Bound, Pending
    <2> QED
      BY <1>0, <1>1, <1>3, <2>1, TakenLag DEF LagInv, LineLag
  <1>6. CASE BeginClosed
    BY <1>0, <1>2, <1>6
       DEF BeginClosed, frames, LagInv, LineLag, AnswerLag, None
  <1>7. CASE Send
    <2>1. /\ call' = call /\ taken' = taken /\ line' = line
          /\ over' = over \/ LeftOver
      BY <1>7, CallEffect, Zenon
    <2>2. ASSUME line = "serial" PROVE LineLag'
      <3>1. CASE /\ due' = Append(Older(due),
                                  [to |-> call.name, age |-> 0])
                 /\ input' = Older(input) /\ Bound' = Bound + 1
        BY <1>2, <1>3, <2>2, <3>1, AskWithin DEF LineLag
      <3>2. CASE due' = due /\ input' = input /\ Bound' = Bound
        BY <1>3, <2>2, <3>2 DEF LineLag
      <3> QED
        BY <1>7, <2>2, <3>1, <3>2, SendBound
    <2> QED
      BY <1>0, <1>1, <1>3, <2>1, <2>2, TakenLag DEF LagInv
  <1>8. CASE SendStuck
    <2>1. /\ call' = call /\ taken' = taken /\ line' = line
          /\ due' = due /\ input' = input /\ over' = over
      BY <1>8, CallEffect DEF frames
    <2>2. Bound' = Bound
      BY <1>8, <2>1, CallEffect DEF SendStuck, Bound, Pending
    <2> QED
      BY <1>0, <1>1, <1>3, <2>1, <2>2, TakenLag DEF LagInv, LineLag
  <1>9. CASE TimeOut \/ Interrupt
    <2>1. /\ call' = call /\ taken' = taken /\ line' = line
          /\ due' = due /\ input' = input
          /\ over' = over \/ LeftOver
      BY <1>9, CallEffect, Zenon
    <2>2. ASSUME line = "serial" PROVE LineLag'
      <3>1. CASE due = <<>> /\ input = <<>>
        <4>1. Within(<<>>, <<>>, Bound')
          <5>1. Bound' \in Nat
            BY <1>2, <2>1 DEF Bound, LeftOver
          <5> QED
            BY <5>1 DEF Within
        <4> QED
          BY <2>1, <3>1, <4>1 DEF LineLag
      <3>2. CASE Bound' = Bound
        BY <1>3, <2>1, <2>2, <3>2 DEF LineLag
      <3> QED
        BY <1>9, <2>2, <3>1, <3>2, WaitBound
    <2> QED
      BY <1>0, <1>1, <1>3, <2>1, <2>2, TakenLag DEF LagInv
  <1>10. CASE Read
    <2>1. call' = call /\ line' = line /\ due' = due /\ line = "serial"
      BY <1>10, CallEffect, Zenon DEF Read
    <2>2. ASSUME NEW m \in 0 .. Len(input), Gone(m)
          PROVE  /\ Within(Unread(m), due', Bound')
                 /\ Bound' = Bound - m /\ over' = Bound - m /\ over' \in Nat
      <3>1. m \in Nat
        BY <1>2
      <3>2. Bound' = Bound - m /\ over' = Bound - m /\ over' \in Nat
        BY <1>1, <1>10, <2>2, <3>1, ReadBound
      <3>3. Within(Unread(m), due, Bound - m)
        BY <1>2, <1>3, <2>1, ReadWithin DEF Unread
      <3> QED
        BY <2>1, <3>2, <3>3
    <2>3. PICK n \in DOMAIN input :
            \/ /\ input' = Unread(n) /\ Gone(n)
               /\ taken' = taken \/ taken' = input[n]
            \/ /\ input' = Spoilt(Unread(n - 1)) /\ Gone(n - 1)
               /\ taken' = taken
      BY <1>10, CallEffect, Zenon
    <2>4. /\ n \in 0 .. Len(input) /\ n - 1 \in 0 .. Len(input)
          /\ Unread(n - 1) \in Seq(Frame) /\ Unread(n - 1) # <<>>
      BY <1>2, ReadFrames
    <2>5. LineLag' /\ over' \in Nat
      <3>1. CASE input' = Unread(n) /\ Gone(n)
        BY <2>2, <2>4, <3>1 DEF LineLag
      <3>2. CASE input' = Spoilt(Unread(n - 1)) /\ Gone(n - 1)
        <4>1. Within(Unread(n - 1), due', Bound') /\ over' \in Nat
          BY <2>2, <2>4, <3>2
        <4>2. Within(Spoilt(Unread(n - 1)), due', Bound')
          BY <2>4, <4>1, SpoiltWithin
        <4> QED
          BY <3>2, <4>1, <4>2 DEF LineLag
      <3> QED
        BY <2>3, <3>1, <3>2
    <2>6. CASE taken' = taken
      <3>1. taken'.age = 0
        BY <1>0, <1>10, <2>6 DEF Untaken, Read, None
      <3>2. AnswerLag'
        BY <2>5, <3>1 DEF AnswerLag
      <3> QED
        BY <1>0, <2>5, <3>2 DEF LagInv
    <2>7. CASE taken' = input[n] /\ Gone(n)
      <3>1. input[n].age + n <= Bound /\ input[n].age \in Nat /\ n \in Nat
        BY <1>2, <1>3, <2>1, <2>4, Ages DEF Within
      <3>2. over' = Bound - n
        BY <2>2, <2>4, <2>7
      <3>3. input[n].age <= over'
        BY <1>2, <3>1, <3>2
      <3>4. AnswerLag'
        BY <2>7, <3>3 DEF AnswerLag
      <3> QED
        BY <1>0, <2>5, <3>4 DEF LagInv
    <2> QED
      BY <2>3, <2>6, <2>7
  <1>16. CASE Block
    <2>1. /\ line' = line /\ due' = due /\ input' = input /\ over' = over
          /\ call' = call /\ taken' = taken
      BY <1>16, CallEffect DEF frames
    <2>2. pc \in {"await", "read"} /\ pc' = "byte"
      BY <1>16 DEF Block
    <2>3. Bound' = Bound
      BY <2>1, <2>2 DEF Bound, Pending
    <2> QED
      BY <1>0, <1>1, <1>3, <2>1, <2>3, TakenLag DEF LagInv, LineLag
  <1>11. CASE ReadSocket \/ Receive
    <2>1. /\ call' = call /\ taken' = taken /\ line' = line /\ over' = over
          /\ line = "socket"
      BY <1>1, <1>11, CallEffect DEF ReadSocket, Receive, CallOK
    <2> QED
      BY <1>0, <1>1, <1>3, <2>1, TakenLag DEF LagInv
  <1>12. CASE Answer \/ Lose
    <2>1. /\ line' = line /\ over' = over /\ calls' = calls
          /\ due # <<>> /\ due' = Tail(due)
      BY <1>12, Zenon DEF Answer, Lose
    <2>2. /\ call' = call /\ taken' = taken /\ Bound' = Bound
      BY <2>1 DEF calls, Bound, Pending
    <2>3. \/ input' = input
          \/ \E new : new.age = Head(due).age /\ input' = Append(input, new)
      BY <1>12 DEF Answer, Lose
    <2>4. line = "serial" => LineLag'
      BY <1>2, <1>3, <2>1, <2>2, <2>3, AnswerWithin DEF LineLag
    <2> QED
      BY <1>0, <1>1, <1>3, <2>1, <2>2, <2>4, TakenLag DEF LagInv
  <1>13. CASE Unasked
    <2>1. /\ line' = line /\ calls' = calls /\ due' = due /\ LeftOver
          /\ input' = Append(input, [to |-> "nobody", age |-> 0,
                                     whole |-> TRUE])
      BY <1>13, Zenon DEF Unasked
    <2>2. call' = call /\ taken' = taken /\ Bound' = Bound + 1
      BY <1>2, <2>1 DEF calls, Bound, Pending, LeftOver
    <2>3. line = "serial" => LineLag'
      BY <1>2, <1>3, <2>1, <2>2, UnaskedWithin DEF LineLag
    <2> QED
      BY <1>0, <1>1, <1>3, <2>1, <2>2, <2>3, TakenLag DEF LagInv
  <1>14. Probing \/ OtherCall =>
           (\E c \in AnyCall : Begin(c)) \/ UNCHANGED <<calls, line, frames>>
    <2>1. ReadChunk \/ OtherCall => \E c \in AnyCall : Begin(c)
      BY ProbeCalls DEF ReadChunk, OtherCall, AnyCall
    <2>2. Byte => Begin(set_timing) \/ UNCHANGED <<calls, line, frames>>
      BY ByteEffect
    <2>3. EndChunk \/ ExitProbe => UNCHANGED <<calls, line, frames>>
      BY DEF EndChunk, ExitProbe
    <2> QED
      BY <2>1, <2>2, <2>3, ProbeCalls DEF Probing
  <1>15. UNCHANGED vars => UNCHANGED <<calls, line, frames>>
    BY DEF vars
  <1> QED
    BY <1>4, <1>5, <1>6, <1>7, <1>8, <1>9, <1>10, <1>11, <1>12, <1>13, <1>14,
       <1>15, <1>16, Zenon DEF Next, Calling

(* The frame a call is answered with is at most as many questions old as   *)
(* frames or rests of frames were left over, for any number of them, any   *)
(* losses and damage, frames nobody asked for and calls that do not ask or *)
(* do not wait.                                                            *)
THEOREM AnswersLagBounded == Spec => []AnswerLag
  <1>1. LagInv => AnswerLag
    BY DEF LagInv
  <1> QED
    BY <1>1, CallTypes, LagInit, LagStep, PTL DEF Spec
=============================================================================
