------------------------------ MODULE UartLink ------------------------------
(***************************************************************************)
(* The serial transport of src/core/bno055.cpp: write8_raw, writeLen_raw,  *)
(* read8_raw and readLen_raw send a request frame and take the answer from *)
(* the tty, two bytes of header and then the data, each with               *)
(* uart_read_exact.  Nothing empties the tty but opening it anew, which a  *)
(* transaction does when its attempts have failed.  mutex_ is held for an  *)
(* attempt: those of several callers alternate.  An answer takes any time: *)
(* the time-out, and the sleeps of 0.5 to 5 ms before the next attempt,    *)
(* may end before it is there.                                             *)
(*                                                                         *)
(* A byte is a string; the byte 01 is both the status "success" and the    *)
(* length of a read8.  Addresses, values and the length of a burst are     *)
(* abstract, and a burst repeats the value of its register.  The writes    *)
(* with which reconnect() restores the configuration are left out.         *)
(***************************************************************************)
EXTENDS Naturals, Sequences

CONSTANTS
  Callers, NoCaller,
  Registers, Values,
  BurstLength,     \* bytes of data a readLen asks for
  Retries, BurstRetries,   \* attempts before the tty is opened anew (3 and 5)
  MaxSpoilt,       \* bound: frames in which the line alters or loses a byte
  MaxLine,         \* bound: bytes on the line and in the tty, which loses what does not fit
  MaxWire          \* bound: requests on their way to the chip

ASSUME BurstAssumption == BurstLength \in Nat \ {0, 1}
ASSUME LinkAssumption ==
  /\ MaxSpoilt \in Nat /\ MaxLine \in Nat /\ MaxWire \in Nat
  /\ Retries \in Nat \ {0} /\ BurstRetries \in Nat \ {0}
  /\ NoCaller \notin Callers /\ {"none", "mixed"} \cap Values = {}

VARIABLES
  regs,        \* the chip's registers
  pending,     \* the transaction each caller is about, or NoRequest
  tries,       \* its failed attempts
  caller,      \* the caller that holds mutex_, or NoCaller
  pc,          \* where its attempt is; "idle" between attempts
  request,     \* the transaction of this attempt, or that of the last one
  wire,        \* request frames the chip has not looked at
  line,        \* bytes of answers the host has not taken, in order
  arrived,     \* how many of them are in the tty
  result,      \* what the last attempt returned
  spoilt,      \* frames so altered
  performed, seen,   \* history: is the request performed, and what did it read?
  faulty,            \* history: has anything gone wrong since the tty was opened?
  torn               \* history: did a frame come in part, altered or late since then?

callVars == <<pending, tries, caller>>
chipVars == <<regs, wire, performed, seen>>
vars == <<callVars, chipVars, pc, request, line, arrived, result, spoilt, faulty, torn>>

Bus == INSTANCE RegisterBus WITH open <- pc \notin {"idle", "opened"}

Header(r) ==
  CASE r.kind = "write"   -> <<"EE", "01">>
    [] r.kind = "read8"   -> <<"BB", "01">>
    [] r.kind = "readLen" -> <<"BB", "len">>
Refusal == <<"EE", "07">>

Length(r) ==
  CASE r.kind = "write" -> 0 [] r.kind = "read8" -> 1 [] r.kind = "readLen" -> BurstLength
Repeat(v, n) == [i \in 1 .. n |-> v]
Answer(r) == Header(r) \o Repeat(regs[r.reg], Length(r))

\* The value in the bytes of a read, if they are all of one register.
Payload(bytes) ==
  IF \E v \in Values : \A i \in DOMAIN bytes : bytes[i] = v THEN bytes[1] ELSE "mixed"
-----------------------------------------------------------------------------
(* The host.                                                                *)

Limit(r) == IF r.kind = "readLen" THEN BurstRetries ELSE Retries
UnderWay == wire # <<>> \/ arrived < Len(line)

\* An attempt begins: its frame goes out, or ::write does not take all of it; of a
\* part of a frame the chip makes what it may.
Send(c, r) ==
  /\ \/ pc = "idle" /\ tries[c] < Limit(r)
     \/ pc = "opened" /\ caller = c
  /\ pending[c] \in {r, Bus!NoRequest} /\ pending' = [pending EXCEPT ![c] = r]
  /\ Len(wire) < MaxWire
  /\ caller' = c
  /\ request' = r /\ performed' = FALSE /\ seen' = "none"
  /\ \/ pc' = "header" /\ wire' = Append(wire, r) /\ UNCHANGED <<faulty, torn>>
     \/ pc' = "unsent" /\ faulty' = TRUE /\ torn' \in {torn, TRUE} /\ UNCHANGED wire
  /\ UNCHANGED <<regs, tries, line, arrived, result, spoilt>>

\* The transaction is over with a success, or when the attempt after the opening
\* has failed too.
Leave(ok) ==
  /\ pc' = "idle" /\ caller' = NoCaller
  /\ LET over == ok \/ tries[caller] = Limit(pending[caller]) IN
     /\ pending' = [pending EXCEPT ![caller] = IF over THEN Bus!NoRequest ELSE @]
     /\ tries' = [tries EXCEPT ![caller] = IF over THEN 0 ELSE @ + 1]

Return(returned) ==
  /\ Leave(returned.ok) /\ result' = returned
  /\ UNCHANGED <<chipVars, request, spoilt>>

Unsent == pc = "unsent" /\ Return(Bus!Failure) /\ UNCHANGED <<line, arrived, faulty, torn>>

\* Mutant of Take: the bytes taken are counted as still there.
TakeUncounted(n) ==
  /\ arrived >= n
  /\ line' = SubSeq(line, n + 1, Len(line))
  /\ arrived' = arrived

\* uart_read_exact has got its n bytes.
Take(n) ==
  /\ arrived >= n
  /\ line' = SubSeq(line, n + 1, Len(line))
  /\ arrived' = arrived - n

\* Mutant of TakeHeader: the answer is not looked at.
TakeAnyHeader ==
  /\ pc = "header" /\ Take(2)
  /\ \/ Length(request) = 0 /\ Return([ok |-> TRUE, val |-> "none"])
     \/ /\ Length(request) > 0
        /\ pc' = "payload"
        /\ UNCHANGED <<callVars, chipVars, request, result, spoilt>>
  /\ UNCHANGED <<faulty, torn>>

TakeHeader ==
  /\ pc = "header" /\ Take(2)
  /\ LET matches == SubSeq(line, 1, 2) = Header(request) IN
     \/ ~matches /\ Return(Bus!Failure)
     \/ matches /\ Length(request) = 0 /\ Return([ok |-> TRUE, val |-> "none"])
     \/ /\ matches /\ Length(request) > 0
        /\ pc' = "payload"
        /\ UNCHANGED <<callVars, chipVars, request, result, spoilt>>
  /\ UNCHANGED <<faulty, torn>>

TakePayload ==
  /\ pc = "payload" /\ Take(Length(request))
  /\ Return([ok |-> TRUE, val |-> Payload(SubSeq(line, 1, Length(request)))])
  /\ UNCHANGED <<faulty, torn>>

Wanted == IF pc = "header" THEN 2 ELSE Length(request)

\* Mutant of TimeOut: poll() is called again.
PollAgain ==
  /\ pc \in {"header", "payload"}
  /\ arrived < Wanted
  /\ UNCHANGED vars

\* poll() times out: what came of the answer is gone, the rest may follow.
TimeOut ==
  /\ pc \in {"header", "payload"}
  /\ arrived < Wanted
  /\ Take(arrived)
  /\ Return(Bus!Failure)
  /\ faulty' = (faulty \/ UnderWay) /\ torn' = (torn \/ UnderWay)

\* Mutant of Reopen: the tty keeps its bytes.
ReopenKeeping(c) ==
  /\ pc = "idle" /\ pending[c] # Bus!NoRequest /\ tries[c] = Limit(pending[c])
  /\ pc' = "opened" /\ caller' = c
  /\ faulty' = UnderWay /\ torn' = UnderWay
  /\ UNCHANGED <<chipVars, pending, tries, request, result, line, arrived, spoilt>>

\* The attempts have failed: close_i2c() and open_i2c(), in reconnect() and at the
\* end of readLen.  What the tty holds is discarded.
Reopen(c) ==
  /\ pc = "idle" /\ pending[c] # Bus!NoRequest /\ tries[c] = Limit(pending[c])
  /\ pc' = "opened" /\ caller' = c
  /\ Take(arrived)
  /\ faulty' = UnderWay /\ torn' = UnderWay
  /\ UNCHANGED <<chipVars, pending, tries, request, result, spoilt>>

\* The tty does not open, or reconnect() does not get to the last attempt.
GiveUp ==
  /\ pc = "opened" /\ Leave(FALSE)
  /\ faulty' = TRUE
  /\ UNCHANGED <<chipVars, request, result, line, arrived, spoilt, torn>>
-----------------------------------------------------------------------------
(* The line and the chip.                                                   *)

Bytes == {"EE", "BB", "01", "07", "len"} \cup Values

Without(bytes, i) == SubSeq(bytes, 1, i - 1) \o SubSeq(bytes, i + 1, Len(bytes))

\* A byte of the frame gets lost, or altered: frames carry no checksum.
Damaged(bytes) ==
       {Without(bytes, i) : i \in DOMAIN bytes}
  \cup {[bytes EXCEPT ![i] = b] : i \in DOMAIN bytes, b \in Bytes}

Fits(bytes) == Len(line) + Len(bytes) <= MaxLine

\* What becomes of an answer: all of it, nothing, or a damaged frame.
Transmit(bytes) ==
  \/ Fits(bytes) /\ line' = line \o bytes /\ UNCHANGED <<spoilt, faulty, torn>>
  \/ line' = line /\ faulty' = TRUE /\ UNCHANGED <<spoilt, torn>>
  \/ /\ spoilt < MaxSpoilt /\ Fits(bytes)
     /\ \E frame \in Damaged(bytes) : line' = line \o frame
     /\ spoilt' = spoilt + 1 /\ faulty' = TRUE /\ torn' = TRUE

\* A byte of a request is altered, and makes another request of it.
AlterRequest ==
  /\ wire # <<>> /\ spoilt < MaxSpoilt
  /\ \E r \in Bus!Requests : wire' = <<r>> \o Tail(wire)
  /\ spoilt' = spoilt + 1 /\ faulty' = TRUE /\ torn' = TRUE
  /\ UNCHANGED <<callVars, regs, performed, seen, pc, request, line, arrived, result>>

\* The chip performs the oldest request and answers it.
ChipPerforms ==
  /\ wire # <<>>
  /\ wire' = Tail(wire)
  /\ LET r == Head(wire) IN
     /\ Transmit(Answer(r))
     /\ regs' = Bus!Stored(r, regs)
     /\ IF r = request /\ Len(wire) = 1 /\ pc # "unsent"
        THEN performed' = TRUE /\ seen' = Bus!Read(r, regs)
        ELSE UNCHANGED <<performed, seen>>
  /\ UNCHANGED <<callVars, pc, request, arrived, result>>

\* The chip refuses the request (a bus overrun), or never gets it.
ChipRefuses ==
  /\ wire # <<>>
  /\ wire' = Tail(wire)
  /\ line' = line \/ (Fits(Refusal) /\ line' = line \o Refusal)
  /\ faulty' = TRUE
  /\ UNCHANGED <<callVars, regs, performed, seen, pc, request, arrived, result, spoilt, torn>>

Arrive ==
  /\ arrived < Len(line)
  /\ arrived' \in arrived + 1 .. Len(line)
  /\ UNCHANGED <<callVars, chipVars, pc, request, line, result, spoilt, faulty, torn>>
-----------------------------------------------------------------------------
Init ==
  /\ regs \in [Registers -> Values]
  /\ pc = "idle" /\ request = Bus!NoRequest /\ caller = NoCaller
  /\ pending = [c \in Callers |-> Bus!NoRequest] /\ tries = [c \in Callers |-> 0]
  /\ wire = <<>> /\ line = <<>> /\ arrived = 0
  /\ result = Bus!Failure
  /\ spoilt = 0 /\ performed = FALSE /\ seen = "none"
  /\ faulty = FALSE /\ torn = FALSE

AttemptStep == Unsent \/ TakeHeader \/ TakePayload \/ TimeOut \/ GiveUp
ChipStep == ChipPerforms \/ ChipRefuses
Step(c) == Reopen(c) \/ \E r \in Bus!Requests : Send(c, r)

Next ==
  \/ \E c \in Callers : Step(c)
  \/ AttemptStep \/ ChipStep \/ AlterRequest \/ Arrive

Spec == Init /\ [][Next]_vars

\* An attempt goes on, the chip looks at what reaches it, and bytes arrive.
FairSpec ==
  /\ Spec
  /\ WF_vars(AttemptStep \/ (pc = "opened" /\ \E c \in Callers : Step(c)))
  /\ WF_vars(ChipStep) /\ WF_vars(Arrive)
-----------------------------------------------------------------------------
\* Every variable stays in its domain.
TypeOK ==
  /\ regs \in [Registers -> Values]
  /\ pending \in [Callers -> Bus!Requests \cup {Bus!NoRequest}]
  /\ tries \in [Callers -> Nat]
  /\ caller \in Callers \cup {NoCaller}
  /\ pc \in {"idle", "opened", "unsent", "header", "payload"}
  /\ request \in Bus!Requests \cup {Bus!NoRequest}
  /\ wire \in Seq(Bus!Requests)
  /\ line \in Seq(Bytes)
  /\ arrived \in 0 .. Len(line)
  /\ result \in [ok : BOOLEAN, val : Values \cup {"none", "mixed"}]
  /\ spoilt \in 0 .. MaxSpoilt
  /\ performed \in BOOLEAN /\ faulty \in BOOLEAN /\ torn \in BOOLEAN
  /\ seen \in Values \cup {"none"}

\* From the opening of the tty until a frame comes in part, altered or late, and that
\* step included, the serial line is a register bus, whatever requests are refused,
\* lost or not sent and whatever answers do not come: success means that the chip
\* performed this very request, with this very value.  After it the four raw
\* functions, which check nothing but the header and empty nothing but the tty they
\* open, promise no more, until an opening finds the line quiet.
ServesUntilTorn == [][~torn => Bus!Next \/ UNCHANGED Bus!busVars]_vars

\* An attempt fails only if something went wrong since the tty was last opened:
\* opening it anew, as reconnect() and readLen do, brings host and chip in step.
OpeningResynchronises ==
  [][pc # "idle" /\ pc' = "idle" /\ ~result'.ok => faulty']_vars

\* Every attempt ends, whatever gets lost (uart_read_exact).
EveryAttemptEnds == pc # "idle" ~> pc = "idle"
-----------------------------------------------------------------------------
(* What the documentation says and the code does not do.                    *)

\* A read returns the data it asked for or reports a failure of the link.
ReadsAnswerTheirRequest ==
  [][TakePayload => result'.val = regs[request.reg]]_vars
=============================================================================
