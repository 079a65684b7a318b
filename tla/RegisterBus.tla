---------------------------- MODULE RegisterBus -----------------------------
(***************************************************************************)
(* What one attempt at a register transaction promises the driver: the     *)
(* chip performs it at most once, and not after the next attempt began; a  *)
(* successful one was performed, and read what the register then held; a   *)
(* failed one may have been performed or not.  Bno055Driver takes its      *)
(* attempts to be like this; UartLink shows when frames on a serial line   *)
(* are.                                                                    *)
(***************************************************************************)
CONSTANTS Registers, Values

VARIABLES
  regs,        \* the chip's registers
  open,        \* is an attempt under way?
  request,     \* its transaction, or that of the last one
  performed,   \* has the chip performed it?
  seen,        \* the value it read
  result       \* what the last attempt returned

busVars == <<regs, open, request, performed, seen, result>>

Requests ==
       [kind : {"write"}, reg : Registers, val : Values]
  \cup [kind : {"read8", "readLen"}, reg : Registers, val : {"none"}]
NoRequest == [kind |-> "none", reg |-> "none", val |-> "none"]
Failure == [ok |-> FALSE, val |-> "none"]

Stored(r, memory) == IF r.kind = "write" THEN [memory EXCEPT ![r.reg] = r.val] ELSE memory
Read(r, memory) == IF r.kind = "write" THEN "none" ELSE memory[r.reg]

Attempt(r) ==
  /\ ~open /\ open' = TRUE
  /\ request' = r /\ performed' = FALSE /\ seen' = "none"
  /\ UNCHANGED <<regs, result>>

Perform ==
  /\ request # NoRequest /\ ~performed
  /\ performed' = TRUE
  /\ regs' = Stored(request, regs)
  /\ seen' = Read(request, regs)
  /\ UNCHANGED <<open, request, result>>

End(returned) ==
  /\ open /\ open' = FALSE
  /\ result' = returned
  /\ UNCHANGED <<regs, request, performed, seen>>

Succeed == performed /\ End([ok |-> TRUE, val |-> seen])
Fail == End(Failure)

Init ==
  /\ regs \in [Registers -> Values]
  /\ open = FALSE /\ request = NoRequest /\ performed = FALSE /\ seen = "none"
  /\ result = Failure

Next == (\E r \in Requests : Attempt(r)) \/ Perform \/ Succeed \/ Fail

Spec == Init /\ [][Next]_busVars
=============================================================================
