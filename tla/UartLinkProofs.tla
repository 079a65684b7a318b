--------------------------- MODULE UartLinkProofs ---------------------------
(***************************************************************************)
(* The serial line keeps the promise of RegisterBus from the opening of    *)
(* the tty until a frame comes in part, altered or late, and for ever if   *)
(* none does; for any number of callers, attempts and bytes.               *)
(***************************************************************************)
EXTENDS UartLink, SequenceTheorems, TLAPS

Data == Repeat(seen, Length(request))

\* Host and chip are in step: between attempts nothing is on the line, and during
\* one there is nothing on it but its own request or its own answer.
InStep ==
  /\ regs \in [Registers -> Values]
  /\ spoilt \in 0 .. MaxSpoilt
  /\ arrived \in 0 .. Len(line)
  /\ pc \in {"idle", "opened", "unsent", "header", "payload"}
  /\ pc \in {"unsent", "header", "payload"} => request \in Bus!Requests
  /\ pc \in {"idle", "opened", "unsent"} => wire = <<>> /\ line = <<>>
  /\ pc = "unsent" => faulty
  /\ pc = "header" =>
       \/ wire = <<request>> /\ line = <<>> /\ ~performed
       \/ wire = <<>> /\ line \in {<<>>, Refusal} /\ faulty
       \/ /\ wire = <<>> /\ performed /\ line = Header(request) \o Data
          /\ IF request.kind = "write" THEN seen = "none" ELSE seen \in Values
  /\ pc = "payload" =>
       wire = <<>> /\ performed /\ request.kind # "write" /\ line = Data /\ seen \in Values
-----------------------------------------------------------------------------
\* What is left of a frame when its header has been taken.
LEMMA FrameSplits ==
  ASSUME NEW a, NEW b, NEW v, NEW n \in Nat
  PROVE  /\ Len(Repeat(v, n)) = n
         /\ Len(<<a, b>> \o Repeat(v, n)) = n + 2
         /\ SubSeq(<<a, b>> \o Repeat(v, n), 1, 2) = <<a, b>>
         /\ SubSeq(<<a, b>> \o Repeat(v, n), 3, n + 2) = Repeat(v, n)
<1> DEFINE S == {a, b, v}
           data == Repeat(v, n)
           frame == <<a, b>> \o data
<1>1. data \in Seq(S) /\ Len(data) = n
  BY DEF Repeat
<1>2. <<a, b>> \in Seq(S) /\ Len(<<a, b>>) = 2
  OBVIOUS
<1>3. /\ frame \in Seq(S) /\ Len(frame) = n + 2
      /\ \A i \in 1 .. n + 2 : frame[i] = IF i <= 2 THEN <<a, b>>[i] ELSE data[i - 2]
  <2> HIDE DEF data
  <2> QED BY <1>1, <1>2
<1>4. SubSeq(frame, 1, 2) = <<a, b>>
  <2>1. SubSeq(frame, 1, 2) \in Seq(S) /\ Len(SubSeq(frame, 1, 2)) = 2
        /\ \A i \in 1 .. 2 : SubSeq(frame, 1, 2)[i] = <<a, b>>[i]
    <3> HIDE DEF frame, S
    <3>1. \A i \in 1 .. 2 : frame[i] \in S
      BY <1>3, ElementOfSeq
    <3> QED BY <1>3, <3>1, SubSeqProperties
  <2> QED BY <2>1, <1>2, SeqEqual
<1>5. SubSeq(frame, 3, n + 2) = data
  <2>1. SubSeq(frame, 3, n + 2) \in Seq(S) /\ Len(SubSeq(frame, 3, n + 2)) = n
        /\ \A i \in 1 .. n : SubSeq(frame, 3, n + 2)[i] = data[i]
    <3> HIDE DEF frame, data, S
    <3>1. \A i \in 3 .. n + 2 : frame[i] \in S
      BY <1>3, ElementOfSeq
    <3>2. /\ SubSeq(frame, 3, n + 2) \in Seq(S)
          /\ Len(SubSeq(frame, 3, n + 2)) = IF 3 <= n + 2 THEN n + 2 - 3 + 1 ELSE 0
          /\ \A i \in 1 .. n + 2 - 3 + 1 : SubSeq(frame, 3, n + 2)[i] = frame[3 + i - 1]
      <4> HIDE DEF frame
      <4> QED BY <3>1, SubSeqProperties
    <3>3. \A i \in 1 .. n : frame[3 + i - 1] = data[i]
      BY <1>3
    <3> QED BY <3>2, <3>3
  <2> QED BY <2>1, <1>1, SeqEqual
<1> QED BY <1>1, <1>3, <1>4, <1>5

\* Headers are two bytes, and only a write has no data.
LEMMA Shapes ==
  ASSUME NEW r \in Bus!Requests
  PROVE  /\ r.kind \in {"write", "read8", "readLen"}
         /\ Length(r) \in Nat /\ (Length(r) = 0 <=> r.kind = "write")
         /\ \E a, b : Header(r) = <<a, b>>
         /\ Header(r) # Refusal
<1>1. r.kind \in {"write", "read8", "readLen"}
  BY DEF Bus!Requests
<1>2. CASE r.kind = "write"
  <2>1. Length(r) = 0 /\ Header(r) = <<"EE", "01">>
    BY <1>2 DEF Length, Header
  <2> QED BY <1>2, <2>1 DEF Refusal
<1>3. CASE r.kind = "read8"
  <2>1. Length(r) = 1 /\ Header(r) = <<"BB", "01">>
    BY <1>3 DEF Length, Header
  <2> QED BY <1>3, <2>1 DEF Refusal
<1>4. CASE r.kind = "readLen"
  <2>1. Length(r) = BurstLength /\ Header(r) = <<"BB", "len">>
    BY <1>4 DEF Length, Header
  <2> QED BY <1>4, <2>1, BurstAssumption DEF Refusal
<1> QED BY <1>1, <1>2, <1>3, <1>4

\* The answer to the request, as the host sees it.
LEMMA AnswerSplits ==
  ASSUME request \in Bus!Requests, line = Header(request) \o Data
  PROVE  /\ Len(line) = Length(request) + 2
         /\ SubSeq(line, 1, 2) = Header(request)
         /\ SubSeq(line, 3, Len(line)) = Data
<1>1. PICK a, b : Header(request) = <<a, b>>
  BY Shapes
<1>2. Length(request) \in Nat
  BY Shapes
<1>3. /\ Len(<<a, b>> \o Data) = Length(request) + 2
      /\ SubSeq(<<a, b>> \o Data, 1, 2) = <<a, b>>
      /\ SubSeq(<<a, b>> \o Data, 3, Length(request) + 2) = Data
  BY <1>2, FrameSplits DEF Data
<1> QED BY <1>1, <1>3

LEMMA RefusalWhole == Len(Refusal) = 2 /\ SubSeq(Refusal, 1, 2) = Refusal
<1>1. Refusal \in Seq({"EE", "07"}) /\ Len(Refusal) = 2
  BY DEF Refusal
<1> QED BY <1>1, SeqEqual

\* An attempt that returns leaves the chip alone.
LEMMA ReturnKeeps ==
  ASSUME NEW returned, Return(returned)
  PROVE  /\ pc' = "idle" /\ result' = returned /\ UNCHANGED <<chipVars, request, spoilt>>
  BY DEF Return, Leave

\* What the host takes of the line.
LEMMA TakeAll ==
  ASSUME NEW n \in Nat, Take(n), Len(line) = n, arrived \in 0 .. Len(line)
  PROVE  line' = <<>> /\ arrived' = 0
  BY DEF Take

LEMMA InStepInit == ASSUME Init PROVE InStep
  BY LinkAssumption DEF Init, InStep

\* No action breaks the step but one with which a frame comes in part, altered or
\* late.
LEMMA InStepNext ==
  ASSUME InStep, [Next]_vars, ~torn'
  PROVE  InStep'
<1>1. ASSUME NEW c \in Callers, NEW r \in Bus!Requests, Send(c, r) PROVE InStep'
  <2>1. wire = <<>> /\ line = <<>> /\ regs' = regs /\ spoilt' = spoilt /\ arrived' = arrived
        /\ line' = line /\ request' = r /\ ~performed'
    BY <1>1 DEF Send, InStep
  <2>2. CASE pc' = "header" /\ wire' = Append(wire, r)
    <3>1. wire' = <<request'>>
      BY <2>1, <2>2
    <3> QED BY <2>1, <2>2, <3>1 DEF InStep
  <2>3. CASE pc' = "unsent" /\ faulty' = TRUE /\ UNCHANGED wire
    BY <2>1, <2>3 DEF InStep
  <2> QED BY <1>1, <2>2, <2>3 DEF Send
<1>2. ASSUME NEW c \in Callers, Reopen(c) PROVE InStep'
  <2>1. wire = <<>> /\ line = <<>> /\ arrived = 0
    BY <1>2 DEF Reopen, InStep
  <2>2. line' = <<>> /\ arrived' = 0
    BY <1>2, <2>1, TakeAll DEF Reopen
  <2> QED BY <1>2, <2>1, <2>2 DEF Reopen, InStep, chipVars
<1>3. CASE Unsent
  BY <1>3, ReturnKeeps DEF Unsent, InStep, chipVars
<1>4. CASE GiveUp
  BY <1>4 DEF GiveUp, Leave, InStep, chipVars
<1>5. CASE TakeHeader
  <2>1. request \in Bus!Requests /\ arrived >= 2 /\ arrived <= Len(line)
    BY <1>5 DEF TakeHeader, Take, InStep
  <2>2. \/ wire = <<>> /\ line = Refusal
        \/ /\ wire = <<>> /\ performed /\ line = Header(request) \o Data
           /\ IF request.kind = "write" THEN seen = "none" ELSE seen \in Values
    BY <1>5, <2>1 DEF TakeHeader, InStep
  <2>3. CASE line = Refusal
    <3>1. Len(line) = 2 /\ SubSeq(line, 1, 2) = Refusal
      BY <2>3, RefusalWhole
    <3>2. line' = <<>> /\ arrived' = 0
      BY <1>5, <3>1, TakeAll DEF TakeHeader, InStep
    <3>3. Return(Bus!Failure)
      BY <1>5, <2>1, <3>1, Shapes DEF TakeHeader
    <3> QED BY <2>2, <2>3, <3>2, <3>3, <1>5, ReturnKeeps, Shapes, <2>1
            DEF InStep, chipVars, TakeHeader
  <2>4. CASE /\ wire = <<>> /\ performed /\ line = Header(request) \o Data
             /\ IF request.kind = "write" THEN seen = "none" ELSE seen \in Values
    <3>1. /\ Len(line) = Length(request) + 2 /\ SubSeq(line, 1, 2) = Header(request)
          /\ SubSeq(line, 3, Len(line)) = Data
      BY <2>1, <2>4, AnswerSplits
    <3>2. line' = Data /\ arrived' = arrived - 2
      BY <1>5, <3>1 DEF TakeHeader, Take
    <3>3. Length(request) \in Nat /\ (Length(request) = 0 <=> request.kind = "write")
      BY <2>1, Shapes
    <3>4. Len(Data) = Length(request)
      BY <3>3 DEF Data, Repeat
    <3>5. CASE Length(request) = 0
      <4>1. Data = <<>>
        BY <3>5 DEF Data, Repeat
      <4>2. \E x : Return(x)
        BY <1>5, <3>1, <3>5 DEF TakeHeader
      <4>3. pc' = "idle" /\ UNCHANGED <<chipVars, request, spoilt>>
        BY <4>2, ReturnKeeps
      <4>4. line' = <<>> /\ arrived' = 0
        BY <2>1, <3>1, <3>2, <3>5, <4>1 DEF InStep
      <4> QED BY <2>4, <4>3, <4>4 DEF InStep, chipVars
    <3>6. CASE Length(request) > 0
      <4>1. pc' = "payload" /\ UNCHANGED <<chipVars, request, spoilt>>
        BY <1>5, <3>1, <3>3, <3>6 DEF TakeHeader
      <4>2. Data' = Data
        BY <4>1 DEF Data, chipVars
      <4>3. arrived' \in 0 .. Len(line')
        BY <2>1, <3>1, <3>2, <3>3, <3>4 DEF InStep
      <4> QED BY <2>1, <2>4, <3>2, <3>3, <3>6, <4>1, <4>2, <4>3 DEF InStep, chipVars
    <3> QED BY <3>3, <3>5, <3>6
  <2> QED BY <2>2, <2>3, <2>4
<1>6. CASE TakePayload
  <2>1. request \in Bus!Requests /\ wire = <<>> /\ line = Data
    BY <1>6 DEF TakePayload, InStep
  <2>2. Length(request) \in Nat /\ Len(line) = Length(request)
    BY <2>1, Shapes DEF Data, Repeat
  <2>3. line' = <<>> /\ arrived' = 0
    BY <1>6, <2>2, TakeAll DEF TakePayload, InStep
  <2>4. pc' = "idle" /\ UNCHANGED <<chipVars, request, spoilt>>
    BY <1>6, ReturnKeeps DEF TakePayload
  <2> QED BY <2>1, <2>3, <2>4 DEF InStep, chipVars
<1>7. CASE TimeOut
  <2>1. wire = <<>> /\ ~(arrived < Len(line))
    BY <1>7 DEF TimeOut, UnderWay
  <2>2. arrived = Len(line) /\ arrived \in Nat
    BY <1>7, <2>1 DEF TimeOut, Take, InStep
  <2>3. line' = <<>> /\ arrived' = 0
    BY <1>7, <2>2, TakeAll DEF TimeOut, InStep
  <2>4. pc' = "idle" /\ UNCHANGED <<chipVars, request, spoilt>>
    BY <1>7, ReturnKeeps DEF TimeOut
  <2> QED BY <2>1, <2>3, <2>4 DEF InStep, chipVars
<1>8. ChipPerforms \/ ChipRefuses =>
        /\ pc = "header" /\ wire = <<request>> /\ line = <<>> /\ ~performed
        /\ wire' = <<>> /\ arrived = 0 /\ request \in Bus!Requests
  <2> SUFFICES ASSUME ChipPerforms \/ ChipRefuses
               PROVE  /\ pc = "header" /\ wire = <<request>> /\ line = <<>> /\ ~performed
                      /\ wire' = <<>> /\ arrived = 0 /\ request \in Bus!Requests
    OBVIOUS
  <2>1. wire # <<>> /\ wire' = Tail(wire)
    BY DEF ChipPerforms, ChipRefuses
  <2>2. pc = "header" /\ wire = <<request>> /\ line = <<>> /\ ~performed
        /\ request \in Bus!Requests /\ arrived \in 0 .. Len(line)
    BY <2>1 DEF InStep
  <2>3. arrived = 0
    BY <2>2
  <2> QED BY <2>1, <2>2, <2>3
<1>9. CASE ChipPerforms
  <2>1. /\ Head(wire) = request /\ Len(wire) = 1
        /\ UNCHANGED <<pc, request, arrived>> /\ performed'
        /\ seen' = Bus!Read(request, regs) /\ regs' = Bus!Stored(request, regs)
        /\ Transmit(Answer(request))
    BY <1>8, <1>9 DEF ChipPerforms
  <2>2. /\ spoilt' = spoilt
        /\ line' = line \o Answer(request) \/ (line' = line /\ faulty')
    BY <2>1 DEF Transmit
  <2>3. regs' \in [Registers -> Values]
    BY <1>8, <1>9, <2>1 DEF Bus!Stored, Bus!Requests, InStep
  <2>4. IF request.kind = "write" THEN seen' = "none"
        ELSE seen' = regs[request.reg] /\ seen' \in Values
    BY <1>8, <1>9, <2>1 DEF Bus!Read, Bus!Requests, InStep
  <2>5. CASE line' = line /\ faulty'
    BY <1>8, <1>9, <2>1, <2>2, <2>3, <2>5 DEF InStep
  <2>6. CASE line' = line \o Answer(request)
    <3>1. PICK a, b : Header(request) = <<a, b>>
      BY <1>8, <1>9, Shapes
    <3>2. Length(request) \in Nat /\ (Length(request) = 0 <=> request.kind = "write")
      BY <1>8, <1>9, Shapes
    <3>3. Repeat(regs[request.reg], Length(request)) = Data'
      <4>1. CASE request.kind = "write"
        BY <4>1, <3>2, <2>1 DEF Data, Repeat
      <4>2. CASE request.kind # "write"
        BY <4>2, <2>4, <2>1 DEF Data, Length
      <4> QED BY <4>1, <4>2
    <3>4. Answer(request) = Header(request) \o Data'
      BY <3>3 DEF Answer
    <3>5. line' = Header(request)' \o Data'
      <4>1. <<>> \o Answer(request) = Answer(request)
        <5>1. Answer(request) \in Seq({a, b, regs[request.reg]})
          BY <3>1, <3>2 DEF Answer, Repeat
        <5> QED BY <5>1
      <4>2. Header(request)' = Header(request)
        BY <2>1 DEF Header
      <4> QED BY <1>8, <1>9, <2>6, <3>4, <4>1, <4>2
    <3>6. Len(line') = Length(request) + 2
      <4>1. Len(<<a, b>> \o Repeat(regs[request.reg], Length(request)))
              = Length(request) + 2
        <5> DEFINE n == Length(request)
                   v == regs[request.reg]
        <5>1. n \in Nat
          BY <3>2
        <5> HIDE DEF n, v
        <5>2. /\ Len(<<a, b>> \o Repeat(v, n)) = n + 2
              /\ SubSeq(<<a, b>> \o Repeat(v, n), 1, 2) = <<a, b>>
          BY <5>1, FrameSplits
        <5> QED BY <5>2 DEF n, v
      <4> QED BY <1>8, <1>9, <2>6, <3>1, <4>1 DEF Answer
    <3> QED BY <1>8, <1>9, <2>1, <2>2, <2>3, <2>4, <3>2, <3>5, <3>6 DEF InStep
  <2> QED BY <2>2, <2>5, <2>6
<1>10. CASE ChipRefuses
  <2>1. line' \in {<<>>, Refusal} /\ Len(line') \in Nat
    BY <1>8, <1>10 DEF ChipRefuses, Refusal
  <2> QED BY <1>8, <1>10, <2>1 DEF ChipRefuses, InStep
<1>11. CASE Arrive
  <2>1. UNCHANGED <<chipVars, pc, request, line, spoilt, faulty>>
        /\ arrived' \in 0 .. Len(line')
    BY <1>11 DEF Arrive, InStep
  <2>2. Data' = Data /\ Header(request)' = Header(request)
    BY <2>1 DEF Data, Header, Length, chipVars
  <2> QED BY <2>1, <2>2 DEF InStep, chipVars
<1>12. CASE UNCHANGED vars
  <2>1. Data' = Data /\ Header(request)' = Header(request)
    BY <1>12 DEF Data, Header, Length, vars, chipVars
  <2> QED BY <1>12, <2>1 DEF InStep, vars, chipVars
<1>13. ~AlterRequest
  BY DEF AlterRequest
<1> QED BY <1>1, <1>2, <1>3, <1>4, <1>5, <1>6, <1>7, <1>9, <1>10, <1>11, <1>12, <1>13
        DEF Next, Step, AttemptStep, ChipStep
-----------------------------------------------------------------------------
\* Every action is one of RegisterBus, or a step it does not see.
LEMMA BusStep ==
  ASSUME InStep, [Next]_vars
  PROVE  [Bus!Next]_(Bus!busVars)
<1> USE DEF Bus!Next, Bus!busVars
<1>1. ASSUME NEW c \in Callers, NEW r \in Bus!Requests, Send(c, r) PROVE Bus!Attempt(r)
  BY <1>1 DEF Send, Bus!Attempt
<1>2. ASSUME NEW c \in Callers, Reopen(c) PROVE UNCHANGED Bus!busVars
  BY <1>2 DEF Reopen, chipVars
<1>3. CASE Unsent
  <2>1. Bus!Fail
    BY <1>3, ReturnKeeps DEF Unsent, Bus!Fail, Bus!End, chipVars
  <2> QED BY <2>1
<1>4. CASE GiveUp
  BY <1>4 DEF GiveUp, Leave, chipVars
<1>5. CASE TakeHeader
  <2>1. request \in Bus!Requests /\ arrived >= 2 /\ arrived <= Len(line)
    BY <1>5 DEF TakeHeader, Take, InStep
  <2>2. CASE Return(Bus!Failure)
    <3>1. Bus!Fail
      BY <1>5, <2>2, ReturnKeeps DEF TakeHeader, Bus!Fail, Bus!End, chipVars
    <3> QED BY <3>1
  <2>3. CASE /\ SubSeq(line, 1, 2) = Header(request) /\ Length(request) = 0
             /\ Return([ok |-> TRUE, val |-> "none"])
    <3>1. line # <<>>
      BY <2>1 DEF InStep
    <3>2. line # Refusal
      BY <2>1, <2>3, Shapes, RefusalWhole
    <3>3. performed /\ seen = "none"
      BY <1>5, <2>1, <2>3, <3>1, <3>2, Shapes DEF TakeHeader, InStep
    <3>4. Bus!Succeed
      BY <1>5, <2>3, <3>3, ReturnKeeps DEF TakeHeader, Bus!Succeed, Bus!End, chipVars
    <3> QED BY <3>4
  <2>4. CASE pc' = "payload" /\ UNCHANGED <<callVars, chipVars, request, result, spoilt>>
    BY <1>5, <2>4 DEF TakeHeader, chipVars
  <2> QED BY <1>5, <2>2, <2>3, <2>4 DEF TakeHeader
<1>6. CASE TakePayload
  <2>1. /\ request \in Bus!Requests /\ performed /\ request.kind # "write"
        /\ line = Data /\ seen \in Values
    BY <1>6 DEF TakePayload, InStep
  <2>2. Length(request) \in Nat \ {0} /\ Len(line) = Length(request)
    BY <2>1, Shapes DEF Data, Repeat
  <2>3. SubSeq(line, 1, Length(request)) = Data
    <3>1. Data \in Seq({seen})
      BY <2>2 DEF Data, Repeat
    <3> QED BY <2>1, <2>2, <3>1, SubSeqFull
  <2>4. Payload(Data) = seen
    BY <2>1, <2>2 DEF Payload, Data, Repeat
  <2>5. Return([ok |-> TRUE, val |-> seen])
    BY <1>6, <2>3, <2>4 DEF TakePayload
  <2>6. Bus!Succeed
    BY <1>6, <2>1, <2>5, ReturnKeeps DEF TakePayload, Bus!Succeed, Bus!End, chipVars
  <2> QED BY <2>6
<1>7. CASE TimeOut
  <2>1. Bus!Fail
    BY <1>7, ReturnKeeps DEF TimeOut, Bus!Fail, Bus!End, chipVars
  <2> QED BY <2>1
<1>8. CASE ChipPerforms
  <2>1. wire # <<>>
    BY <1>8 DEF ChipPerforms
  <2>2. pc = "header" /\ wire = <<request>> /\ ~performed /\ request \in Bus!Requests
    BY <2>1 DEF InStep
  <2>3. Bus!Perform
    <3>1. Head(wire) = request /\ Len(wire) = 1
      BY <2>2
    <3>2. request # Bus!NoRequest
      BY <2>2, Shapes DEF Bus!NoRequest
    <3> QED BY <1>8, <2>2, <3>1, <3>2 DEF ChipPerforms, Bus!Perform
  <2> QED BY <2>3
<1>9. CASE ChipRefuses
  BY <1>9 DEF ChipRefuses
<1>10. CASE Arrive
  BY <1>10 DEF Arrive, chipVars
<1>11. CASE UNCHANGED vars
  BY <1>11 DEF vars, chipVars
<1>12. CASE AlterRequest
  BY <1>12 DEF AlterRequest
<1> QED BY <1>1, <1>2, <1>3, <1>4, <1>5, <1>6, <1>7, <1>8, <1>9, <1>10, <1>11, <1>12
        DEF Next, Step, AttemptStep, ChipStep
-----------------------------------------------------------------------------
(* The domains, whatever is lost, altered, late or refused.                 *)

\* A header is read for a request, and a payload for one that has data.
Typed ==
  /\ TypeOK
  /\ pc \in {"header", "payload"} => request \in Bus!Requests
  /\ pc = "payload" => Length(request) # 0

LEMMA Longer ==
  ASSUME NEW a \in Seq(Bytes), NEW b \in Seq(Bytes)
  PROVE  a \o b \in Seq(Bytes) /\ Len(a \o b) = Len(a) + Len(b) /\ Len(a) \in Nat /\ Len(b) \in Nat
OBVIOUS

LEMMA TakeType ==
  ASSUME line \in Seq(Bytes), arrived \in 0 .. Len(line), NEW n \in Nat, Take(n)
  PROVE  line' \in Seq(Bytes) /\ arrived' \in 0 .. Len(line')
<1>1. n <= Len(line) /\ arrived' = arrived - n /\ line' = SubSeq(line, n + 1, Len(line))
  BY DEF Take
<1>2. \A i \in n + 1 .. Len(line) : line[i] \in Bytes
  BY ElementOfSeq
<1>3. line' \in Seq(Bytes) /\ Len(line') = IF n + 1 <= Len(line) THEN Len(line) - n ELSE 0
  BY <1>1, <1>2, SubSeqProperties
<1>4. Len(line) \in Nat /\ arrived \in Nat /\ arrived <= Len(line) /\ n <= arrived
  BY <1>1 DEF Take
<1>5. n = Len(line) => Len(line') = 0
  BY <1>3, <1>4
<1>6. n < Len(line) => Len(line') = Len(line) - n
  BY <1>3, <1>4
<1>7. arrived - n \in 0 .. Len(line')
  BY <1>4, <1>5, <1>6
<1> QED
  BY <1>1, <1>3, <1>7

\* The bytes of a read are those of a value, or a mixture.
LEMMA PayloadType ==
  ASSUME line \in Seq(Bytes), NEW n \in Nat \ {0}, n <= Len(line)
  PROVE  Payload(SubSeq(line, 1, n)) \in Values \cup {"none", "mixed"}
<1> DEFINE bytes == SubSeq(line, 1, n)
<1>1. \A i \in 1 .. n : line[i] \in Bytes
  BY ElementOfSeq
<1>2. bytes \in Seq(Bytes) /\ Len(bytes) = n
  BY <1>1, SubSeqProperties
<1> HIDE DEF bytes
<1>3. 1 \in DOMAIN bytes
  BY <1>2
<1> QED
  BY <1>3 DEF Payload, bytes

\* Only the caller's own entries change when an attempt ends.
LEMMA LeaveType ==
  ASSUME TypeOK, NEW ok, Leave(ok)
  PROVE  /\ pending' \in [Callers -> Bus!Requests \cup {Bus!NoRequest}]
         /\ tries' \in [Callers -> Nat]
<1> DEFINE over == ok \/ tries[caller] = Limit(pending[caller])
<1>1. /\ pending' = [pending EXCEPT ![caller] = IF over THEN Bus!NoRequest ELSE @]
      /\ tries' = [tries EXCEPT ![caller] = IF over THEN 0 ELSE @ + 1]
  BY DEF Leave
<1> HIDE DEF over
<1>2. /\ pending \in [Callers -> Bus!Requests \cup {Bus!NoRequest}]
      /\ tries \in [Callers -> Nat]
  BY DEF TypeOK
<1> DEFINE R == Bus!Requests \cup {Bus!NoRequest}
<1>3. pending' \in [Callers -> R]
  <2> HIDE DEF R
  <2>1. Bus!NoRequest \in R /\ pending \in [Callers -> R]
    BY <1>2 DEF R
  <2> QED
    BY <1>1, <2>1
<1>4. tries' \in [Callers -> Nat]
  <2>1. \A n \in Nat : (IF over THEN 0 ELSE n + 1) \in Nat
    OBVIOUS
  <2>2. CASE caller \in Callers
    <3>1. tries' = [tries EXCEPT ![caller] = IF over THEN 0 ELSE tries[caller] + 1]
      BY <1>1
    <3>2. (IF over THEN 0 ELSE tries[caller] + 1) \in Nat
      BY <1>2, <2>1, <2>2
    <3> QED
      BY <1>2, <3>1, <3>2
  <2>3. CASE caller \notin Callers
    BY <1>1, <1>2, <2>3
  <2> QED
    BY <2>2, <2>3
<1> QED
  BY <1>3, <1>4

LEMMA ReturnType ==
  ASSUME Typed, NEW returned \in [ok : BOOLEAN, val : Values \cup {"none", "mixed"}],
         Return(returned), line' \in Seq(Bytes), arrived' \in 0 .. Len(line'), faulty' \in BOOLEAN,
         torn' \in BOOLEAN
  PROVE  Typed'
<1>1. /\ pc' = "idle" /\ caller' = NoCaller /\ result' = returned
      /\ UNCHANGED <<regs, wire, performed, seen, request, spoilt>>
  BY DEF Return, Leave, chipVars
<1>2. /\ pending' \in [Callers -> Bus!Requests \cup {Bus!NoRequest}]
      /\ tries' \in [Callers -> Nat]
  BY LeaveType DEF Return, Typed
<1> QED
  BY <1>1, <1>2 DEF Typed, TypeOK

LEMMA AnswerType ==
  ASSUME NEW r \in Bus!Requests, regs \in [Registers -> Values]
  PROVE  Answer(r) \in Seq(Bytes)
<1>1. r.reg \in Registers /\ Length(r) \in Nat
  BY Shapes DEF Bus!Requests
<1>2. Header(r) \in Seq(Bytes)
  <2>1. r.kind \in {"write", "read8", "readLen"}
    BY Shapes
  <2>2. CASE r.kind = "write"
    BY <2>2 DEF Header, Bytes
  <2>3. CASE r.kind = "read8"
    BY <2>3 DEF Header, Bytes
  <2>4. CASE r.kind = "readLen"
    BY <2>4 DEF Header, Bytes
  <2> QED
    BY <2>1, <2>2, <2>3, <2>4
<1>3. Repeat(regs[r.reg], Length(r)) \in Seq(Bytes)
  BY <1>1 DEF Repeat, Bytes
<1> QED
  BY <1>2, <1>3 DEF Answer

\* What is left of an answer on the line.
LEMMA TransmitType ==
  ASSUME line \in Seq(Bytes), arrived \in 0 .. Len(line), spoilt \in 0 .. MaxSpoilt,
         faulty \in BOOLEAN, torn \in BOOLEAN, NEW bytes \in Seq(Bytes), Transmit(bytes)
  PROVE  /\ line' \in Seq(Bytes) /\ arrived \in 0 .. Len(line')
         /\ spoilt' \in 0 .. MaxSpoilt /\ faulty' \in BOOLEAN /\ torn' \in BOOLEAN
<1>1. ASSUME NEW more \in Seq(Bytes), line' = line \o more
      PROVE  line' \in Seq(Bytes) /\ arrived \in 0 .. Len(line')
  <2>1. Len(line') = Len(line) + Len(more) /\ Len(more) \in Nat
    BY <1>1
  <2> QED
    BY <1>1, <2>1
<1>2. ASSUME NEW frame \in Damaged(bytes) PROVE frame \in Seq(Bytes)
  <2>1. ASSUME NEW i \in DOMAIN bytes PROVE Without(bytes, i) \in Seq(Bytes)
    <3>1. /\ i \in 1 .. Len(bytes) /\ Len(bytes) \in Nat
          /\ \A j \in 1 .. Len(bytes) : bytes[j] \in Bytes
      BY <2>1, ElementOfSeq
    <3>2. SubSeq(bytes, 1, i - 1) \in Seq(Bytes)
      BY <3>1, SubSeqProperties
    <3>3. SubSeq(bytes, i + 1, Len(bytes)) \in Seq(Bytes)
      BY <3>1, SubSeqProperties
    <3> QED BY <3>2, <3>3 DEF Without
  <2>2. ASSUME NEW i \in DOMAIN bytes, NEW b \in Bytes
        PROVE  [bytes EXCEPT ![i] = b] \in Seq(Bytes)
    BY <2>2
  <2>3. CASE frame \in {Without(bytes, i) : i \in DOMAIN bytes}
    BY <2>1, <2>3
  <2>4. CASE frame \in {[bytes EXCEPT ![i] = b] : i \in DOMAIN bytes, b \in Bytes}
    <3>1. PICK i \in DOMAIN bytes, b \in Bytes : frame = [bytes EXCEPT ![i] = b]
      BY <2>4
    <3> QED BY <2>2, <3>1
  <2> QED BY <1>2, <2>3, <2>4 DEF Damaged
<1>3. MaxSpoilt \in Nat
  BY LinkAssumption
<1>4. CASE Fits(bytes) /\ line' = line \o bytes /\ UNCHANGED <<spoilt, faulty, torn>>
  BY <1>1, <1>4
<1>5. CASE line' = line /\ faulty' = TRUE /\ UNCHANGED <<spoilt, torn>>
  BY <1>5
<1>6. CASE /\ spoilt < MaxSpoilt /\ Fits(bytes)
           /\ \E frame \in Damaged(bytes) : line' = line \o frame
           /\ spoilt' = spoilt + 1 /\ faulty' = TRUE /\ torn' = TRUE
  <2>1. spoilt' \in 0 .. MaxSpoilt /\ faulty' \in BOOLEAN /\ torn' \in BOOLEAN
    BY <1>3, <1>6
  <2>2. PICK frame \in Damaged(bytes) : line' = line \o frame
    BY <1>6
  <2> QED
    BY <1>1, <1>2, <2>1, <2>2
<1> QED
  BY <1>4, <1>5, <1>6 DEF Transmit

LEMMA TypedInit == ASSUME Init PROVE Typed
<1>1. MaxSpoilt \in Nat
  BY LinkAssumption
<1>2. <<>> \in Seq(Bus!Requests) /\ <<>> \in Seq(Bytes) /\ Len(<<>>) = 0
  OBVIOUS
<1>3. Bus!Failure \in [ok : BOOLEAN, val : Values \cup {"none", "mixed"}]
  BY DEF Bus!Failure
<1> HIDE DEF Bus!Failure
<1>4. arrived \in 0 .. Len(line) /\ spoilt \in 0 .. MaxSpoilt /\ tries \in [Callers -> Nat]
  BY <1>1, <1>2 DEF Init
<1>5. /\ wire \in Seq(Bus!Requests) /\ line \in Seq(Bytes)
      /\ pending \in [Callers -> Bus!Requests \cup {Bus!NoRequest}]
  BY <1>2 DEF Init
<1>6. TypeOK
  BY <1>3, <1>4, <1>5 DEF Init, TypeOK
<1> QED
  BY <1>6 DEF Init, Typed

LEMMA TypedNext ==
  ASSUME Typed, [Next]_vars
  PROVE  Typed'
<1>0. /\ line \in Seq(Bytes) /\ arrived \in 0 .. Len(line)
      /\ faulty \in BOOLEAN /\ torn \in BOOLEAN
      /\ Len(line) \in Nat /\ wire \in Seq(Bus!Requests)
  BY DEF Typed, TypeOK
<1>f. Bus!Failure \in [ok : BOOLEAN, val : Values \cup {"none", "mixed"}]
  BY DEF Bus!Failure
<1>1. ASSUME NEW c \in Callers, NEW r \in Bus!Requests, Send(c, r) PROVE Typed'
  <2>1. /\ request' = r /\ caller' = c /\ performed' = FALSE /\ seen' = "none"
        /\ pc' \in {"header", "unsent"} /\ wire' \in {wire, Append(wire, r)}
        /\ faulty' \in {faulty, TRUE} /\ torn' \in {torn, TRUE}
        /\ UNCHANGED <<regs, tries, line, arrived, result, spoilt>>
    BY <1>1 DEF Send
  <2>3. Append(wire, r) \in Seq(Bus!Requests)
    BY <1>0
  <2>2. pending' \in [Callers -> Bus!Requests \cup {Bus!NoRequest}]
    BY <1>1 DEF Send, Typed, TypeOK
  <2> QED
    BY <1>0, <2>1, <2>2, <2>3 DEF Typed, TypeOK
<1>2. ASSUME NEW c \in Callers, Reopen(c) PROVE Typed'
  <2>1. line' \in Seq(Bytes) /\ arrived' \in 0 .. Len(line')
    BY <1>0, <1>2, TakeType DEF Reopen
  <2>2. /\ pc' = "opened" /\ caller' = c /\ faulty' \in BOOLEAN /\ torn' \in BOOLEAN
        /\ UNCHANGED <<regs, wire, performed, seen, pending, tries, request, result, spoilt>>
    BY <1>0, <1>2 DEF Reopen, chipVars, UnderWay
  <2> QED
    BY <2>1, <2>2 DEF Typed, TypeOK
<1>3. CASE Unsent
  BY <1>0, <1>3, <1>f, ReturnType DEF Unsent
<1>4. CASE GiveUp
  <2>1. /\ pc' = "idle" /\ caller' = NoCaller /\ faulty' = TRUE
        /\ UNCHANGED <<regs, wire, performed, seen, request, result, line, arrived, spoilt, torn>>
    BY <1>4 DEF GiveUp, Leave, chipVars
  <2>2. /\ pending' \in [Callers -> Bus!Requests \cup {Bus!NoRequest}]
        /\ tries' \in [Callers -> Nat]
    BY <1>4, LeaveType DEF GiveUp, Typed
  <2> QED
    BY <2>1, <2>2 DEF Typed, TypeOK
<1>5. CASE TakeHeader
  <2>1. /\ line' \in Seq(Bytes) /\ arrived' \in 0 .. Len(line')
        /\ faulty' = faulty /\ torn' = torn /\ request \in Bus!Requests
    BY <1>0, <1>5, TakeType DEF TakeHeader, Typed
  <2>2. CASE Return(Bus!Failure) \/ Return([ok |-> TRUE, val |-> "none"])
    BY <1>0, <1>f, <2>1, <2>2, ReturnType
  <2>3. CASE /\ Length(request) > 0 /\ pc' = "payload"
             /\ UNCHANGED <<callVars, chipVars, request, result, spoilt>>
    <3>1. Length(request)' # 0
      BY <2>1, <2>3, Shapes DEF Length
    <3> QED
      BY <2>1, <2>3, <3>1 DEF Typed, TypeOK, callVars, chipVars
  <2> QED
    BY <1>5, <2>2, <2>3 DEF TakeHeader
<1>6. CASE TakePayload
  <2> DEFINE val == Payload(SubSeq(line, 1, Length(request)))
  <2>1. Length(request) \in Nat \ {0}
    BY <1>6, Shapes DEF TakePayload, Typed
  <2>2. /\ line' \in Seq(Bytes) /\ arrived' \in 0 .. Len(line')
        /\ faulty' = faulty /\ torn' = torn
    BY <1>0, <1>6, <2>1, TakeType DEF TakePayload
  <2>3. Length(request) <= Len(line)
    BY <1>0, <1>6, <2>1 DEF TakePayload, Take
  <2>4. val \in Values \cup {"none", "mixed"}
    BY <1>0, <2>1, <2>3, PayloadType
  <2>5. Return([ok |-> TRUE, val |-> val])
    BY <1>6 DEF TakePayload
  <2> HIDE DEF val
  <2> QED
    BY <1>0, <2>2, <2>4, <2>5, ReturnType
<1>7. CASE TimeOut
  <2>1. line' \in Seq(Bytes) /\ arrived' \in 0 .. Len(line')
    BY <1>0, <1>7, TakeType DEF TimeOut
  <2>2. faulty' \in BOOLEAN /\ torn' \in BOOLEAN /\ Return(Bus!Failure)
    BY <1>0, <1>7 DEF TimeOut, UnderWay
  <2> QED
    BY <1>f, <2>1, <2>2, ReturnType
<1>8. ASSUME wire # <<>> PROVE Head(wire) \in Bus!Requests /\ Tail(wire) \in Seq(Bus!Requests)
  BY <1>0, <1>8
<1>9. CASE ChipPerforms
  <2> DEFINE r == Head(wire)
  <2>1. /\ r \in Bus!Requests /\ wire' \in Seq(Bus!Requests) /\ Transmit(Answer(r))
        /\ regs' = Bus!Stored(r, regs)
        /\ UNCHANGED <<callVars, pc, request, arrived, result>>
        /\ \/ performed' = TRUE /\ seen' = Bus!Read(r, regs)
           \/ UNCHANGED <<performed, seen>>
    BY <1>8, <1>9 DEF ChipPerforms
  <2> HIDE DEF r
  <2>2. regs \in [Registers -> Values] /\ spoilt \in 0 .. MaxSpoilt
    BY DEF Typed, TypeOK
  <2>3. /\ line' \in Seq(Bytes) /\ arrived' \in 0 .. Len(line')
        /\ spoilt' \in 0 .. MaxSpoilt /\ faulty' \in BOOLEAN /\ torn' \in BOOLEAN
    BY <1>0, <2>1, <2>2, AnswerType, TransmitType
  <2>4. regs' \in [Registers -> Values] /\ Bus!Read(r, regs) \in Values \cup {"none"}
    BY <2>1, <2>2 DEF Bus!Stored, Bus!Read, Bus!Requests
  <2>5. Length(request)' = Length(request)
    BY <2>1 DEF Length
  <2> QED
    BY <2>1, <2>3, <2>4, <2>5 DEF Typed, TypeOK, callVars
<1>10. CASE ChipRefuses
  <2>1. /\ wire' \in Seq(Bus!Requests) /\ faulty' = TRUE
        /\ UNCHANGED <<callVars, regs, performed, seen, pc, request, arrived, result, spoilt, torn>>
    BY <1>8, <1>10 DEF ChipRefuses
  <2>2. line' \in Seq(Bytes) /\ arrived \in 0 .. Len(line')
    <3>1. Refusal \in Seq(Bytes) /\ Len(Refusal) = 2
      BY DEF Refusal, Bytes
    <3>2. line \o Refusal \in Seq(Bytes) /\ Len(line \o Refusal) = Len(line) + Len(Refusal)
      BY <1>0, <3>1, Longer
    <3>3. line' = line \/ line' = line \o Refusal
      BY <1>10 DEF ChipRefuses
    <3>4. \A n, m \in Nat : \A i \in 0 .. n : i \in 0 .. n + m
      OBVIOUS
    <3>5. arrived \in 0 .. Len(line \o Refusal)
      BY <1>0, <3>1, <3>2, <3>4
    <3> QED
      BY <1>0, <3>2, <3>3, <3>5
  <2>3. Length(request)' = Length(request)
    BY <2>1 DEF Length
  <2> QED
    BY <2>1, <2>2, <2>3 DEF Typed, TypeOK, callVars
<1>11. CASE Arrive \/ UNCHANGED vars
  <2>1. /\ UNCHANGED <<callVars, chipVars, pc, request, line, result, spoilt, faulty, torn>>
        /\ arrived' \in 0 .. Len(line)
    BY <1>0, <1>11 DEF Arrive, vars
  <2>2. Length(request)' = Length(request)
    BY <2>1 DEF Length
  <2> QED
    BY <2>1, <2>2 DEF Typed, TypeOK, callVars, chipVars
<1>12. CASE AlterRequest
  <2>1. PICK r \in Bus!Requests : wire' = <<r>> \o Tail(wire)
    BY <1>12 DEF AlterRequest
  <2>2. wire' \in Seq(Bus!Requests)
    BY <1>8, <1>12, <2>1 DEF AlterRequest
  <2>3. spoilt' \in 0 .. MaxSpoilt
    BY <1>12, LinkAssumption DEF AlterRequest, Typed, TypeOK
  <2>4. /\ UNCHANGED <<callVars, regs, performed, seen, pc, request, line, arrived, result>>
        /\ faulty' = TRUE /\ torn' = TRUE
    BY <1>12 DEF AlterRequest
  <2>5. Length(request)' = Length(request)
    BY <2>4 DEF Length
  <2> QED
    BY <2>2, <2>3, <2>4, <2>5 DEF Typed, TypeOK, callVars
<1> QED
  BY <1>1, <1>2, <1>3, <1>4, <1>5, <1>6, <1>7, <1>9, <1>10, <1>11, <1>12
     DEF Next, Step, AttemptStep, ChipStep

\* Every variable stays in its domain: the host never takes more bytes than the tty
\* holds, and a read returns a value or a mixture of values, whatever is lost, altered,
\* cut short, refused or late (uart_read_exact and the four raw functions).
THEOREM TypeCorrect == Spec => []TypeOK
<1>1. Init => Typed
  BY TypedInit
<1>2. Typed /\ [Next]_vars => Typed'
  BY TypedNext
<1>3. Typed => TypeOK
  BY DEF Typed
<1> QED
  BY <1>1, <1>2, <1>3, PTL DEF Spec
-----------------------------------------------------------------------------
(* From the opening of the tty until a frame comes in part, altered or late. *)

\* Until then host and chip are in step.
Sound == Typed /\ (torn => faulty) /\ (~torn => InStep)

\* Only the opening of the tty ends a time of faults.
LEMMA OnlyOpening ==
  ASSUME Typed, [Next]_vars, \A c \in Callers : ~Reopen(c)
  PROVE  (faulty => faulty') /\ (torn => torn')
<1>0. faulty \in BOOLEAN /\ torn \in BOOLEAN
  BY DEF Typed, TypeOK
<1>1. CASE \E c \in Callers, r \in Bus!Requests : Send(c, r)
  <2>1. faulty' \in {faulty, TRUE} /\ torn' \in {torn, TRUE}
    BY <1>1 DEF Send
  <2>2. faulty => faulty'
    BY <1>0, <2>1
  <2>3. torn => torn'
    BY <1>0, <2>1
  <2> QED BY <2>2, <2>3
<1>2. CASE AttemptStep
  <2>1. CASE TimeOut
    BY <1>0, <2>1 DEF TimeOut, UnderWay
  <2>2. CASE Unsent \/ TakeHeader \/ TakePayload \/ GiveUp
    <3>1. faulty' \in {faulty, TRUE} /\ torn' = torn
      BY <2>2 DEF Unsent, TakeHeader, TakePayload, GiveUp
    <3> QED BY <1>0, <3>1
  <2> QED BY <1>2, <2>1, <2>2 DEF AttemptStep
<1>3. CASE ChipPerforms
  BY <1>3 DEF ChipPerforms, Transmit
<1>4. CASE ChipRefuses \/ AlterRequest \/ Arrive \/ UNCHANGED vars
  BY <1>4 DEF ChipRefuses, AlterRequest, Arrive, vars
<1> QED BY <1>1, <1>2, <1>3, <1>4 DEF Next, Step, ChipStep

\* What it finds on the line it discards.
LEMMA OpeningIsInStep ==
  ASSUME Typed, Typed', torn, ~torn', [Next]_vars
  PROVE  InStep'
<1>1. PICK c \in Callers : Reopen(c)
  BY OnlyOpening
<1>2. wire = <<>> /\ arrived >= Len(line) /\ arrived \in 0 .. Len(line)
  <2>1. ~UnderWay
    BY <1>1 DEF Reopen
  <2>2. arrived \in 0 .. Len(line) /\ Len(line) \in Nat
    BY DEF Typed, TypeOK
  <2> QED BY <2>1, <2>2 DEF UnderWay
<1>3. arrived \in Nat /\ Len(line) = arrived
  BY <1>2 DEF Typed, TypeOK
<1>4. line' = <<>> /\ arrived' = 0
  BY <1>1, <1>2, <1>3, TakeAll DEF Reopen
<1>5. pc' = "opened" /\ wire' = <<>>
  BY <1>1, <1>2 DEF Reopen, chipVars
<1> QED BY <1>4, <1>5 DEF InStep, Typed, TypeOK

\* A frame that comes in part, altered or late is a fault.
LEMMA TornIsFaulty ==
  ASSUME Typed, torn => faulty, [Next]_vars
  PROVE  (torn => faulty)'
<1>1. CASE ~(\A c \in Callers : ~Reopen(c))
  <2>1. PICK c \in Callers : Reopen(c)
    BY <1>1
  <2> QED BY <2>1 DEF Reopen, UnderWay
<1>2. CASE (\A c \in Callers : ~Reopen(c)) /\ faulty
  BY <1>2, OnlyOpening
<1>3. CASE (\A c \in Callers : ~Reopen(c)) /\ ~faulty
  BY <1>3 DEF Next, Step, Send, AttemptStep, Unsent, TakeHeader, TakePayload, TimeOut, GiveUp,
         ChipStep, ChipPerforms, Transmit, ChipRefuses, AlterRequest, Arrive, vars
<1> QED BY <1>1, <1>2, <1>3

LEMMA SoundInvariant == Spec => []Sound
<1>1. Init => Sound
  BY InStepInit, TypedInit DEF Sound, Init
<1>2. Sound /\ [Next]_vars => Sound'
  <2> SUFFICES ASSUME Sound, [Next]_vars PROVE Sound'
    OBVIOUS
  <2>1. Typed' /\ (torn => faulty)'
    BY TypedNext, TornIsFaulty DEF Sound
  <2>2. CASE ~torn /\ ~torn'
    BY <2>1, <2>2, InStepNext DEF Sound
  <2>3. CASE torn /\ ~torn'
    BY <2>1, <2>3, OpeningIsInStep DEF Sound
  <2> QED BY <2>1, <2>2, <2>3 DEF Sound
<1> QED BY <1>1, <1>2, PTL DEF Spec

\* Whatever is lost, altered, late or refused at other times: from the opening of the
\* tty until a frame comes in part, altered or late, each step of the four raw
\* functions and of the chip is a step of RegisterBus, or one it does not see.
THEOREM LinkServesUntilTorn == Spec => ServesUntilTorn
<1>1. Sound /\ [Next]_vars => [~torn => Bus!Next \/ UNCHANGED Bus!busVars]_vars
  BY BusStep DEF Sound
<1> QED BY <1>1, SoundInvariant, PTL DEF Spec, ServesUntilTorn

\* A line on which every frame comes whole and in time, or not at all, implements the
\* transactions of the driver: when an attempt of write8_raw, writeLen_raw, read8_raw
\* or readLen_raw succeeds, the chip performed it, and the value returned is the
\* register's.
THEOREM LinkImplementsBus == Spec => ([]~torn => Bus!Spec)
<1>1. Init => Bus!Init
  BY DEF Init, Bus!Init
<1>2. Sound /\ ~torn /\ [Next]_vars => [Bus!Next]_(Bus!busVars)
  BY BusStep DEF Sound
<1> QED BY <1>1, <1>2, SoundInvariant, PTL DEF Spec, Bus!Spec

\* An attempt of write8_raw, writeLen_raw, read8_raw or readLen_raw that fails had a
\* reason since the tty was last opened, whatever was on the line before.
THEOREM LinkResynchronises == Spec => OpeningResynchronises
<1>1. ASSUME Typed, InStep, [Next]_vars, pc # "idle", pc' = "idle", ~result'.ok PROVE faulty'
  <2>1. CASE Unsent
    BY <1>1, <2>1 DEF Unsent, InStep
  <2>2. CASE GiveUp
    BY <2>2 DEF GiveUp
  <2>3. CASE TakeHeader
    <3>1. request \in Bus!Requests /\ arrived >= 2 /\ arrived <= Len(line)
      BY <1>1, <2>3 DEF TakeHeader, Take, InStep
    <3>2. line = Header(request) \o Data => SubSeq(line, 1, 2) = Header(request)
      BY <3>1, AnswerSplits
    <3>3. SubSeq(line, 1, 2) = Header(request) => result'.ok
      BY <1>1, <2>3, ReturnKeeps DEF TakeHeader
    <3>4. line \in {<<>>, Refusal} /\ faulty
      BY <1>1, <2>3, <3>1, <3>2, <3>3 DEF TakeHeader, InStep
    <3> QED BY <2>3, <3>4 DEF TakeHeader
  <2>4. CASE TakePayload
    BY <1>1, <2>4, ReturnKeeps DEF TakePayload
  <2>5. CASE TimeOut
    <3>1. CASE UnderWay
      BY <2>5, <3>1 DEF TimeOut
    <3>2. CASE ~UnderWay
      <4>1. wire = <<>> /\ arrived >= Len(line) /\ arrived \in 0 .. Len(line)
        <5>1. arrived \in 0 .. Len(line) /\ Len(line) \in Nat
          BY <1>1 DEF Typed, TypeOK
        <5> QED BY <3>2, <5>1 DEF UnderWay
      <4>2. request \in Bus!Requests /\ Length(request) \in Nat
        BY <1>1, <2>5, Shapes DEF TimeOut, InStep
      <4>3. CASE pc = "header"
        <5>1. Len(line) < 2
          BY <2>5, <4>1, <4>3 DEF TimeOut, Wanted
        <5>2. line # Header(request) \o Data
          BY <4>2, <5>1, AnswerSplits
        <5> QED BY <1>1, <2>5, <4>1, <4>2, <4>3, <5>2 DEF TimeOut, InStep
      <4>4. CASE pc = "payload"
        <5>1. Len(line) = Length(request)
          BY <1>1, <4>2, <4>4 DEF InStep, Data, Repeat
        <5> QED BY <2>5, <4>1, <4>2, <4>4, <5>1 DEF TimeOut, Wanted
      <4> QED BY <2>5, <4>3, <4>4 DEF TimeOut
    <3> QED BY <3>1, <3>2
  <2>6. pc' = pc \/ Unsent \/ GiveUp \/ TakeHeader \/ TakePayload \/ TimeOut
    BY <1>1 DEF Next, Step, AttemptStep, ChipStep, Send, Reopen, ChipPerforms, ChipRefuses,
                AlterRequest, Arrive, vars
  <2> QED BY <1>1, <2>1, <2>2, <2>3, <2>4, <2>5, <2>6
<1>2. Sound /\ [Next]_vars =>
        [pc # "idle" /\ pc' = "idle" /\ ~result'.ok => faulty']_vars
  <2>1. ASSUME Sound, [Next]_vars, pc # "idle", pc' = "idle", ~result'.ok, ~faulty'
        PROVE  FALSE
    <3>1. \A c \in Callers : ~Reopen(c)
      BY <2>1 DEF Reopen
    <3>2. ~faulty
      BY <2>1, <3>1, OnlyOpening DEF Sound
    <3> QED BY <1>1, <2>1, <3>2 DEF Sound
  <2> QED BY <2>1
<1> QED BY <1>2, SoundInvariant, PTL DEF Spec, OpeningResynchronises
=============================================================================
