---------------------------- MODULE DspLinkProofs -----------------------------
(***************************************************************************)
(* Proofs about DspLink, for every set of arguments and payloads and every *)
(* width of a word: what it keeps to word by word, and that it implements  *)
(* DspService, what is said of whole calls.                                *)
(***************************************************************************)
EXTENDS DspLink, TLAPS

Inv == TypeOK /\ InStep /\ AnswerIsForCaller

\* A full register is not an empty one.
LEMMA FullIsNotEmpty == \A w : <<w>> # <<>>
  OBVIOUS

\* The link starts in a state of the invariant.
LEMMA InitInv == Init => Inv
  <1> USE MaxWordAssumption, ArgsAssumption DEF Word, Commands, TE_MODE_CLOSE,
         BOOT_FLAG, Replies, TakesArg, CmBoot, CmLoop, DspBoot, InCall
  <1>1. QED
    BY SMTT(30) DEF Init, MUPowerOn, Request, Inv, TypeOK, InStep, BootOrder, BeforeFirstWord, BetweenWords,
         AwaitingAnswer, NothingStray, AnswerIsForCaller, Behind, AtClose

\* Every step keeps it.
LEMMA NextInv == Inv /\ [Next]_vars => Inv'
  <1> SUFFICES ASSUME Inv, [Next]_vars PROVE Inv'
    OBVIOUS
  <1> USE MaxWordAssumption, ArgsAssumption DEF Inv, TypeOK, InStep, BootOrder, BeforeFirstWord, BetweenWords,
         AwaitingAnswer, NothingStray, AnswerIsForCaller, Behind, AtClose,
         Word, Commands, TE_MODE_READ, TE_MODE_WRITE, TE_MODE_CLOSE, TE_MODE_SEEK,
         TE_MODE_TELL, TE_MODE_TEST_DECODE, TE_MODE_TEST_ENCODE,
         TE_MODE_GET_MUSICNUM, TE_ACK_OK, TE_ACK_ERROR, BOOT_FLAG, Replies,
         TakesArg, CmBoot, CmLoop, DspBoot, InCall
  <1>1. CASE ResetMU
    BY <1>1, SMTT(30) DEF ResetMU, MU_Reset, dspVars
  <1>2. CASE StartDsp
    BY <1>2, SMTT(30) DEF StartDsp, dspVars
  <1>3. CASE DspIsUp
    BY <1>3, SMTT(30) DEF DspIsUp, MU_GetFlags, dspVars
  <1>4. CASE GetCmd
    BY <1>4, SMTT(30) DEF GetCmd, MU_ReceiveMsg, Received, dspVars
  <1>5. CASE GetArg
    BY <1>5, SMTT(30) DEF GetArg, MU_ReceiveMsg, Received, dspVars
  <1>6. CASE HandleRead
    BY <1>6, SMTT(30) DEF HandleRead, Handled, Outcomes, Request, dspVars
  <1>7. CASE HandleWrite
    BY <1>7, SMTT(30) DEF HandleWrite, Handled, Outcomes, Request, dspVars
  <1>8. CASE HandleStatus
    BY <1>8, SMTT(30) DEF HandleStatus, Handled, Outcomes, Request, dspVars
  <1>9. CASE HandleQuery
    BY <1>9, SMTT(30) DEF HandleQuery, Handled, Request, dspVars
  <1>10. CASE SendAck
    BY <1>10, SMTT(30) DEF SendAck, MU_SendMsg, dspVars
  <1>11. CASE SetFlags
    BY <1>11, SMTT(30) DEF SetFlags, MU_SetFlags, cmVars
  <1>12. CASE ClearMsgRecv
    BY <1>12, SMTT(30) DEF ClearMsgRecv, cmVars
  <1>13. CASE FillWriteWindow
    BY <1>13, SMTT(30) DEF FillWriteWindow, cmVars
  <1>14. CASE SendWord
    <2>1. dspPc = "send" /\ sent \in {0, 1}
      BY <1>14 DEF SendWord
    <2>2. reg.toCm33 = <<>>
      BY <1>14 DEF SendWord, MU_SendMsg
    <2>3. reg' = [reg EXCEPT !.toCm33 = <<g_msgRecv[sent + 1]>>]
      BY <1>14 DEF SendWord, MU_SendMsg
    <2>4. g_msgRecv[sent + 1] = IF sent = 0 THEN op ELSE opArg
      BY <1>14 DEF SendWord
    <2>5. CASE sent = 0
      <3>1. dspPc' = "send" /\ sent' = 1 /\ ret' = ret
        BY <1>14, <2>5 DEF SendWord
      <3>2. reg' = [reg EXCEPT !.toCm33 = <<op>>]
        BY <2>3, <2>4, <2>5
      <3>3. QED
        BY <1>14, <2>1, <2>2, <2>5, <3>1, <3>2, SMTT(30) DEF SendWord, cmVars
    <2>6. CASE sent = 1
      <3>1. sent' = 2 /\ dspPc' = IF op # TE_MODE_CLOSE THEN "wait" ELSE "idle"
        BY <1>14, <2>6 DEF SendWord
      <3>2. ret' \in [value : Word, data : Data \cup {NoData}]
        BY <1>14 DEF SendWord
      <3>3. cmPc = "getArg" /\ getCmd = op
        BY <2>1, <2>2, <2>6, FullIsNotEmpty
      <3>4. reg' = [reg EXCEPT !.toCm33 = <<opArg>>]
        BY <2>3, <2>4, <2>6
      <3>5. QED
        BY <1>14, <2>1, <2>2, <2>6, <3>1, <3>2, <3>3, <3>4, SMTT(30)
           DEF SendWord, cmVars
    <2>7. QED
      BY <2>1, <2>5, <2>6
  <1>15. CASE ReceiveAnswer
    BY <1>15, SMTT(60) DEF ReceiveAnswer, MU_ReceiveMsg, Received, Returned, cmVars
  <1>16. CASE CopyReadWindow
    BY <1>16, SMTT(30) DEF CopyReadWindow, cmVars
  <1>17. CASE ApiCall
    BY <1>17, SMTT(30) DEF ApiCall, Enter, cmVars
  <1>18. CASE UpdateFlags
    BY <1>18, SMTT(30) DEF UpdateFlags, MU_UpdateFlags, cmVars, dspVars
  <1>19. CASE UNCHANGED vars
    BY <1>19, SMTT(30) DEF vars, cmVars, dspVars
  <1>20. QED
    BY <1>1, <1>2, <1>3, <1>4, <1>5, <1>6, <1>7, <1>8, <1>9, <1>10, <1>11, <1>12, <1>13, <1>14, <1>15, <1>16, <1>17, <1>18, <1>19 DEF Next, CmStep, DspStep, Handle

\* The invariant holds throughout.
LEMMA AlwaysInv == Spec => []Inv
  BY InitInv, NextInv, PTL DEF Spec

\* Registers, counters, buffers and the two program counters keep their types;
\* in particular the send loop never indexes past the second word.
THEOREM TypeCorrect == Spec => []TypeOK
  BY AlwaysInv, PTL DEF Inv

\* The cores never get out of step: whatever the client calls, a command word
\* is read as a command and an argument as its argument.
THEOREM CoresStayInStep == Spec => []InStep
  BY AlwaysInv, PTL DEF Inv

\* No call ever takes another call's answer.
THEOREM AnswersAreForTheirCallers == Spec => []AnswerIsForCaller
  BY AlwaysInv, PTL DEF Inv

\* The two cores never use a shared window at the same time.
THEOREM WindowsAreExclusive == Spec => []WindowExclusion
  <1>1. Inv => WindowExclusion
    BY DEF Inv, InStep, BeforeFirstWord, Behind, AtClose, NothingStray,
           WindowExclusion, TE_MODE_CLOSE, TE_MODE_WRITE
  <1>2. QED
    BY <1>1, AlwaysInv, PTL

-------------------------------------------------------------------------------
(* The link implements the service. First, short sequences *)

\* A sequence is the tuple of its elements.
LEMMA OneElement ==
  ASSUME NEW S, NEW s \in Seq(S), Len(s) = 1 PROVE s = <<s[1]>>
  OBVIOUS

\* The same for two of them
LEMMA TwoElements ==
  ASSUME NEW S, NEW s \in Seq(S), Len(s) = 2 PROVE s = <<s[1], s[2]>>
  OBVIOUS

\* and for four.
LEMMA FourElements ==
  ASSUME NEW S, NEW s \in Seq(S), Len(s) = 4
  PROVE  s = <<s[1], s[2], s[3], s[4]>>
  OBVIOUS

\* A word after a word
LEMMA OneAndOne == ASSUME NEW a, NEW b PROVE <<a>> \o <<b>> = <<a, b>>
  <1> DEFINE s == <<a>> \o <<b>>
  <1>1. <<a>> \in Seq({a, b}) /\ <<b>> \in Seq({a, b})
    OBVIOUS
  <1>2. s \in Seq({a, b}) /\ Len(s) = 2 /\ s[1] = a /\ s[2] = b
    BY <1>1
  <1> HIDE DEF s
  <1>3. s = <<a, b>>
    BY <1>2, TwoElements
  <1>4. QED
    BY <1>3 DEF s

\* The two words of a call after those of another
LEMMA TwoAndTwo ==
  ASSUME NEW a, NEW b, NEW c, NEW d
  PROVE  <<a, b>> \o <<c, d>> = <<a, b, c, d>>
  <1> DEFINE S == {a, b, c, d}
             s == <<a, b>> \o <<c, d>>
  <1>1. <<a, b>> \in Seq(S) /\ <<c, d>> \in Seq(S)
    OBVIOUS
  <1>2. s \in Seq(S) /\ Len(s) = 4 /\ s[1] = a /\ s[2] = b /\ s[3] = c /\ s[4] = d
    BY <1>1
  <1> HIDE DEF s, S
  <1>3. s = <<a, b, c, d>>
    BY <1>2, FourElements
  <1>4. QED
    BY <1>3 DEF s

\* A call behind a call
LEMMA AppendToOne == ASSUME NEW a, NEW b PROVE Append(<<a>>, b) = <<a, b>>
  <1> DEFINE s == Append(<<a>>, b)
  <1>1. <<a>> \in Seq({a, b}) /\ b \in {a, b}
    OBVIOUS
  <1>2. s \in Seq({a, b}) /\ Len(s) = 2 /\ s[1] = a /\ s[2] = b
    BY <1>1
  <1> HIDE DEF s
  <1>3. s = <<a, b>>
    BY <1>2, TwoElements
  <1>4. QED
    BY <1>3 DEF s

\* Both words of a call are still to be sent.
LEMMA BothOfTwo == ASSUME NEW a, NEW b PROVE SubSeq(<<a, b>>, 1, 2) = <<a, b>>
  <1> DEFINE s == SubSeq(<<a, b>>, 1, 2)
  <1>1. s \in Seq({a, b}) /\ Len(s) = 2 /\ s[1] = a /\ s[2] = b
    OBVIOUS
  <1> HIDE DEF s
  <1>2. s = <<a, b>>
    BY <1>1, TwoElements
  <1>3. QED
    BY <1>2 DEF s

\* Only its argument is.
LEMMA SecondOfTwo == ASSUME NEW a, NEW b PROVE SubSeq(<<a, b>>, 2, 2) = <<b>>
  <1> DEFINE s == SubSeq(<<a, b>>, 2, 2)
  <1>1. s \in Seq({a, b}) /\ Len(s) = 1 /\ s[1] = b
    OBVIOUS
  <1> HIDE DEF s
  <1>2. s = <<b>>
    BY <1>1, OneElement
  <1>3. QED
    BY <1>2 DEF s

\* The ends of a queue of at most two
LEMMA AppendOrTakeOne ==
  ASSUME NEW a, NEW b
  PROVE  /\ Append(<<>>, a) = <<a>>
         /\ Tail(<<a>>) = <<>> /\ Tail(<<a, b>>) = <<b>>
         /\ Head(<<a>>) = a /\ Head(<<a, b>>) = a
         /\ Len(<<>>) = 0 /\ Len(<<a>>) = 1 /\ Len(<<a, b>>) = 2
         /\ <<a>> # <<>> /\ <<a, b>> # <<>>
  OBVIOUS

\* Nothing before or after
LEMMA AndNone ==
  ASSUME NEW a, NEW b
  PROVE  /\ <<>> \o <<>> = <<>>
         /\ <<a>> \o <<>> = <<a>> /\ <<>> \o <<a>> = <<a>>
         /\ <<a, b>> \o <<>> = <<a, b>> /\ <<>> \o <<a, b>> = <<a, b>>
  OBVIOUS

-------------------------------------------------------------------------------
(* The calls that the words under way stand for *)

\* A CLOSE that has returned to the client and that the CM33 did not carry out yet
ClosePending ==
    /\ dspPc \in {"idle", "fill", "send"}
    /\ \/ cmPc = "handle"
       \/ cmPc = "getArg" /\ ~(dspPc = "send" /\ sent = 1)

\* The call that the DSP is in is not carried out yet.
CallPending ==
    \/ dspPc \in {"fill", "send"}
    \/ dspPc = "wait" /\ cmPc \in {"getArg", "handle"}

CloseCall == Request(TE_MODE_CLOSE, 0, NoData)
Current == Request(op, opArg, IF op = TE_MODE_WRITE THEN buf ELSE NoData)

Queue ==
    IF ClosePending
    THEN IF CallPending THEN <<CloseCall, Current>> ELSE <<CloseCall>>
    ELSE IF CallPending THEN <<Current>> ELSE <<>>

\* The words under way are those of the pending calls.
QueueWords ==
    IF ClosePending
    THEN IF CallPending THEN <<TE_MODE_CLOSE, 0, op, opArg>> ELSE <<TE_MODE_CLOSE, 0>>
    ELSE IF CallPending THEN <<op, opArg>> ELSE <<>>

\* No word is missing, none is left over and they are in order.
LEMMA WordsAreQueued == Inv => Words = QueueWords
  <1> SUFFICES ASSUME Inv PROVE Words = QueueWords
    OBVIOUS
  <1> DEFINE inRegister == IF cmPc = "reset" THEN <<>> ELSE reg.toCm33
  <1>0. /\ cmPc \in CmBoot \cup CmLoop /\ dspPc \in DspBoot \cup {"idle"} \cup InCall
        /\ sent \in 0..2
    BY DEF Inv, TypeOK
  <1>1. WordsToSend = IF dspPc = "fill" \/ (dspPc = "send" /\ sent = 0)
                      THEN <<op, opArg>>
                      ELSE IF dspPc = "send" THEN <<opArg>> ELSE <<>>
    <2>1. CASE dspPc = "send"
      <3>1. g_msgRecv = <<op, opArg>> /\ (sent = 0 \/ sent = 1)
        BY <1>0, <2>1 DEF Inv, InStep, BetweenWords
      <3>2. CASE sent = 0
        BY <2>1, <3>1, <3>2, BothOfTwo DEF WordsToSend
      <3>3. CASE sent = 1
        BY <2>1, <3>1, <3>3, SecondOfTwo DEF WordsToSend
      <3>4. QED
        BY <3>1, <3>2, <3>3
    <2>2. CASE dspPc # "send"
      BY <2>2 DEF WordsToSend
    <2>3. QED
      BY <2>1, <2>2
  <1>2. WordsRead = IF cmPc = "getArg" THEN <<getCmd>>
                    ELSE IF cmPc = "handle" THEN <<getCmd, len>> ELSE <<>>
    BY DEF WordsRead
  <1>3. Words = (WordsRead \o inRegister) \o WordsToSend
    <2>1. \A a, b, c \in Seq(Word) : a \o b \o c = (a \o b) \o c
      OBVIOUS
    <2>2. QED
      BY DEF Words
  <1> HIDE DEF inRegister
  <1>4. CASE dspPc \in DspBoot
    <2>1. inRegister = <<>>
      BY <1>4 DEF inRegister, Inv, InStep, BootOrder
    <2>2. WordsRead = <<>> /\ WordsToSend = <<>>
      BY <1>0, <1>1, <1>2, <1>4 DEF Inv, InStep, BootOrder, CmBoot, CmLoop, DspBoot
    <2>3. ~ClosePending /\ ~CallPending
      BY <1>4 DEF ClosePending, CallPending, DspBoot
    <2>4. QED
      BY <1>3, <2>1, <2>2, <2>3, AndNone DEF QueueWords
  <1>5. CASE dspPc \in {"idle", "fill"} \/ (dspPc = "send" /\ sent = 0)
    <2>1. CASE Behind
      <3>1. WordsRead = <<>> /\ inRegister = <<>> /\ ~ClosePending
        BY <1>2, <1>5, <2>1 DEF Behind, inRegister, ClosePending
      <3>2. QED
        BY <1>1, <1>3, <1>5, <3>1, AndNone DEF QueueWords, CallPending
    <2>2. CASE AtClose
      <3>1. ClosePending
        BY <1>5, <2>2 DEF AtClose, ClosePending
      <3>2. WordsRead \o inRegister = <<TE_MODE_CLOSE, 0>>
        BY <1>2, <2>2, OneAndOne, AndNone DEF AtClose, inRegister
      <3>3. CASE dspPc = "idle"
        <4>1. WordsToSend = <<>> /\ ~CallPending
          BY <1>1, <3>3 DEF CallPending
        <4>2. Words = <<TE_MODE_CLOSE, 0>>
          BY <1>3, <3>2, <4>1, AndNone
        <4>3. QED
          BY <3>1, <4>1, <4>2 DEF QueueWords
      <3>4. CASE dspPc = "fill" \/ (dspPc = "send" /\ sent = 0)
        <4>1. WordsToSend = <<op, opArg>> /\ CallPending
          BY <1>1, <3>4 DEF CallPending
        <4>2. Words = <<TE_MODE_CLOSE, 0, op, opArg>>
          BY <1>3, <3>2, <4>1, TwoAndTwo
        <4>3. QED
          BY <3>1, <4>1, <4>2 DEF QueueWords
      <3>5. QED
        BY <1>5, <3>3, <3>4
    <2>3. QED
      BY <1>5, <2>1, <2>2 DEF Inv, InStep, BeforeFirstWord
  <1>6. CASE dspPc = "send" /\ sent = 1
    <2>1. \/ cmPc \in {"waitBoot", "getCmd"} /\ reg.toCm33 = <<op>>
          \/ cmPc = "getArg" /\ getCmd = op /\ reg.toCm33 = <<>>
          \/ cmPc = "handle" /\ getCmd = TE_MODE_CLOSE /\ len = 0 /\ reg.toCm33 = <<op>>
      BY <1>6 DEF Inv, InStep, BetweenWords
    <2>2. CallPending /\ WordsToSend = <<opArg>>
      BY <1>1, <1>6 DEF CallPending
    <2>3. CASE cmPc # "handle"
      <3>1. ~ClosePending
        BY <1>6, <2>1, <2>3 DEF ClosePending
      <3>2. WordsRead \o inRegister = <<op>>
        BY <1>2, <2>1, <2>3, AndNone DEF inRegister
      <3>3. QED
        BY <1>3, <2>2, <3>1, <3>2, OneAndOne DEF QueueWords
    <2>4. CASE cmPc = "handle"
      <3>1. ClosePending
        BY <1>6, <2>4 DEF ClosePending
      <3>2. WordsRead = <<TE_MODE_CLOSE, 0>> /\ inRegister = <<op>>
        BY <1>2, <2>1, <2>4 DEF inRegister
      <3>3. (<<TE_MODE_CLOSE, 0>> \o <<op>>) \o <<opArg>>
              = <<TE_MODE_CLOSE, 0>> \o (<<op>> \o <<opArg>>)
        OBVIOUS
      <3>4. QED
        BY <1>3, <2>2, <3>1, <3>2, <3>3, OneAndOne, TwoAndTwo DEF QueueWords
    <2>5. QED
      BY <2>3, <2>4
  <1>7. CASE dspPc = "wait"
    <2>1. WordsToSend = <<>> /\ ~ClosePending
      BY <1>1, <1>7 DEF ClosePending
    <2>2. \/ cmPc = "getArg" /\ getCmd = op /\ reg.toCm33 = <<opArg>>
          \/ cmPc = "handle" /\ getCmd = op /\ len = opArg /\ reg.toCm33 = <<>>
          \/ cmPc \in {"ack", "getCmd"} /\ reg.toCm33 = <<>>
      BY <1>7 DEF Inv, InStep, AwaitingAnswer
    <2>3. WordsRead \o inRegister
            = IF cmPc \in {"getArg", "handle"} THEN <<op, opArg>> ELSE <<>>
      BY <1>2, <2>2, OneAndOne, AndNone DEF inRegister
    <2>4. QED
      BY <1>3, <1>7, <2>1, <2>3, AndNone DEF QueueWords, CallPending
  <1>8. CASE dspPc = "copyOut"
    <2>1. WordsToSend = <<>> /\ WordsRead = <<>> /\ inRegister = <<>>
      BY <1>1, <1>2, <1>8 DEF inRegister, Inv, InStep, NothingStray
    <2>2. ~ClosePending /\ ~CallPending
      BY <1>8 DEF ClosePending, CallPending
    <2>3. QED
      BY <1>3, <2>1, <2>2, AndNone DEF QueueWords
  <1>9. QED
    BY <1>0, <1>4, <1>5, <1>6, <1>7, <1>8 DEF InCall, Inv, InStep, BetweenWords

\* Hence the backlog is the pending calls.
LEMMA BacklogIsQueue == Inv => Backlog = Queue
  <1> SUFFICES ASSUME Inv PROVE Backlog = Queue
    OBVIOUS
  <1>1. Words = QueueWords
    BY WordsAreQueued
  <1>2. TE_MODE_CLOSE # TE_MODE_WRITE
    BY DEF TE_MODE_CLOSE, TE_MODE_WRITE
  <1>3. CASE ClosePending /\ CallPending
    BY <1>1, <1>2, <1>3 DEF Backlog, Queue, QueueWords, CloseCall, Current
  <1>4. CASE ClosePending /\ ~CallPending
    BY <1>1, <1>2, <1>4 DEF Backlog, Queue, QueueWords, CloseCall, Current
  <1>5. CASE ~ClosePending /\ CallPending
    BY <1>1, <1>2, <1>5 DEF Backlog, Queue, QueueWords, CloseCall, Current
  <1>6. CASE ~ClosePending /\ ~CallPending
    BY <1>1, <1>2, <1>6 DEF Backlog, Queue, QueueWords, CloseCall, Current
  <1>7. QED
    BY <1>3, <1>4, <1>5, <1>6

-------------------------------------------------------------------------------
(* The data that goes with a call *)

\* The window the CM33 will take the data from holds what the client passed,
\* from the fill to the end of the call.
WriteWindowHoldsBuf ==
    /\ dspPc \in {"fill", "send", "wait", "copyOut"} =>
           (op = TE_MODE_WRITE <=> buf \in Data) /\ (buf \in Data \/ buf = NoData)
    /\ dspPc \in {"send", "wait"} /\ op = TE_MODE_WRITE => writeWin = buf

\* From an acknowledged READ until it is copied out, the other window holds
\* what was read.
ReadWindowHoldsFetched ==
    \/ cmPc = "ack" /\ op = TE_MODE_READ /\ g_msgSend = TE_ACK_OK
    \/ dspPc = "wait" /\ op = TE_MODE_READ /\ reg.toDsp = <<TE_ACK_OK>>
    \/ dspPc = "copyOut"
    => readWin = fetched

\* What the CM33 carried out is the current call, data included, from then to
\* its return.
PerformedCurrent ==
    cmPc \in CmLoop /\ (reg.toDsp # <<>> \/ cmPc = "ack" \/ dspPc = "copyOut") =>
        performed = Current

DataInv == WriteWindowHoldsBuf /\ ReadWindowHoldsFetched /\ PerformedCurrent

\* The link starts so.
LEMMA InitData == Init => DataInv
  BY SMTT(30) DEF Init, MUPowerOn, DataInv, WriteWindowHoldsBuf,
     ReadWindowHoldsFetched, PerformedCurrent, CmLoop

\* At the switch the CM33 has the call the DSP waits in, or the CLOSE before it.
LEMMA AtTheSwitch ==
  Inv /\ cmPc = "handle" =>
    /\ reg.toDsp = <<>>
    /\ \/ /\ dspPc \in {"idle", "fill", "send"}
          /\ getCmd = TE_MODE_CLOSE /\ len = 0
       \/ /\ dspPc = "wait" /\ getCmd = op /\ op # TE_MODE_CLOSE /\ len = opArg
  BY SMTT(30) DEF Inv, TypeOK, InStep, BootOrder, BeforeFirstWord, BetweenWords,
     AwaitingAnswer, NothingStray, Behind, AtClose, CmBoot, DspBoot, InCall, Replies

\* Every step keeps it.
LEMMA NextData == Inv /\ DataInv /\ [Next]_vars => DataInv'
  <1> SUFFICES ASSUME Inv, DataInv, [Next]_vars PROVE DataInv'
    OBVIOUS
  <1> USE NoDataAssumption DEF DataInv, WriteWindowHoldsBuf, ReadWindowHoldsFetched, PerformedCurrent, Current,
         Request, CmLoop, Inv, InStep, BootOrder, BeforeFirstWord, BetweenWords,
         AwaitingAnswer, NothingStray, Behind, AtClose, CmBoot, DspBoot, Replies,
         TE_MODE_READ, TE_MODE_WRITE, TE_MODE_CLOSE, TE_ACK_OK
  <1>1. CASE ResetMU
    BY <1>1, SMTT(30) DEF ResetMU, dspVars
  <1>2. CASE StartDsp
    BY <1>2, SMTT(30) DEF StartDsp
  <1>3. CASE DspIsUp
    BY <1>3, SMTT(30) DEF DspIsUp, dspVars
  <1>4. CASE GetCmd
    BY <1>4, SMTT(30) DEF GetCmd, MU_ReceiveMsg, TypeOK, dspVars
  <1>5. CASE GetArg
    BY <1>5, SMTT(30) DEF GetArg, MU_ReceiveMsg, TypeOK, dspVars
  <1>6. CASE HandleRead
    BY <1>6, AtTheSwitch, SMTT(30) DEF HandleRead, Handled, Outcomes, dspVars
  <1>7. CASE HandleWrite
    BY <1>7, AtTheSwitch, SMTT(30) DEF HandleWrite, Handled, Outcomes, dspVars
  <1>8. CASE HandleStatus
    BY <1>8, AtTheSwitch, SMTT(30) DEF HandleStatus, Handled, Outcomes, dspVars,
       TE_MODE_SEEK, TE_MODE_TEST_DECODE, TE_MODE_TEST_ENCODE
  <1>9. CASE HandleQuery
    BY <1>9, AtTheSwitch, SMTT(30) DEF HandleQuery, Handled, dspVars,
       TE_MODE_TELL, TE_MODE_GET_MUSICNUM
  <1>10. CASE SendAck
    BY <1>10, SMTT(30) DEF SendAck, MU_SendMsg, TypeOK, dspVars
  <1>11. CASE SetFlags
    BY <1>11, SMTT(30) DEF SetFlags, cmVars
  <1>12. CASE ClearMsgRecv
    BY <1>12, SMTT(30) DEF ClearMsgRecv, cmVars
  <1>13. CASE FillWriteWindow
    BY <1>13, SMTT(30) DEF FillWriteWindow, cmVars
  <1>14. CASE SendWord
    <2>1. /\ dspPc = "send" /\ dspPc' \in {"send", "wait", "idle"}
          /\ op' = op /\ opArg' = opArg /\ buf' = buf /\ writeWin' = writeWin
          /\ performed' = performed /\ cmPc' = cmPc
      BY <1>14 DEF SendWord, cmVars
    <2>2. reg.toDsp = <<>> /\ cmPc # "ack"
      BY <2>1
    <2>3. reg'.toDsp = <<>>
      BY <1>14, <2>2 DEF SendWord, MU_SendMsg, TypeOK
    <2>4. WriteWindowHoldsBuf'
      BY <2>1
    <2>5. QED
      BY <2>1, <2>2, <2>3, <2>4
  <1>15. CASE ReceiveAnswer
    BY <1>15, SMTT(30) DEF ReceiveAnswer, MU_ReceiveMsg, Received, TypeOK, cmVars
  <1>16. CASE CopyReadWindow
    BY <1>16, SMTT(30) DEF CopyReadWindow, cmVars
  <1>17. CASE ApiCall
    BY <1>17, SMTT(30) DEF ApiCall, Enter, cmVars
  <1>18. CASE UpdateFlags
    BY <1>18, SMTT(30) DEF UpdateFlags, MU_UpdateFlags, cmVars, dspVars
  <1>19. CASE UNCHANGED vars
    BY <1>19, SMTT(30) DEF vars, cmVars, dspVars
  <1>20. QED
    BY <1>1, <1>2, <1>3, <1>4, <1>5, <1>6, <1>7, <1>8, <1>9, <1>10, <1>11, <1>12, <1>13, <1>14, <1>15, <1>16, <1>17, <1>18, <1>19 DEF Next, CmStep, DspStep, Handle

-------------------------------------------------------------------------------
(* Every step is a step of the service or none *)

\* The step shows nothing at the service.
Still ==
    UNCHANGED <<Caller, Answer, ClosePending, CallPending, performed, ret>>
    /\ (CallPending => Current' = Current)

\* The same after a step
LEMMA BacklogIsQueueNext == Inv' => (Backlog = Queue)'
  BY BacklogIsQueue, PTL

\* Then the service stutters.
LEMMA StillIsStutter ==
  Inv /\ Inv' /\ Still => UNCHANGED Service!vars
  <1> SUFFICES ASSUME Inv, Inv', Still PROVE UNCHANGED Service!vars
    OBVIOUS
  <1>1. Backlog = Queue /\ Backlog' = Queue'
    BY BacklogIsQueue, BacklogIsQueueNext
  <1>2. CloseCall' = CloseCall
    BY DEF CloseCall, Request
  <1>3. Queue' = Queue
    BY <1>2 DEF Still, Queue
  <1>4. QED
    BY <1>1, <1>3 DEF Service!vars, Still

\* Steps that move words, flags and program counters only
LEMMA SilentSteps ==
  ASSUME Inv,
         \/ ResetMU \/ StartDsp \/ DspIsUp \/ GetCmd \/ GetArg \/ SendAck
         \/ SetFlags \/ ClearMsgRecv \/ FillWriteWindow \/ UpdateFlags
         \/ UNCHANGED vars
  PROVE  Still
  <1> USE DEF Inv, InStep, BootOrder, BeforeFirstWord, BetweenWords,
         AwaitingAnswer, NothingStray, Behind, AtClose, CmBoot, DspBoot, InCall,
         Still, Caller, Answer, ClosePending, CallPending, Current, Request
  <1>1. CASE ResetMU
    <2>1. cmPc = "reset" /\ dspPc = "off" /\ dspPc' = "off"
      BY <1>1 DEF ResetMU, dspVars
    <2>2. cmPc' = "startDsp" /\ reg'.toDsp = <<>>
      BY <1>1 DEF ResetMU, MU_Reset
    <2>3. Answer = <<>> /\ Answer' = <<>>
      BY <2>1, <2>2
    <2>4. QED
      BY <1>1, <2>1, <2>2, <2>3 DEF ResetMU, dspVars
  <1>2. CASE StartDsp
    BY <1>2, SMTT(30) DEF StartDsp, Received
  <1>3. CASE DspIsUp
    BY <1>3, SMTT(30) DEF DspIsUp, Received, dspVars
  <1>4. CASE GetCmd
    BY <1>4, SMTT(30) DEF GetCmd, MU_ReceiveMsg, Received, TypeOK, dspVars
  <1>5. CASE GetArg
    BY <1>5, SMTT(30) DEF GetArg, MU_ReceiveMsg, Received, TypeOK, dspVars
  <1>6. CASE SendAck
    BY <1>6, SMTT(30) DEF SendAck, MU_SendMsg, Received, TypeOK, dspVars
  <1>7. CASE SetFlags
    BY <1>7, SMTT(30) DEF SetFlags, Received, cmVars
  <1>8. CASE ClearMsgRecv
    BY <1>8, SMTT(30) DEF ClearMsgRecv, Received, cmVars
  <1>9. CASE FillWriteWindow
    BY <1>9, SMTT(30) DEF FillWriteWindow, Received, cmVars
  <1>10. CASE UpdateFlags
    BY <1>10, SMTT(30) DEF UpdateFlags, MU_UpdateFlags, Received, cmVars, dspVars
  <1>11. CASE UNCHANGED vars
    BY <1>11, SMTT(30) DEF vars, Received, cmVars, dspVars
  <1>12. QED
    BY <1>1, <1>2, <1>3, <1>4, <1>5, <1>6, <1>7, <1>8, <1>9, <1>10, <1>11

\* The API function is entered: the call is issued.
LEMMA EntryIssues ==
  ASSUME Inv, DataInv, Inv', DataInv', ApiCall
  PROVE  Service!Next
  <1>1. PICK cmd \in Commands :
          \E arg \in IF TakesArg(cmd) THEN Args ELSE {0} : Enter(cmd, arg)
    BY DEF ApiCall
  <1>2. PICK arg \in IF TakesArg(cmd) THEN Args ELSE {0} : Enter(cmd, arg)
    BY <1>1
  <1>3. /\ dspPc = "idle" /\ dspPc' \in {"fill", "send"} /\ op' = cmd /\ opArg' = arg
        /\ sent' = 0 /\ reg' = reg /\ cmPc' = cmPc /\ g_msgSend' = g_msgSend
        /\ fetched' = fetched /\ ret' = ret /\ performed' = performed
    BY <1>2 DEF Enter, cmVars
  <1>4. Caller = <<>> /\ Caller' = <<Current'>>
    BY <1>3 DEF Caller, InCall, Current
  <1>5. Queue' = Append(Queue, Current')
    <2>1. ~CallPending /\ CallPending'
      BY <1>3 DEF CallPending
    <2>2. ClosePending' = ClosePending
      BY <1>3 DEF ClosePending
    <2>3. CloseCall' = CloseCall
      BY DEF CloseCall, Request
    <2>4. Append(<<>>, Current') = <<Current'>>
      BY AppendOrTakeOne
    <2>5. Append(<<CloseCall>>, Current') = <<CloseCall, Current'>>
      BY AppendToOne
    <2>6. QED
      BY <2>1, <2>2, <2>3, <2>4, <2>5 DEF Queue
  <1>6. Answer' = Answer
    BY <1>3 DEF Answer, Received
  <1>7. Current' \in Service!Call /\ Service!WellFormed(Current')
    <2>1. op' \in Commands /\ opArg' \in Word /\ (~TakesArg(op') => opArg' = 0)
      BY DEF Inv, TypeOK, InStep, NothingStray
    <2>2. (op' = TE_MODE_WRITE) <=> (buf' # NoData /\ buf' \in Data)
      BY <1>3, NoDataAssumption DEF DataInv, WriteWindowHoldsBuf
    <2>3. Current' = [cmd |-> op', arg |-> opArg',
                      data |-> IF op' = TE_MODE_WRITE THEN buf' ELSE NoData]
      BY DEF Current, Request
    <2> HIDE DEF Current
    <2>4. Current' \in Service!Call
      BY <2>1, <2>2, <2>3 DEF Service!Call, Service!Commands, Commands,
         Service!Word, Word
    <2>5. Service!WellFormed(Current')
      BY <2>1, <2>2, <2>3 DEF Service!WellFormed, Service!TakesArg, TakesArg,
         Service!TE_MODE_WRITE, TE_MODE_WRITE, Service!TE_MODE_CLOSE, TE_MODE_CLOSE,
         Service!TE_MODE_TELL, TE_MODE_TELL,
         Service!TE_MODE_GET_MUSICNUM, TE_MODE_GET_MUSICNUM
    <2>6. QED
      BY <2>4, <2>5
  <1>8. Service!Issue(Current')
    BY <1>3, <1>4, <1>5, <1>6, <1>7, BacklogIsQueue, BacklogIsQueueNext
       DEF Service!Issue
  <1>9. QED
    BY <1>7, <1>8 DEF Service!Next

\* A case of the switch: the oldest call is performed.
LEMMA HandlingPerforms ==
  ASSUME Inv, DataInv, Inv', Handle
  PROVE  Service!Next
  <1>1. PICK w \in Word, d \in Data \cup {NoData} :
          Handled(w, d) /\ d = (IF getCmd = TE_MODE_WRITE THEN writeWin ELSE NoData)
    <2> USE MaxWordAssumption DEF Word, Outcomes, TE_ACK_OK, TE_ACK_ERROR
    <2>1. CASE HandleRead
      BY <2>1 DEF HandleRead, TE_MODE_READ, TE_MODE_WRITE
    <2>2. CASE HandleWrite
      <3>1. writeWin \in Data \cup {NoData}
        BY DEF Inv, TypeOK
      <3>2. QED
        BY <2>2, <3>1 DEF HandleWrite, TE_MODE_WRITE
    <2>3. CASE HandleStatus
      BY <2>3 DEF HandleStatus, TE_MODE_CLOSE, TE_MODE_WRITE, TE_MODE_SEEK,
         TE_MODE_TEST_DECODE, TE_MODE_TEST_ENCODE
    <2>4. CASE HandleQuery
      BY <2>4 DEF HandleQuery, TE_MODE_TELL, TE_MODE_WRITE, TE_MODE_GET_MUSICNUM
    <2>5. QED
      BY <2>1, <2>2, <2>3, <2>4 DEF Handle
  <1>2. /\ cmPc = "handle" /\ performed' = Request(getCmd, len, d) /\ reg' = reg
        /\ dspPc' = dspPc /\ op' = op /\ opArg' = opArg /\ buf' = buf /\ ret' = ret
        /\ sent' = sent
        /\ IF Replies(getCmd) THEN cmPc' = "ack" /\ g_msgSend' = w
                              ELSE cmPc' = "getCmd"
    BY <1>1 DEF Handled, dspVars
  <1>3. Answer = <<>>
    BY <1>2, AtTheSwitch DEF Answer
  <1>4. Caller' = Caller /\ Current' = Current
    BY <1>2 DEF Caller, Current, Request
  <1>5. Backlog = Queue /\ Backlog' = Queue'
    BY BacklogIsQueue, BacklogIsQueueNext
  <1>6. fetched' \in Data \cup {NoData}
    BY DEF Inv, TypeOK
  <1>7. CASE dspPc \in {"idle", "fill", "send"} /\ getCmd = TE_MODE_CLOSE /\ len = 0
    <2>1. ClosePending /\ ~ClosePending' /\ CallPending' = CallPending
      BY <1>2, <1>7 DEF ClosePending, CallPending, Replies
    <2>2. Queue = (IF CallPending THEN <<CloseCall, Current>> ELSE <<CloseCall>>)
          /\ Queue' = (IF CallPending THEN <<Current>> ELSE <<>>)
      BY <1>4, <2>1 DEF Queue
    <2>3. Queue # <<>> /\ Head(Queue) = CloseCall /\ Queue' = Tail(Queue)
      BY <2>2, AppendOrTakeOne
    <2>4. performed' = CloseCall /\ CloseCall.cmd = TE_MODE_CLOSE
      BY <1>1, <1>2, <1>7 DEF CloseCall, Request, TE_MODE_CLOSE, TE_MODE_WRITE
    <2>5. Answer' = <<>>
      BY <1>2, <1>7, AtTheSwitch DEF Answer, Replies
    <2>6. Service!Perform(w, fetched')
      BY <1>2, <1>3, <1>4, <1>5, <2>3, <2>4, <2>5 DEF Service!Perform,
         Service!Replies, Service!TE_MODE_CLOSE, TE_MODE_CLOSE
    <2>7. QED
      BY <1>6, <2>6 DEF Service!Next, Service!Word, Word
  <1>8. CASE dspPc = "wait" /\ getCmd = op /\ op # TE_MODE_CLOSE /\ len = opArg
    <2>1. ~ClosePending /\ ~ClosePending' /\ CallPending /\ ~CallPending'
      BY <1>2, <1>8 DEF ClosePending, CallPending, Replies
    <2>2. Queue = <<Current>> /\ Queue' = <<>>
      BY <2>1 DEF Queue
    <2>3. Queue # <<>> /\ Head(Queue) = Current /\ Queue' = Tail(Queue)
      BY <2>2, AppendOrTakeOne
    <2>4. performed' = Current /\ Current.cmd = op
      BY <1>1, <1>2, <1>8 DEF Current, Request, DataInv, WriteWindowHoldsBuf
    <2>5. Answer' = << [word |-> w, data |-> fetched'] >>
      BY <1>2, <1>8 DEF Answer, Replies
    <2> HIDE DEF Current
    <2>6. Service!Perform(w, fetched')
      BY <1>2, <1>3, <1>4, <1>5, <1>8, <2>3, <2>4, <2>5 DEF Service!Perform,
         Service!Replies, Service!TE_MODE_CLOSE, TE_MODE_CLOSE
    <2>7. QED
      BY <1>6, <2>6 DEF Service!Next, Service!Word, Word
  <1>9. QED
    BY <1>2, <1>7, <1>8, AtTheSwitch

\* A word is sent: nothing to see, or closeCM33SDFileBlockingMode returns.
LEMMA SendingIsSilentOrReturns ==
  ASSUME Inv, DataInv, Inv', SendWord
  PROVE  Still \/ Service!Return
  <1>1. /\ dspPc = "send" /\ sent' = sent + 1 /\ cmPc' = cmPc /\ op' = op
        /\ opArg' = opArg /\ buf' = buf /\ performed' = performed
        /\ fetched' = fetched /\ g_msgSend' = g_msgSend /\ g_msgRecv' = g_msgRecv
        /\ sent \in {0, 1} /\ g_msgRecv = <<op, opArg>>
        /\ cmPc # "ack" /\ reg.toDsp = <<>> /\ reg.toCm33 = <<>>
    BY DEF SendWord, MU_SendMsg, cmVars, Inv, TypeOK, InStep, BetweenWords, NothingStray
  <1>2. reg'.toDsp = <<>>
    BY <1>1 DEF SendWord, MU_SendMsg, Inv, TypeOK
  <1>3. Answer = <<>> /\ Current' = Current
    BY <1>1 DEF Answer, Current, Request
  <1>4. CASE sent = 0
    <2>1. dspPc' = "send" /\ ret' = ret /\ sent' = 1
      BY <1>1, <1>4 DEF SendWord
    <2>2. Answer' = <<>>
      BY <1>1, <1>2, <2>1 DEF Answer
    <2>3. cmPc # "getArg"
      BY <1>1, <1>4, FullIsNotEmpty DEF Inv, InStep, BeforeFirstWord, Behind, AtClose
    <2>4. UNCHANGED <<Caller, ClosePending, CallPending>>
      BY <1>1, <1>4, <2>1, <2>3 DEF Caller, Request, ClosePending, CallPending, InCall
    <2>5. QED
      BY <1>1, <1>3, <2>1, <2>2, <2>4 DEF Still
  <1>5. CASE sent = 1
    <2>1. sent' = 2 /\ dspPc' = IF Replies(op) THEN "wait" ELSE "idle"
      BY <1>1, <1>5 DEF SendWord
    <2>2. Answer' = <<>>
      BY <1>1, <1>2, <2>1 DEF Answer
    <2>3. cmPc = "getArg" /\ getCmd = op
      BY <1>1, <1>5, FullIsNotEmpty DEF Inv, InStep, BetweenWords
    <2>4. ~ClosePending /\ CallPending
      BY <1>1, <1>5, <2>3 DEF ClosePending, CallPending
    <2>5. CASE Replies(op)
      <3>1. dspPc' = "wait" /\ ret' = ret
        BY <2>1, <2>5 DEF SendWord
      <3>2. UNCHANGED <<ClosePending, CallPending>>
        BY <1>1, <1>5, <2>3, <3>1 DEF ClosePending, CallPending
      <3>3. Caller' = Caller
        BY <1>1, <3>1 DEF Caller, Request, InCall
      <3>4. QED
        BY <1>1, <1>3, <2>2, <3>1, <3>2, <3>3 DEF Still
    <2>6. CASE ~Replies(op)
      <3>1. dspPc' = "idle" /\ ret' = [value |-> 0, data |-> NoData]
        BY <2>1, <2>6 DEF SendWord
      <3>2. op = TE_MODE_CLOSE /\ opArg = 0
        BY <2>6 DEF Replies, Inv, InStep, NothingStray, TakesArg
      <3>3. Current = CloseCall /\ CloseCall' = CloseCall
        BY <3>2 DEF Current, CloseCall, Request, TE_MODE_CLOSE, TE_MODE_WRITE
      <3>4. ClosePending' /\ ~CallPending'
        BY <1>1, <2>3, <3>1 DEF ClosePending, CallPending
      <3>5. Queue = <<CloseCall>> /\ Queue' = <<CloseCall>>
        BY <2>4, <3>3, <3>4 DEF Queue
      <3>6. Backlog' = Backlog /\ Len(Backlog) = 1
        BY <3>5, BacklogIsQueue, BacklogIsQueueNext, AppendOrTakeOne
      <3>7. Caller = <<CloseCall>> /\ Caller' = <<>>
        BY <1>1, <3>1, <3>3 DEF Caller, Current, InCall
      <3>8. CloseCall.cmd = TE_MODE_CLOSE
        BY DEF CloseCall, Request
      <3> HIDE DEF CloseCall
      <3>9. Caller[1] = CloseCall /\ Caller # <<>>
        BY <3>7
      <3>10. ~Service!Replies(Caller[1].cmd)
        BY <3>8, <3>9 DEF Service!Replies, Service!TE_MODE_CLOSE, TE_MODE_CLOSE
      <3>11. QED
        BY <1>1, <1>3, <2>2, <3>1, <3>6, <3>7, <3>9, <3>10 DEF Service!Return
    <2>7. QED
      BY <2>5, <2>6
  <1>6. QED
    BY <1>1, <1>4, <1>5

\* The pending answer and call when the DSP has its word
LEMMA AnswerIsIn ==
  ASSUME Inv, DataInv, dspPc = "copyOut" \/ (dspPc = "wait" /\ reg.toDsp # <<>>)
  PROVE  /\ Queue = <<>> /\ Caller = <<Current>> /\ performed = Current
         /\ cmPc = "getCmd" /\ Current.cmd = op /\ op # TE_MODE_CLOSE
  <1>1. cmPc = "getCmd" /\ op # TE_MODE_CLOSE
    BY DEF Inv, InStep, AwaitingAnswer, NothingStray, Replies, TE_MODE_READ, TE_MODE_CLOSE
  <1>2. ~ClosePending /\ ~CallPending
    BY <1>1 DEF ClosePending, CallPending
  <1>3. performed = Current
    BY <1>1 DEF DataInv, PerformedCurrent, CmLoop
  <1>4. Queue = <<>> /\ Caller = <<Current>> /\ Current.cmd = op
    BY <1>2 DEF Queue, Caller, InCall, Current, Request
  <1>5. QED
    BY <1>1, <1>3, <1>4

\* The service's view of a call that returns with word w and data d
LEMMA ReturnsAnswer ==
  ASSUME Inv, DataInv, Inv', NEW w, NEW d,
         dspPc = "copyOut" \/ (dspPc = "wait" /\ reg.toDsp # <<>>),
         Answer = << [word |-> w, data |-> d] >>, Answer' = <<>>, Caller' = <<>>,
         Queue' = <<>>, performed' = performed,
         ret' = [value |-> Returned(op, w),
                 data  |-> IF op = TE_MODE_READ /\ w = TE_ACK_OK THEN d ELSE NoData]
  PROVE  Service!Return
  <1>1. Backlog = <<>> /\ Backlog' = <<>>
    BY AnswerIsIn, BacklogIsQueue, BacklogIsQueueNext
  <1>2. Caller = <<Current>> /\ performed = Current /\ Current.cmd = op
        /\ op # TE_MODE_CLOSE
    BY AnswerIsIn
  <1>3. Caller # <<>> /\ Caller[1] = Current
    BY <1>2
  <1>4. Answer # <<>> /\ Answer[1].word = w /\ Answer[1].data = d
    OBVIOUS
  <1>5. Service!Replies(Current.cmd)
    BY <1>2 DEF Service!Replies, Service!TE_MODE_CLOSE, TE_MODE_CLOSE
  <1>6. ret' = [value |-> Service!Returned(Current.cmd, w),
                data  |-> IF Current.cmd = Service!TE_MODE_READ
                             /\ w = Service!TE_ACK_OK THEN d ELSE NoData]
    BY <1>2 DEF Service!Returned, Returned, Service!TE_MODE_READ, TE_MODE_READ,
       Service!TE_MODE_CLOSE, TE_MODE_CLOSE, Service!TE_MODE_TELL, TE_MODE_TELL,
       Service!TE_MODE_GET_MUSICNUM, TE_MODE_GET_MUSICNUM,
       Service!TE_MODE_TEST_DECODE, TE_MODE_TEST_DECODE,
       Service!TE_MODE_TEST_ENCODE, TE_MODE_TEST_ENCODE,
       Service!TE_ACK_OK, TE_ACK_OK
  <1>7. QED
    BY <1>1, <1>2, <1>3, <1>4, <1>5, <1>6 DEF Service!Return

\* An answer arrives: the call returns, unless it is an acknowledged READ.
LEMMA ReceivingIsSilentOrReturns ==
  ASSUME Inv, DataInv, Inv', ReceiveAnswer
  PROVE  Still \/ Service!Return
  <1> DEFINE w == Received("toDsp")
  <1>1. /\ dspPc = "wait" /\ reg.toDsp = <<w>> /\ reg.toDsp # <<>> /\ reg'.toDsp = <<>>
        /\ g_msgRecv'[1] = w /\ cmPc' = cmPc /\ fetched' = fetched /\ op' = op
        /\ opArg' = opArg /\ buf' = buf /\ performed' = performed
    BY DEF ReceiveAnswer, MU_ReceiveMsg, Received, cmVars, Inv, TypeOK
  <1>2. cmPc = "getCmd"
    BY <1>1, AnswerIsIn
  <1>3. Answer = << [word |-> w, data |-> fetched] >>
    BY <1>1, <1>2 DEF Answer
  <1> HIDE DEF w
  <1>4. CASE op = TE_MODE_READ /\ w = TE_ACK_OK
    <2>1. dspPc' = "copyOut" /\ ret' = ret
      BY <1>1, <1>4 DEF ReceiveAnswer
    <2>2. Answer' = Answer
      BY <1>1, <1>2, <1>3, <2>1 DEF Answer
    <2>3. UNCHANGED <<Caller, ClosePending, CallPending>>
      BY <1>1, <1>2, <2>1 DEF Caller, Request, InCall, ClosePending, CallPending
    <2>4. ~CallPending
      BY <1>1, <1>2 DEF CallPending
    <2>5. QED
      BY <1>1, <2>1, <2>2, <2>3, <2>4 DEF Still
  <1>5. CASE ~(op = TE_MODE_READ /\ w = TE_ACK_OK)
    <2>1. dspPc' = "idle" /\ ret' = [value |-> Returned(op, w), data |-> NoData]
      BY <1>1, <1>5 DEF ReceiveAnswer
    <2>2. Answer' = <<>> /\ Caller' = <<>>
      BY <1>1, <1>2, <2>1 DEF Answer, Caller, InCall
    <2>3. Queue' = <<>>
      BY <1>1, <1>2, <2>1 DEF Queue, ClosePending, CallPending
    <2>4. QED
      BY <1>1, <1>3, <1>5, <2>1, <2>2, <2>3, ReturnsAnswer
  <1>6. QED
    BY <1>4, <1>5

\* The window of an acknowledged READ is copied: the call returns.
LEMMA CopyingReturns ==
  ASSUME Inv, DataInv, Inv', CopyReadWindow
  PROVE  Service!Return
  <1>1. /\ dspPc = "copyOut" /\ dspPc' = "idle" /\ reg' = reg /\ cmPc' = cmPc
        /\ performed' = performed /\ ret' = [value |-> 0, data |-> readWin]
    BY DEF CopyReadWindow, cmVars
  <1>2. cmPc = "getCmd" /\ op = TE_MODE_READ /\ g_msgRecv[1] = TE_ACK_OK
        /\ reg.toDsp = <<>> /\ readWin = fetched
    BY <1>1 DEF Inv, InStep, NothingStray, DataInv, ReadWindowHoldsFetched
  <1>3. Answer = << [word |-> TE_ACK_OK, data |-> fetched] >>
    BY <1>1, <1>2 DEF Answer
  <1>4. Answer' = <<>> /\ Caller' = <<>> /\ Queue' = <<>>
    BY <1>1, <1>2 DEF Answer, Caller, InCall, Queue, ClosePending, CallPending
  <1>5. ret' = [value |-> Returned(op, TE_ACK_OK),
                data  |-> IF op = TE_MODE_READ /\ TE_ACK_OK = TE_ACK_OK
                          THEN fetched ELSE NoData]
    BY <1>1, <1>2 DEF Returned, TE_MODE_READ, TE_MODE_TELL, TE_MODE_CLOSE,
       TE_MODE_GET_MUSICNUM, TE_MODE_TEST_DECODE, TE_MODE_TEST_ENCODE
  <1>6. QED
    BY <1>1, <1>3, <1>4, <1>5, ReturnsAnswer

\* Together: every step of the link is one of the service, or none.
LEMMA StepsSimulate ==
  Inv /\ DataInv /\ Inv' /\ DataInv' /\ [Next]_vars => [Service!Next]_Service!vars
  <1> SUFFICES ASSUME Inv, DataInv, Inv', DataInv', [Next]_vars
               PROVE  Service!Next \/ UNCHANGED Service!vars
    OBVIOUS
  <1>1. Service!Return => Service!Next
    BY DEF Service!Next
  <1>2. CASE \/ ResetMU \/ StartDsp \/ DspIsUp \/ GetCmd \/ GetArg \/ SendAck
             \/ SetFlags \/ ClearMsgRecv \/ FillWriteWindow \/ UpdateFlags
             \/ UNCHANGED vars
    BY <1>2, SilentSteps, StillIsStutter
  <1>3. CASE Handle
    BY <1>3, HandlingPerforms
  <1>4. CASE ApiCall
    BY <1>4, EntryIssues
  <1>5. CASE SendWord
    BY <1>1, <1>5, SendingIsSilentOrReturns, StillIsStutter
  <1>6. CASE ReceiveAnswer
    BY <1>1, <1>6, ReceivingIsSilentOrReturns, StillIsStutter
  <1>7. CASE CopyReadWindow
    BY <1>1, <1>7, CopyingReturns
  <1>8. QED
    BY <1>2, <1>3, <1>4, <1>5, <1>6, <1>7 DEF Next, CmStep, DspStep

\* The link starts where the service does.
LEMMA InitSimulates == Init => Service!Init
  <1> SUFFICES ASSUME Init PROVE Service!Init
    OBVIOUS
  <1>1. Backlog = Queue
    BY InitInv, BacklogIsQueue
  <1>2. Queue = <<>> /\ Caller = <<>> /\ Answer = <<>>
    BY DEF Init, Queue, ClosePending, CallPending, Caller, InCall, Answer
  <1>3. performed = Service!NoCall /\ ret = [value |-> 0, data |-> NoData]
    BY DEF Init, Request, Service!NoCall, Service!TE_MODE_CLOSE, TE_MODE_CLOSE
  <1>4. QED
    BY <1>1, <1>2, <1>3 DEF Service!Init

\* Word by word, the two cores do what DspService says of whole calls: every
\* call is carried out once and in order, with its own argument and data, and
\* returns what the CM33 answered to it.
THEOREM LinkImplementsService == Spec => ImplementsService
  <1>1. Init => Inv /\ DataInv
    BY InitInv, InitData
  <1>2. Inv /\ DataInv /\ [Next]_vars => Inv' /\ DataInv'
    BY NextInv, NextData
  <1>3. QED
    BY <1>1, <1>2, StepsSimulate, InitSimulates, PTL
       DEF Spec, ImplementsService, Service!Spec
===============================================================================
