------------------------------- MODULE DspLink --------------------------------
(***************************************************************************)
(* The link between the two cores, word by word: the DSP's blocking API    *)
(* (dsp/xtensa/source/inter_cpu_communication.c) called by a client that   *)
(* makes any calls in any order, and the CM33's boot of the DSP and its    *)
(* command loop (start_dsp and getMUMsg_DealCMD in                         *)
(* cm33/FLAC_demo/source/inter_cpu_communication.c).                       *)
(*                                                                         *)
(* Commands and arguments are both plain words, so a core that reads one   *)
(* for the other is not stopped by the model.  The FIL objects fin and     *)
(* fout of the command loop are locals that nothing opens: what f_read,    *)
(* f_write, f_lseek and f_tell make of them is any outcome.                *)
(***************************************************************************)
EXTENDS MessagingUnit

CONSTANTS Args,     \* the arguments the client passes
          Data,     \* the payloads it writes, the payloads files hold
          NoData

ASSUME ArgsAssumption == Args \subseteq Word

ASSUME NoDataAssumption == NoData \notin Data

VARIABLES
    cmPc,       \* where the CM33 is
    getCmd,     \* local of getMUMsg_DealCMD
    len,        \* local of getMUMsg_DealCMD (len, or index)
    g_msgSend,  \* the CM33's word to answer
    fetched,    \* the CM33's buffer: what the last f_read left in it
    dspPc,      \* where the DSP is
    op,         \* the API function the DSP is inside of, and
    opArg,      \*   its argument
    g_msgRecv,  \* the DSP's message array, words 0 and 1
    sent,       \* i of the send loop
    buf,        \* the data the caller of WRITE passes
    ret,        \* what the last API function returned, the data READ copied out
    writeWin,   \* shared window CM33READ_DSPWRITE_ADDR
    readWin,    \* shared window CM33WRITE_DSPREAD_ADDR
    performed   \* the request the CM33 last carried out, as it read it

cmVars  == <<cmPc, getCmd, len, g_msgSend, fetched>>
dspVars == <<dspPc, op, opArg, g_msgRecv, sent, buf, ret>>
vars == <<reg, flags, cmVars, dspVars, writeWin, readWin, performed>>

CmBoot   == {"reset", "startDsp", "waitBoot"}
CmLoop   == {"getCmd", "getArg", "handle", "ack"}
DspBoot  == {"off", "setFlags", "clear"}
InCall   == {"fill", "send", "wait", "copyOut"}

Request(cmd, arg, data) == [cmd |-> cmd, arg |-> arg, data |-> data]

Init ==
    /\ MUPowerOn
    /\ cmPc = "reset" /\ getCmd = 0 /\ len = 0 /\ g_msgSend = 0
    /\ fetched = NoData
    /\ dspPc = "off" /\ op = TE_MODE_CLOSE /\ opArg = 0
    /\ g_msgRecv = <<0, 0>> /\ sent = 0 /\ buf = NoData
    /\ ret = [value |-> 0, data |-> NoData]
    /\ writeWin = NoData /\ readWin = NoData
    /\ performed = Request(TE_MODE_CLOSE, 0, NoData)

-------------------------------------------------------------------------------
(* CM33: start_dsp *)

\* Mutant: the unit keeps the words of the previous session.
ResetMUKeepsWords ==
    /\ cmPc = "reset" /\ cmPc' = "startDsp"
    /\ flags' = [cr |-> 0, sr |-> 0]
    /\ UNCHANGED <<reg, getCmd, len, g_msgSend, fetched, dspVars,
                   writeWin, readWin, performed>>

ResetMU ==
    /\ cmPc = "reset" /\ cmPc' = "startDsp"
    /\ MU_Reset
    /\ UNCHANGED <<getCmd, len, g_msgSend, fetched, dspVars,
                   writeWin, readWin, performed>>

\* BOARD_DSP_Init: copy the image and let the DSP run
StartDsp ==
    /\ cmPc = "startDsp" /\ cmPc' = "waitBoot"
    /\ dspPc' = "setFlags"
    /\ UNCHANGED <<reg, flags, getCmd, len, g_msgSend, fetched,
                   op, opArg, g_msgRecv, sent, buf, ret,
                   writeWin, readWin, performed>>

DspIsUp ==
    /\ cmPc = "waitBoot" /\ MU_GetFlags = BOOT_FLAG
    /\ cmPc' = "getCmd"
    /\ UNCHANGED <<reg, flags, getCmd, len, g_msgSend, fetched, dspVars,
                   writeWin, readWin, performed>>

-------------------------------------------------------------------------------
(* CM33: getMUMsg_DealCMD *)

\* Mutant: TELL goes to its case without taking the word of its unused argument.
GetCmdTellKeepsArg ==
    /\ cmPc = "getCmd" /\ MU_ReceiveMsg("toCm33")
    /\ getCmd' = Received("toCm33")
    /\ cmPc' = CASE getCmd' = TE_MODE_TELL -> "handle"
                 [] getCmd' \in Commands \ {TE_MODE_TELL} -> "getArg"
                 [] OTHER -> "getCmd"
    /\ UNCHANGED <<flags, len, g_msgSend, fetched, dspVars,
                   writeWin, readWin, performed>>

\* A word that is no command is reported and dropped; no argument is read.
GetCmd ==
    /\ cmPc = "getCmd" /\ MU_ReceiveMsg("toCm33")
    /\ getCmd' = Received("toCm33")
    /\ cmPc' = IF getCmd' \in Commands THEN "getArg" ELSE "getCmd"
    /\ UNCHANGED <<flags, len, g_msgSend, fetched, dspVars,
                   writeWin, readWin, performed>>

GetArg ==
    /\ cmPc = "getArg" /\ MU_ReceiveMsg("toCm33")
    /\ len' = Received("toCm33")
    /\ cmPc' = "handle"
    /\ UNCHANGED <<flags, getCmd, g_msgSend, fetched, dspVars,
                   writeWin, readWin, performed>>

\* Mutant: CLOSE is acknowledged like the other commands.
HandledAcksClose(word, data) ==
    /\ cmPc = "handle"
    /\ performed' = Request(getCmd, len, data)
    /\ cmPc' = "ack" /\ g_msgSend' = word
    /\ UNCHANGED <<reg, flags, getCmd, len, dspVars, writeWin>>

\* The case of the switch after its argument is read, up to where it is ready
\* to answer (CLOSE: back to the top of the loop).
Handled(word, data) ==
    /\ cmPc = "handle"
    /\ performed' = Request(getCmd, len, data)
    /\ IF Replies(getCmd)
       THEN cmPc' = "ack" /\ g_msgSend' = word
       ELSE cmPc' = "getCmd" /\ UNCHANGED g_msgSend
    /\ UNCHANGED <<reg, flags, getCmd, len, dspVars, writeWin>>

Outcomes == {TE_ACK_OK, TE_ACK_ERROR}

\* Mutant: the copy into the shared window is left out.
HandleReadNoCopy ==
    /\ getCmd = TE_MODE_READ
    /\ \E res \in Outcomes, d \in Data :
          /\ fetched' = IF res = TE_ACK_OK THEN d ELSE fetched
          /\ Handled(res, NoData)
    /\ UNCHANGED readWin

\* readSDdataCopyToSram: on an f_read error the window is left alone
HandleRead ==
    /\ getCmd = TE_MODE_READ
    /\ \E res \in Outcomes, d \in Data :
          /\ fetched' = IF res = TE_ACK_OK THEN d ELSE fetched
          /\ readWin' = IF res = TE_ACK_OK THEN fetched' ELSE readWin
          /\ Handled(res, NoData)

\* readSramdataWriteToSD
HandleWrite ==
    /\ getCmd = TE_MODE_WRITE
    /\ \E res \in Outcomes : Handled(res, writeWin)
    /\ UNCHANGED <<fetched, readWin>>

\* f_close of both files, f_lseek, the preparation of a file for the decoder
\* (which reports success whatever happened) and for the encoder
HandleStatus ==
    /\ \/ getCmd \in {TE_MODE_CLOSE, TE_MODE_TEST_DECODE}
          /\ Handled(TE_ACK_OK, NoData)
       \/ getCmd \in {TE_MODE_SEEK, TE_MODE_TEST_ENCODE}
          /\ \E res \in Outcomes : Handled(res, NoData)
    /\ UNCHANGED <<fetched, readWin>>

\* f_tell(&fout), TEST_MUSIC_NUMS
HandleQuery ==
    /\ \/ getCmd = TE_MODE_TELL /\ \E pos \in Word : Handled(pos, NoData)
       \/ getCmd = TE_MODE_GET_MUSICNUM /\ Handled(1, NoData)
    /\ UNCHANGED <<fetched, readWin>>

Handle == HandleRead \/ HandleWrite \/ HandleStatus \/ HandleQuery

\* sendAckResult, or the MU_SendMsg of TELL and GET_MUSICNUM
SendAck ==
    /\ cmPc = "ack" /\ MU_SendMsg("toDsp", g_msgSend)
    /\ cmPc' = "getCmd"
    /\ UNCHANGED <<flags, getCmd, len, g_msgSend, fetched, dspVars,
                   writeWin, readWin, performed>>

-------------------------------------------------------------------------------
(* DSP: main up to its first call, and the API functions *)

\* Mutant: the two headers, which define BOOT_FLAG each, disagree.
SetFlagsOtherBit ==
    /\ dspPc = "setFlags" /\ MU_SetFlags(2 * BOOT_FLAG)
    /\ dspPc' = "clear"
    /\ UNCHANGED <<reg, cmVars, op, opArg, g_msgRecv, sent, buf, ret,
                   writeWin, readWin, performed>>

SetFlags ==
    /\ dspPc = "setFlags" /\ MU_SetFlags(BOOT_FLAG)
    /\ dspPc' = "clear"
    /\ UNCHANGED <<reg, cmVars, op, opArg, g_msgRecv, sent, buf, ret,
                   writeWin, readWin, performed>>

ClearMsgRecv ==
    /\ dspPc = "clear" /\ dspPc' = "idle"
    /\ g_msgRecv' = <<0, 0>>
    /\ UNCHANGED <<reg, flags, cmVars, op, opArg, sent, buf, ret,
                   writeWin, readWin, performed>>

\* Entry of an API function: the message array is filled, except by
\* SendDataToCm33SDCardBlockingMode, which copies its data first.
Enter(cmd, arg) ==
    /\ dspPc = "idle"
    /\ op' = cmd /\ opArg' = arg /\ sent' = 0
    /\ IF cmd = TE_MODE_WRITE
       THEN /\ dspPc' = "fill" /\ UNCHANGED g_msgRecv
            /\ buf' \in Data
       ELSE /\ dspPc' = "send" /\ g_msgRecv' = <<cmd, arg>>
            /\ buf' = NoData
    /\ UNCHANGED <<reg, flags, cmVars, ret, writeWin, readWin, performed>>

ApiCall ==
    \E cmd \in Commands :
        \E arg \in IF TakesArg(cmd) THEN Args ELSE {0} : Enter(cmd, arg)

FillWriteWindow ==
    /\ dspPc = "fill" /\ dspPc' = "send"
    /\ writeWin' = buf
    /\ g_msgRecv' = <<op, opArg>>
    /\ UNCHANGED <<reg, flags, cmVars, op, opArg, sent, buf, ret,
                   readWin, performed>>

\* Mutant: WRITE does not wait for its acknowledgement.
SendWordNoWait ==
    /\ dspPc = "send" /\ MU_SendMsg("toCm33", g_msgRecv[sent + 1])
    /\ sent' = sent + 1
    /\ dspPc' = IF sent' < 2 THEN "send"
                ELSE IF Replies(op) /\ op # TE_MODE_WRITE THEN "wait" ELSE "idle"
    /\ ret' = IF dspPc' = "idle" THEN [value |-> 0, data |-> NoData] ELSE ret
    /\ UNCHANGED <<flags, cmVars, op, opArg, g_msgRecv, buf,
                   writeWin, readWin, performed>>

\* One turn of the send loop. closeCM33SDFileBlockingMode returns after the
\* second word, the other functions go on to wait for a word.
SendWord ==
    /\ dspPc = "send" /\ MU_SendMsg("toCm33", g_msgRecv[sent + 1])
    /\ sent' = sent + 1
    /\ dspPc' = IF sent' < 2 THEN "send"
                ELSE IF Replies(op) THEN "wait" ELSE "idle"
    /\ ret' = IF dspPc' = "idle" THEN [value |-> 0, data |-> NoData] ELSE ret
    /\ UNCHANGED <<flags, cmVars, op, opArg, g_msgRecv, buf,
                   writeWin, readWin, performed>>

\* The word comes back into g_msgRecv[0]; an acknowledged READ still has to
\* copy the window, every other function returns.
ReceiveAnswer ==
    /\ dspPc = "wait" /\ MU_ReceiveMsg("toDsp")
    /\ g_msgRecv' = [g_msgRecv EXCEPT ![1] = Received("toDsp")]
    /\ IF op = TE_MODE_READ /\ g_msgRecv'[1] = TE_ACK_OK
       THEN dspPc' = "copyOut" /\ UNCHANGED ret
       ELSE /\ dspPc' = "idle"
            /\ ret' = [value |-> Returned(op, g_msgRecv'[1]), data |-> NoData]
    /\ UNCHANGED <<flags, cmVars, op, opArg, sent, buf,
                   writeWin, readWin, performed>>

CopyReadWindow ==
    /\ dspPc = "copyOut" /\ dspPc' = "idle"
    /\ ret' = [value |-> 0, data |-> readWin]
    /\ UNCHANGED <<reg, flags, cmVars, op, opArg, g_msgRecv, sent, buf,
                   writeWin, readWin, performed>>

-------------------------------------------------------------------------------

UpdateFlags == MU_UpdateFlags /\ UNCHANGED <<cmVars, dspVars,
                                             writeWin, readWin, performed>>

CmStep == ResetMU \/ StartDsp \/ DspIsUp \/ GetCmd \/ GetArg \/ Handle \/ SendAck

\* The DSP inside an API function or on its way to the first one
DspStep == SetFlags \/ ClearMsgRecv \/ FillWriteWindow \/ SendWord
           \/ ReceiveAnswer \/ CopyReadWindow

Next == CmStep \/ DspStep \/ ApiCall \/ UpdateFlags

\* Each core runs whenever it is not spinning on a register, and the unit
\* delivers flags.  Whether the client makes another call is its own choice.
Fairness == WF_vars(CmStep) /\ WF_vars(DspStep) /\ WF_vars(UpdateFlags)

Spec == Init /\ [][Next]_vars /\ Fairness

-------------------------------------------------------------------------------
(* Properties *)

TypeOK ==
    /\ reg \in [toCm33 : {<<>>} \cup {<<w>> : w \in Word},
                toDsp  : {<<>>} \cup {<<w>> : w \in Word}]
    /\ flags \in [cr : {0, BOOT_FLAG}, sr : {0, BOOT_FLAG}]
    /\ cmPc \in CmBoot \cup CmLoop
    /\ getCmd \in Word /\ len \in Word /\ g_msgSend \in Word
    /\ fetched \in Data \cup {NoData}
    /\ dspPc \in DspBoot \cup {"idle"} \cup InCall
    /\ op \in Commands /\ opArg \in Word
    /\ g_msgRecv \in Word \X Word /\ sent \in 0..2
    /\ buf \in Data \cup {NoData} 
    /\ ret \in [value : Word, data : Data \cup {NoData}]
    /\ writeWin \in Data \cup {NoData} /\ readWin \in Data \cup {NoData}
    /\ performed \in [cmd : Word, arg : Word, data : Data \cup {NoData}]

\* The boot: the CM33 resets the unit before the DSP runs, and takes no word
\* before the DSP has raised its flag.
BootOrder ==
    /\ cmPc \in {"reset", "startDsp"} <=> dspPc = "off"
    /\ cmPc = "startDsp" \/ dspPc = "setFlags" => flags = [cr |-> 0, sr |-> 0]
    /\ dspPc \in DspBoot /\ cmPc # "reset" =>
           /\ reg.toCm33 = <<>> /\ reg.toDsp = <<>>
           /\ cmPc \in CmBoot \cup {"getCmd"}

\* Nothing of the last call is left, unless it was a CLOSE the CM33 still has
\* to finish.
Behind == cmPc \in {"waitBoot", "getCmd"} /\ reg.toCm33 = <<>>
AtClose == \/ cmPc = "getArg" /\ getCmd = TE_MODE_CLOSE /\ reg.toCm33 = <<0>>
           \/ cmPc = "handle" /\ getCmd = TE_MODE_CLOSE /\ len = 0
                              /\ reg.toCm33 = <<>>
BeforeFirstWord ==
    /\ dspPc \in {"idle", "fill"} \/ (dspPc = "send" /\ sent = 0) => Behind \/ AtClose
    /\ dspPc = "fill" => sent = 0

\* The command word is under way or just read.
BetweenWords ==
    dspPc = "send" =>
        /\ sent < 2 /\ g_msgRecv = <<op, opArg>>
        /\ sent = 1 =>
              \/ cmPc \in {"waitBoot", "getCmd"} /\ reg.toCm33 = <<op>>
              \/ cmPc = "getArg" /\ getCmd = op /\ reg.toCm33 = <<>>
              \/ cmPc = "handle" /\ getCmd = TE_MODE_CLOSE /\ len = 0
                                 /\ reg.toCm33 = <<op>>

\* The argument is under way, the CM33 is at the call, or the answer is under
\* way.
AwaitingAnswer ==
    dspPc = "wait" =>
        /\ Replies(op)
        /\ \/ cmPc = "getArg" /\ getCmd = op /\ reg.toCm33 = <<opArg>>
                             /\ reg.toDsp = <<>>
           \/ cmPc \in {"handle", "ack"} /\ getCmd = op /\ len = opArg
                     /\ reg.toCm33 = <<>> /\ reg.toDsp = <<>>
           \/ cmPc = "getCmd" /\ reg.toCm33 = <<>> /\ reg.toDsp # <<>>

NothingStray ==
    /\ dspPc \notin {"off", "wait"} => reg.toDsp = <<>> /\ cmPc # "ack"
    /\ dspPc = "copyOut" => /\ op = TE_MODE_READ /\ g_msgRecv[1] = TE_ACK_OK
                            /\ cmPc = "getCmd" /\ reg.toCm33 = <<>>
    /\ ~TakesArg(op) => opArg = 0

\* Where the two cores can be relative to each other at each point of a call:
\* the words of one call never meet those of another, no core takes an argument
\* for a command, and no answer waits for nobody.
InStep == /\ BootOrder /\ BeforeFirstWord /\ BetweenWords
          /\ AwaitingAnswer /\ NothingStray

\* An answer under way or just arrived belongs to the call the DSP is in: the
\* CM33 produced it by carrying out that command with that argument.
AnswerIsForCaller ==
    cmPc \in CmLoop /\ (reg.toDsp # <<>> \/ cmPc = "ack" \/ dspPc = "copyOut") =>
        /\ dspPc \in {"wait", "copyOut"}
        /\ performed.cmd = op /\ performed.arg = opArg

\* The windows have no lock. The DSP copies into its window, or out of the
\* CM33's, only while the CM33 is not using that window.
WindowExclusion ==
    /\ ~(dspPc = "fill" /\ cmPc = "handle" /\ getCmd = TE_MODE_WRITE)
    /\ ~(dspPc = "copyOut" /\ cmPc = "handle" /\ getCmd = TE_MODE_READ)

-------------------------------------------------------------------------------
(* The link implements DspService *)

\* The words of all calls not carried out yet, in order: read by the CM33, in
\* the register, still to be sent.
WordsRead == CASE cmPc = "getArg" -> <<getCmd>>
               [] cmPc = "handle" -> <<getCmd, len>>
               [] OTHER -> <<>>
WordsToSend == CASE dspPc = "fill" -> <<op, opArg>>
                 [] dspPc = "send" -> SubSeq(g_msgRecv, sent + 1, 2)
                 [] OTHER -> <<>>
Words == WordsRead \o (IF cmPc = "reset" THEN <<>> ELSE reg.toCm33) \o WordsToSend

\* Two words make a call; only the call in progress carries data.
Backlog ==
    [i \in 1..(Len(Words) \div 2) |->
        Request(Words[2 * i - 1], Words[2 * i],
                IF Words[2 * i - 1] = TE_MODE_WRITE THEN buf ELSE NoData)]

Answer ==
    IF cmPc = "ack" THEN << [word |-> g_msgSend, data |-> fetched] >>
    ELSE IF dspPc = "copyOut" THEN << [word |-> g_msgRecv[1], data |-> fetched] >>
    ELSE IF cmPc # "reset" /\ reg.toDsp # <<>>
         THEN << [word |-> Received("toDsp"), data |-> fetched] >>
    ELSE <<>>

Caller == IF dspPc \in InCall
          THEN << Request(op, opArg, IF op = TE_MODE_WRITE THEN buf ELSE NoData) >>
          ELSE <<>>

Service == INSTANCE DspService
    WITH caller <- Caller, queue <- Backlog, answer <- Answer, result <- ret

\* Word by word, the two cores do what DspService says of whole calls: every
\* call is carried out once and in order with its own argument and data, and
\* returns what the CM33 answered to it.
ImplementsService == Service!Spec

\* Neither core waits for the other for ever: every API function returns, the
\* first one too, which the DSP may enter before the CM33 has seen it boot.
CallReturns == (dspPc \in InCall) ~> (dspPc = "idle")
===============================================================================
