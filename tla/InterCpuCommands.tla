--------------------------- MODULE InterCpuCommands ---------------------------
(***************************************************************************)
(* The vocabulary both cores share (inter_cpu_communication.h, the same    *)
(* enumerators in the same order on the two cores): the command word, the  *)
(* acknowledge word, and which commands the CM33 answers.                  *)
(***************************************************************************)
EXTENDS Naturals

CONSTANT MaxWord    \* 2^32 - 1 in the hardware

ASSUME MaxWordAssumption == MaxWord \in Nat /\ MaxWord >= 7

Word == 0..MaxWord

\* enum transfermode / TE_MU_CMD
TE_MODE_READ         == 0
TE_MODE_WRITE        == 1
TE_MODE_CLOSE        == 2
TE_MODE_SEEK         == 3
TE_MODE_TELL         == 4
TE_MODE_TEST_DECODE  == 5
TE_MODE_TEST_ENCODE  == 6
TE_MODE_GET_MUSICNUM == 7

Commands == 0..7

\* enum acktype
TE_ACK_OK    == 0
TE_ACK_ERROR == 1

\* Every handler of getMUMsg_DealCMD ends in one MU_SendMsg, except the one of
\* TE_MODE_CLOSE; the DSP's functions wait for a word accordingly.
Replies(cmd) == cmd # TE_MODE_CLOSE

\* What the API function of cmd returns when the CM33 answered w: the value
\* itself (tell, getMusicFileNums), the word narrowed to uint8_t (the two
\* CM33Init... functions), or 0 / 1 for "acknowledged" / "not acknowledged".
Returned(cmd, w) ==
    IF cmd \in {TE_MODE_TELL, TE_MODE_GET_MUSICNUM} THEN w
    ELSE IF cmd \in {TE_MODE_TEST_DECODE, TE_MODE_TEST_ENCODE} THEN w % 256
    ELSE IF cmd = TE_MODE_CLOSE \/ w = TE_ACK_OK THEN 0 ELSE 1

\* An argument word means something only to these commands; the others are
\* sent with 0 and the CM33 drops the word.
TakesArg(cmd) ==
    cmd \notin {TE_MODE_CLOSE, TE_MODE_TELL, TE_MODE_GET_MUSICNUM}
===============================================================================
