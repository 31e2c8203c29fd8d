---------------------------- MODULE MessagingUnit -----------------------------
(***************************************************************************)
(* The NXP messaging unit (drivers/fsl_mu.c and fsl_mu.h, the same file on *)
(* both cores) as far as the demo uses it: transmit register 0 of each     *)
(* side, which is receive register 0 of the other side, and the flag bits  *)
(* the DSP raises for the CM33.  A register holds one word: a sender spins *)
(* until it is empty, a receiver spins until it is full, and reading it    *)
(* empties it.                                                             *)
(***************************************************************************)
EXTENDS InterCpuCommands, Sequences

VARIABLES reg,      \* reg.toCm33, reg.toDsp: <<>> or <<the word in transit>>
          flags     \* flags.cr: Fn as set by the DSP; flags.sr: as the CM33
                    \* reads it; the two differ while the update is pending

BOOT_FLAG == 1

\* What the hardware may hold before the CM33 resets it: a debugger restart of
\* the CM33 leaves the unit as the previous session left it.
MUPowerOn ==
    /\ reg \in [toCm33 : {<<>>} \cup {<<w>> : w \in Word},
                toDsp  : {<<>>} \cup {<<w>> : w \in Word}]
    /\ \E f \in {0, BOOT_FLAG} : flags = [cr |-> f, sr |-> f]

\* RESET_PeripheralReset(kMU_RST_SHIFT_RSTn), then MU_Init (a clock enable)
MU_Reset ==
    /\ reg' = [toCm33 |-> <<>>, toDsp |-> <<>>]
    /\ flags' = [cr |-> 0, sr |-> 0]

MU_SendMsg(to, w) ==
    /\ reg[to] = <<>>
    /\ reg' = [reg EXCEPT ![to] = <<w>>]

\* The word MU_ReceiveMsg returns is Received(at), read in the same step.
Received(at) == reg[at][1]
MU_ReceiveMsg(at) ==
    /\ reg[at] # <<>>
    /\ reg' = [reg EXCEPT ![at] = <<>>]

\* MU_SetFlags spins while an earlier update is pending (FUP).
MU_SetFlags(f) ==
    /\ flags.cr = flags.sr
    /\ flags' = [flags EXCEPT !.cr = f]

\* The hardware carries the flags to the other side.
MU_UpdateFlags ==
    /\ flags.cr # flags.sr
    /\ flags' = [flags EXCEPT !.sr = flags.cr]
    /\ UNCHANGED reg

MU_GetFlags == flags.sr
===============================================================================
