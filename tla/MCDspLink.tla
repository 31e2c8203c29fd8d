------------------------------ MODULE MCDspLink -------------------------------
(***************************************************************************)
(* Bounds for DspLink: the words are the command codes themselves, so every *)
(* argument and answer could be taken for a command; two payloads show a    *)
(* mixed-up one.                                                           *)
(***************************************************************************)
EXTENDS DspLink

\* 0 is TE_MODE_READ and TE_ACK_OK, 2 is TE_MODE_CLOSE, the one command that
\* gets no answer
MCArgs == {0, 2}
===============================================================================
