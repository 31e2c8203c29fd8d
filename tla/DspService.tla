------------------------------ MODULE DspService ------------------------------
(***************************************************************************)
(* What the link between the two cores promises the DSP program, without   *)
(* words, registers or shared windows: a call is queued when it is made,   *)
(* the CM33 performs the queued calls one at a time, in order and once, a  *)
(* call that replies returns what the CM33 answered to that very call, and *)
(* a CLOSE does not wait for an answer.                                    *)
(***************************************************************************)
EXTENDS InterCpuCommands, Sequences

CONSTANTS Data,     \* the payloads carried by READ and WRITE
          NoData    \* "no payload"

VARIABLES caller,     \* <<>>, or <<the call the DSP is inside of>>
          queue,      \* the calls not performed yet, oldest first
          answer,     \* <<>>, or <<what the CM33 answered>>
          performed,  \* the last call the CM33 performed, as it saw it
          result      \* what the last finished call returned

vars == <<caller, queue, answer, performed, result>>

Call == [cmd : Commands, arg : Word, data : Data \cup {NoData}]

NoCall == [cmd |-> TE_MODE_CLOSE, arg |-> 0, data |-> NoData]

WellFormed(c) ==
    /\ ~TakesArg(c.cmd) => c.arg = 0
    /\ (c.cmd = TE_MODE_WRITE) <=> (c.data # NoData)

Init ==
    /\ caller = <<>> /\ queue = <<>> /\ answer = <<>>
    /\ performed = NoCall
    /\ result = [value |-> 0, data |-> NoData]

Issue(c) ==
    /\ caller = <<>> /\ WellFormed(c)
    /\ caller' = <<c>>
    /\ queue' = Append(queue, c)
    /\ UNCHANGED <<answer, performed, result>>

\* The CM33 performs the oldest call. w is the word it answers; fetched is
\* the data a READ found in the file.
Perform(w, fetched) ==
    /\ queue # <<>> /\ answer = <<>>
    /\ queue' = Tail(queue)
    /\ performed' = Head(queue)
    /\ answer' = IF Replies(Head(queue).cmd)
                 THEN << [word |-> w, data |-> fetched] >> ELSE <<>>
    /\ UNCHANGED <<caller, result>>

\* A READ that was acknowledged hands over the data, every other call none. A
\* CLOSE may return before it is performed, not before every earlier call is:
\* never more than two calls are unfinished.
Return ==
    /\ caller # <<>>
    /\ LET c == caller[1] IN
       IF Replies(c.cmd)
       THEN /\ answer # <<>> /\ queue = <<>> /\ performed = c
            /\ result' =
                 [value |-> Returned(c.cmd, answer[1].word),
                  data  |-> IF c.cmd = TE_MODE_READ /\ answer[1].word = TE_ACK_OK
                            THEN answer[1].data ELSE NoData]
       ELSE /\ Len(queue) <= 1
            /\ result' = [value |-> 0, data |-> NoData]
    /\ answer' = IF Replies(caller[1].cmd) THEN <<>> ELSE answer
    /\ caller' = <<>>
    /\ UNCHANGED <<queue, performed>>

Next ==
    \/ \E c \in Call : Issue(c)
    \/ \E w \in Word, d \in Data \cup {NoData} : Perform(w, d)
    \/ Return

Spec == Init /\ [][Next]_vars
===============================================================================
