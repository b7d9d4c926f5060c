------------------------------ MODULE MCReceive ------------------------------
\* The lines a request may find: anything of up to MaxLength bytes, and answers
\* of one to three frames behind an echo that is whole, garbled, behind noise or
\* missing, with pauses before the answer and between its frames.
EXTENDS Receive

CONSTANTS MaxLength

WithChecksum(bytes) == Append(bytes, Checksum(bytes))

SentFrames ==
    {WithChecksum(<<Fmt, Target, 0>> \o data) : data \in UNION {[1..n -> Byte] : n \in 1..MaxData}}

Answers ==
    LET Short == {f \in SentFrames : Len(f) = 5}
    IN  {<<f>> : f \in SentFrames} \cup {<<f, g>> : f \in SentFrames, g \in Short}
        \cup {<<f, f, f>> : f \in Short}

Garbled == [Request EXCEPT ![1] = (@ + 1) % Base]
Echoes  == {<<>>, Request, Garbled, Front(Request)} \cup {<<b>> \o Request : b \in Byte}

\* Bytes without a pause between them, behind one.
After(pause, bytes) ==
    [i \in DOMAIN bytes |-> [pause |-> IF i = 1 THEN pause ELSE "none", byte |-> bytes[i]]]

Joined(answer, break) ==
    FoldLeft(LAMBDA carried, f : carried \o After(break, f), <<>>, answer)

\* Where the frames of the answer start, and where the last one ends.
Starting(first, answer) ==
    FoldLeft(LAMBDA starts, f : Append(starts, Last(starts) + Len(f)), <<first>>, answer)

\* A request that ends like a reply begins: the head of a reply may make up for the
\* end of an echo.
MCRequest == <<2, Fmt>>

MCLines ==
    {[sent |-> <<>>, starts |-> <<>>, echoes |-> FALSE, carried |-> After("none", bytes)] :
        bytes \in UNION {[1..n -> Byte] : n \in 1..MaxLength}}
    \cup
    {[sent |-> answer, starts |-> Starting(Len(echo) + 1, answer), echoes |-> TRUE,
      carried |-> After("none", echo) \o After(pause, Head(answer))
                    \o Joined(Tail(answer), break)] :
        answer \in Answers, echo \in Echoes, pause \in Pauses, break \in Pauses}
=============================================================================
