------------------------------- MODULE MCLink -------------------------------
(* Small instances of Link: frames of the bytes that are hard to frame.    *)
EXTENDS Link

Zeros == <<0, 0, 0, 0, 0, 0, 0, 0>>
Ones  == <<1, 1, 1, 1, 1, 1, 1, 1>>
LowOnes  == <<1, 1, 1, 1, 1, 0, 0, 0>>    \* 0x1f
HighOnes == <<0, 0, 0, 1, 1, 1, 1, 1>>    \* 0xf8
Mixed == <<1, 0, 1, 1, 0, 0, 1, 0>>

MCBytes == {Zeros, Ones, LowOnes, HighOnes, Mixed, Flag}

\* No data, all frames of one or two of these bytes, and some of three, which exceed
\* a receive buffer of four bytes.
MCFrames == {<<>>} \cup {<<b>> : b \in MCBytes} \cup (MCBytes \X MCBytes)
              \cup {<<Ones, Flag, b>> : b \in {HighOnes, Zeros}}

\* The least that work, and a flag less before or behind.
MCDelays == {<<14, 7>>, <<13, 7>>, <<14, 6>>}
=============================================================================
