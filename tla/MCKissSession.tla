--------------------------- MODULE MCKissSession ---------------------------
(* Small instances of KissSession: which data the frames carry.            *)
EXTENDS KissSession

\* Data that no special byte, a FEND, transposed bytes or an FESC occur in.
MCPayloads == {<<1>>, <<FEND>>, <<TFEND, TFESC>>, <<1, FEND, 2>>, <<1, FESC>>}

\* The same, and a frame without data.
MCFrames == MCPayloads \cup {<<>>}

MCNoise == {<<>>, <<7>>}

\* All packets of one or two of the special bytes and one other.
MCBytes == {1, FEND, FESC, TFEND, TFESC}
MCPackets == {<<b>> : b \in MCBytes} \cup (MCBytes \X MCBytes)

NoPackets == {}
=============================================================================
