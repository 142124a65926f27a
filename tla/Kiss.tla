-------------------------------- MODULE Kiss --------------------------------
(***************************************************************************)
(* The KISS codec, src/src/kiss.cpp.  A byte is one of the four special    *)
(* values or any other number.                                             *)
(***************************************************************************)
EXTENDS Integers, Sequences, SequencesExt

FEND == 192
FESC == 219
TFEND == 220
TFESC == 221

\* The two outcomes of kiss_decode(): 1 with the data, or 0.
Decoded(data) == [ok |-> TRUE, data |-> data]
Rejected == [ok |-> FALSE, data |-> <<>>]

\* mutants: only FEND is escaped; the escape is not a byte.
EscapeFendOnly(b) == IF b = FEND THEN <<FESC, TFEND>> ELSE <<b>>
EscapeByOffset(b) == IF b \in {FEND, FESC} THEN <<FESC, b + 64>> ELSE <<b>>

Escape(b) == CASE b = FEND -> <<FESC, TFEND>>
               [] b = FESC -> <<FESC, TFESC>>
               [] OTHER -> <<b>>

\* kiss_encode(): frame type 0 (data), the data escaped, between two FENDs.
KissEncode(data) ==
    LET dst[k \in 0..Len(data)] ==
          IF k = 0 THEN <<FEND, 0>> ELSE dst[k - 1] \o Escape(data[k])
    IN Append(dst[Len(data)], FEND)

\* One round of the loop of kiss_decode().  An FESC must be followed by TFEND:
\* the branch that would look for TFESC tests the condition of the first branch
\* again and is never reached.
Unescape(st, b) ==
    CASE ~st.ok -> st
      [] st.ok /\ st.escaped ->
           IF b = TFEND THEN [st EXCEPT !.escaped = FALSE, !.data = Append(@, FEND)]
                        ELSE [st EXCEPT !.ok = FALSE]
      [] st.ok /\ ~st.escaped /\ b = FESC -> [st EXCEPT !.escaped = TRUE]
      [] OTHER -> [st EXCEPT !.data = Append(@, b)]

\* kiss_decode() of a frame with its two FENDs; the port nibble is ignored.  An
\* FESC at the very end meets the closing FEND, which is no TFEND either.
KissDecode(frame) ==
    IF Len(frame) < 3 \/ Head(frame) # FEND \/ Last(frame) # FEND
         \/ frame[2] % 16 # 0
      THEN Rejected
      ELSE LET body == SubSeq(frame, 3, Len(frame) - 1)
               st[k \in 0..Len(body)] ==
                 IF k = 0 THEN [ok |-> TRUE, escaped |-> FALSE, data |-> <<>>]
                          ELSE Unescape(st[k - 1], body[k])
               end == st[Len(body)]
           IN IF end.ok /\ ~end.escaped THEN Decoded(end.data) ELSE Rejected
=============================================================================
