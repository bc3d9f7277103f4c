------------------------------- MODULE Lines --------------------------------
(***************************************************************************)
(* What the console promises to its readers: characters collect in the line*)
(* being edited, where erase and kill take them back; a newline, an        *)
(* end-of-file or a full buffer hands the line over; readers take what was *)
(* handed over, in order.                                                  *)
(***************************************************************************)
EXTENDS Naturals, Sequences

CONSTANTS Chars, Size

VARIABLES line, ready

LineEnds == {"nl", "eof"}
LinesInit == line = <<>> /\ ready = <<>>

Type(c) ==
    /\ Len(line) + Len(ready) < Size
    /\ IF c \in LineEnds \/ Len(line) + Len(ready) + 1 = Size
       THEN ready' = ready \o line \o <<c>> /\ line' = <<>>
       ELSE line' = Append(line, c) /\ UNCHANGED ready

Erase == line # <<>> /\ line' = SubSeq(line, 1, Len(line) - 1) /\ UNCHANGED ready
Kill == line' = <<>> /\ UNCHANGED ready
Take == ready # <<>> /\ ready' = Tail(ready) /\ UNCHANGED line

LinesNext == (\E c \in Chars : Type(c)) \/ Erase \/ Kill \/ Take

LinesSpec == LinesInit /\ [][LinesNext]_<<line, ready>>
=============================================================================
