------------------------------- MODULE EventLog -------------------------------
(***************************************************************************)
(* What a reader of an agent's event stream is promised: events are        *)
(* logged in arrival order, only the newest Window of them can be read,    *)
(* and an answer is a run of consecutive events that ends with the newest  *)
(* one.  Nothing is said of how the stream forgets.                        *)
(***************************************************************************)
EXTENDS Integers, Sequences

CONSTANTS
    Event,   \* the events that may be logged
    Window   \* how many events a reader can look back

VARIABLES
    log,     \* every event ever appended, in order
    answer   \* the answer to the last read

LogInit == log = <<>> /\ answer = <<>>

LogAppend ==
    /\ \E e \in Event : log' = Append(log, e)
    /\ UNCHANGED answer

\* A reader gets the newest n events, for some n within the window.
LogRead ==
    /\ \E n \in 0..Window :
          /\ n <= Len(log)
          /\ answer' = SubSeq(log, Len(log) - n + 1, Len(log))
    /\ UNCHANGED log

LogNext == LogAppend \/ LogRead

LogSpec == LogInit /\ [][LogNext]_<<log, answer>>
=============================================================================
