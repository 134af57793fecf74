------------------------------ MODULE LogFeed ------------------------------
(***************************************************************************)
(* What an index is promised about the change log of its table: from the   *)
(* moment the index was created the entries of every stream reach it in    *)
(* the order of the stream.  The feed may be interrupted; what had not     *)
(* come by then and is older than Offset may be left out, and nothing else *)
(* is.  An entry may come again; a repetition changes nothing here.        *)
(***************************************************************************)
EXTENDS Integers

CONSTANTS Streams,   \* the streams of the change log
          Created,   \* the time at which the index was created
          Offset     \* how late an entry may come in spite of an interruption

VARIABLES now,       \* the time; a stream has one entry for every tick
          upto,      \* upto[s]: one more than the latest entry of s that has come
          lost       \* lost[s]: the entries of s that were left out

vars == <<now, upto, lost>>

Init ==
    /\ now = Created
    /\ upto = [s \in Streams |-> Created]
    /\ lost = [s \in Streams |-> {}]

\* Time goes on and every stream gets an entry.
Tick ==
    /\ now' = now + 1
    /\ UNCHANGED <<upto, lost>>

\* The next entry of stream s that is not left out comes.
Deliver(s) ==
    \E t \in upto[s]..(now - 1) :
        /\ t \notin lost[s] /\ upto[s]..(t - 1) \subseteq lost[s]
        /\ upto' = [upto EXCEPT ![s] = t + 1]
        /\ UNCHANGED <<now, lost>>

\* The feed is interrupted.
Interrupt ==
    /\ lost' = [s \in Streams |-> lost[s] \cup upto[s]..(now - Offset - 1)]
    /\ UNCHANGED <<now, upto>>

Next == Tick \/ Interrupt \/ \E s \in Streams : Deliver(s)

Spec == Init /\ [][Next]_vars
=============================================================================
