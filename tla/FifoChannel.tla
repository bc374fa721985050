---------------------------- MODULE FifoChannel ----------------------------
(***************************************************************************)
(* What hmf-transport promises the reader of a stream connection: records  *)
(* come out of read_record one at a time, in the order write_record put    *)
(* them in, none altered, skipped or repeated; once the reader has dropped *)
(* the connection it receives nothing more on it.  Nothing is promised     *)
(* about how far delivery gets: a connection may be dropped at any time.   *)
(*                                                                         *)
(* sent[c] is what the writer has handed to the connection, recv[c] what  *)
(* the reader has received, closed the connections the reader dropped.     *)
(***************************************************************************)
EXTENDS Naturals, Sequences

CONSTANTS
    Conns,  \* connections
    Msgs    \* records a writer may send

VARIABLES
    sent,
    recv,
    closed

chanVars == <<sent, recv, closed>>

Init ==
    /\ sent = [c \in Conns |-> << >>]
    /\ recv = [c \in Conns |-> << >>]
    /\ closed = {}

\* The writer hands one more record to connection c.
Send(c, m) ==
    /\ sent' = [sent EXCEPT ![c] = Append(@, m)]
    /\ UNCHANGED <<recv, closed>>

\* The reader of an open connection receives the oldest record it has not
\* received yet.
Receive(c) ==
    /\ c \notin closed
    /\ Len(recv[c]) < Len(sent[c])
    /\ recv' = [recv EXCEPT ![c] = Append(@, sent[c][Len(recv[c]) + 1])]
    /\ UNCHANGED <<sent, closed>>

\* The reader drops some connections (one, or all of them when it stops).
Close(cs) ==
    /\ cs # {}
    /\ closed' = closed \cup cs
    /\ UNCHANGED <<sent, recv>>

Next ==
    \/ \E c \in Conns, m \in Msgs : Send(c, m)
    \/ \E c \in Conns : Receive(c)
    \/ \E cs \in SUBSET Conns : Close(cs)

Spec == Init /\ [][Next]_chanVars
=============================================================================
