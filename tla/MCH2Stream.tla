----------------------------- MODULE MCH2Stream -----------------------------
(* H2Stream with one lane, on which a thread makes a call that waits for its    *)
(* answer, a fire-and-forget call, and exits.  The server's window is a single  *)
(* unit, the client's is never used up.                                         *)
EXTENDS H2Stream

CONSTANT a

MCScript == (a :> <<"sync", "async">>)
MCSize == [client |-> 2, server |-> 2]
MCWindow == [client |-> 100, server |-> 1]

=============================================================================
