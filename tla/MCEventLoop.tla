---------------------------- MODULE MCEventLoop ----------------------------
(* One client talks, sending up to two messages or a control frame; all three *)
(* connect, and may leave again unless there are two messages.                *)
EXTENDS EventLoop, TLC

CONSTANTS c1, c2, c3

Saying(s) == [c \in Conns |-> IF c = c1 THEN s ELSE <<>>]
MCUnsteady == {Saying(<<"message">>), Saying(<<"control">>)}
MCScripts == MCUnsteady \cup {Saying(<<"message", "message">>)}

Symmetry == Permutations(Workers) \cup Permutations({c2, c3})
=============================================================================
