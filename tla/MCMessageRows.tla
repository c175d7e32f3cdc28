--------------------------- MODULE MCMessageRows ----------------------------
(* The rows of a session: instances for the runs of README.md. *)
EXTENDS MessageRows, TLC
CONSTANTS p, q, r, t, v, f, i, j, pEcho, qEcho, rEcho, fEcho, in1, in2, in3,
          s1, s2
MCOf == (pEcho :> p) @@ (qEcho :> q) @@ (rEcho :> r) @@ (fEcho :> f)
          @@ (in1 :> i) @@ (in2 :> i) @@ (in3 :> j)
MCOps == [m \in Touched |->
            {Reaction(s1, TRUE)} \cup
              (IF m = j THEN {Reaction(s2, TRUE), Edit("new")} ELSE {})]
MCChain == [m \in Msgs |-> IF m = j THEN 2 ELSE 1]
MCAcked == ({p} \X {"delivered", "read"}) \cup ({f} \X Receipts)
=============================================================================
