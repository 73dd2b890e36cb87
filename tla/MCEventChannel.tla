---------------------------- MODULE MCEventChannel ----------------------------
(* Small instances of EventChannel for TLC.                                *)
EXTENDS EventChannel

CONSTANTS e1, e2, e3, e4, r1, r2, h1, h2

\* e4 fills the whole queue, and does not fit the buffer of r2.
MCSizeOf == [b \in Blobs |-> IF b = e4 THEN 3 ELSE 1]
MCOutLen == [r \in Irps |-> IF r = r2 THEN 2 ELSE 3]

\* The events of one byte are interchangeable.
MCSymmetry == Permutations({e1, e2, e3})

\* One client with all the requests, or one client for each request.
MCOneFile == [r \in Irps |-> h1]
MCTwoFiles == [r \in Irps |-> IF r = r1 THEN h1 ELSE h2]

=============================================================================
