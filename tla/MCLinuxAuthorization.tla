--------------------------- MODULE MCLinuxAuthorization ---------------------------
(* Small instances of LinuxAuthorization. *)
EXTENDS LinuxAuthorization, TLC

CONSTANTS a1, a2, k1, k2, c1, c2, f1, f2

Symmetry == Permutations(Attempts) \cup Permutations(Grants) \cup Permutations(Contents)

\* An attempt that is over, and that no call waits for: what is recorded of it no
\* longer matters to any step, and no property is about it.
Over(a) == helper[a] = "gone" /\ tracked # a /\ (call # NoCall => call.attempt # a)

\* Everything but that, and epoch, which no property here is about.
View ==
    LET open == {a \in Attempts : ~Over(a)}
    IN  <<helper, alive, ready \cap open, shut \cap open, [a \in open |-> <<grantOf[a], runs[a]>>],
          tracked, call, storeVars, authVars>>
=============================================================================
