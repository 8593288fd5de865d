--------------------------- MODULE MCConnManager ---------------------------
(***************************************************************************)
(* Instances of ConnManager for TLC.                                       *)
(***************************************************************************)
EXTENDS ConnManager, TLC

CONSTANTS c1, c2, c3, u1, u2, u3, chA, chB

\* A user each.
OwnUser == [c \in Client |-> [ch \in Channel |-> {IF c = c1 THEN u1 ELSE IF c = c2 THEN u2 ELSE u3}]]

\* The first two connections are the same user's.
SharedUser == [c \in Client |-> [ch \in Channel |-> {IF c \in {c1, c2} THEN u1 ELSE u2}]]

\* Another account on each channel: what is u1's connection on one is u2's on the other.
CrossedAccounts ==
  [c \in Client |-> [ch \in Channel |-> {IF (c = c1) = (ch = chA) THEN u1 ELSE u2}]]

=============================================================================
