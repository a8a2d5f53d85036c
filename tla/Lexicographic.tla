--------------------------- MODULE Lexicographic ---------------------------
(***************************************************************************)
(* The order in which the variants of the loops decrease.                  *)
(***************************************************************************)
EXTENDS Integers

\* s comes before t: it is smaller, and not negative, where they first differ.
\* Nothing goes down in this order for ever.
Below(s, t) ==
    \E i \in DOMAIN t : s[i] \in 0 .. t[i] - 1 /\ \A j \in 1 .. i - 1 : s[j] = t[j]
=============================================================================
