---------------------------- MODULE MCJevClient ----------------------------
(***************************************************************************)
(* A small instance of JevClient for TLC.                                  *)
(***************************************************************************)
EXTENDS JevClient

CONSTANTS c1, c2

TwoCallers == {c1, c2}

\* No header (or none that counts), one beyond MaxBackoff, and, in a Duration
\* of three bits, one that wraps below zero and one that wraps to 1.
Headers == {-1, 0, 3, 5, 9}
=============================================================================
