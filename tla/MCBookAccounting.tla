-------------------------- MODULE MCBookAccounting --------------------------
(***************************************************************************)
(* An instance of BookAccounting for TLC.                                  *)
(***************************************************************************)
EXTENDS BookAccounting

\* Either symbol may double or fall by half, and one may have no bar.
Days == {<<1, 2>>, <<2, 1>>, <<2, 2>>, <<NoBar, 1>>}

NoClaims == {}

TwoTo24 == 16777216
=============================================================================
