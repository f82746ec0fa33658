---------------------------- MODULE MCCachingProxy ----------------------------
(***************************************************************************)
(* Small instances of CachingProxy: one fast group, one slow group of one  *)
(* register each, and one register that no group polls.                    *)
(***************************************************************************)
EXTENDS CachingProxy

CONSTANTS c1, c2, fast, slow, unpolled

OneConn  == {c1}
TwoConns == {c1, c2}

PolledRegs == {fast, slow}
AllRegs    == PolledRegs \cup {unpolled}
FastReads  == <<{fast}>>
SlowReads  == <<{slow}>>

\* A client asks for what two groups read, or for what none does.
FewRanges   == {{fast, slow}, {unpolled}}
PolledRange == {{fast, slow}}

===============================================================================
