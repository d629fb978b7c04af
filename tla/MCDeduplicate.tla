---------------------------- MODULE MCDeduplicate ----------------------------
(* Deduplicate on all lists up to MaxLen nodes.                            *)
EXTENDS Deduplicate, SequencesExt

CONSTANT MaxLen

MCLists == SeqOf(Node, MaxLen)
=============================================================================
