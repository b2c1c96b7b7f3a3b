----------------------------- MODULE MCReaders -----------------------------
(* Games of one creator for the run of Readers.                             *)
EXTENDS Readers

CONSTANTS Ann, Bob

MCCreator == [g \in Games |-> Ann]

=============================================================================
