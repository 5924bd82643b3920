---------------------------- MODULE MCValueFetcher ----------------------------
(***************************************************************************)
(* ValueFetcher for TLC.  A block has as many inputs as the channels and   *)
(* a batch of one outpoint can hold; one more and both threads may wait    *)
(* for each other.                                                         *)
(***************************************************************************)
EXTENDS ValueFetcher

ASSUME BlocksFit == MaxInputs <= 2 * ChannelBufferSize + 1

=============================================================================
