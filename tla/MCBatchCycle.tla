---------------------------- MODULE MCBatchCycle ----------------------------
(* Instances of BatchCycle for TLC, of one or two batches.                 *)
EXTENDS BatchCycle

\* Two batches back to back, as assignGroupsToBatches creates them.
MCBackToBackStart == <<1, 3>>
MCBackToBackEnd == <<3, 5>>

\* A short batch and one that is longer than its rounds, as made by hand.
MCUnevenStart == <<0, 1>>
MCUnevenEnd == <<1, 4>>

\* As MCUneven, for one round.
MCShortStart == <<0, 1>>
MCShortEnd == <<1, 3>>

\* One batch of three rounds.
MCSingleStart == <<1>>
MCSingleEnd == <<4>>
=============================================================================
