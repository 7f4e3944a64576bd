-------------------------- MODULE MCTrackRetention --------------------------
(* TLC instance: one minute is one frame. *)
EXTENDS TrackRetention
=============================================================================
