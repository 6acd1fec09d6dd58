---------------------- MODULE MCNetServerBackendWebrtc ----------------------
(* Small instances of the WebRTC server and its back end for TLC.           *)
EXTENDS NetServerBackendWebrtc
=============================================================================
