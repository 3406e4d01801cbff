--------------------------- MODULE MCCameraService ---------------------------
(* One camera that leaves, moves and fails while clients start and stop. *)
EXTENDS CameraService
=============================================================================
