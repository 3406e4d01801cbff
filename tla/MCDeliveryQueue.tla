--------------------------- MODULE MCDeliveryQueue ---------------------------
(* The delivery queue with small bounds: a capacity the thread overruns, and a
   consumer that keeps asking after the end. *)
EXTENDS DeliveryQueue
=============================================================================
