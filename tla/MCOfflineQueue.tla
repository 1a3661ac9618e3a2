--------------------------- MODULE MCOfflineQueue ---------------------------
(* The offline queue of OfflineQueue with the bounds of each .cfg.          *)
EXTENDS OfflineQueue
=============================================================================
