--------------------------- MODULE RunStatusChanged ---------------------------
(***************************************************************************)
(* The topic run-status-changed (run.event-publisher.ts), which RunService *)
(* writes and EventToHttpConverter reads. An event is known by its run.    *)
(***************************************************************************)
VARIABLE topic   \* the records of the topic
=============================================================================
