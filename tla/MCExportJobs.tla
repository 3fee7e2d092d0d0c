--------------------------- MODULE MCExportJobs ---------------------------
(* The instance of ExportJobs for TLC. *)
EXTENDS ExportJobs
=============================================================================
