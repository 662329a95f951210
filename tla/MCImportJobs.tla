---------------------------- MODULE MCImportJobs ----------------------------
(* The import of ImportJobs on small sets of accounts, jobs and requests. *)
EXTENDS ImportJobs

=============================================================================
