---------------------------- MODULE MCExportJobs ----------------------------
EXTENDS ExportJobs, TLC
=============================================================================
