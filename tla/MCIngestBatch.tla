----------------------------- MODULE MCIngestBatch -----------------------------
EXTENDS IngestBatch, TLC
================================================================================
