----------------------------- MODULE MCApiService -----------------------------
\* ApiService takes all its constants from the configuration.
EXTENDS ApiService
================================================================================
