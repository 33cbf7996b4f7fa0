------------------------------ MODULE MC_Logger ------------------------------
(* A two-slot ring with counters modulo 4 and four log() calls: the ring   *)
(* fills and drops an entry, its counters wrap once four entries have gone *)
(* through, and two flushes can follow one another.                        *)
EXTENDS Logger

MCQueueCapacity == 2
MCUsizeModulus == 4
MCMaxLogs == 4
=============================================================================
