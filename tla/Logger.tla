-------------------------------- MODULE Logger --------------------------------
(***************************************************************************)
(* The asynchronous logger (common/src/logging.rs): one client thread      *)
(* calls log, flush and finally drops the Logger; the writer thread runs   *)
(* writer_loop.  They share the LFQueue of entries and the atomic flags    *)
(* running, flush_requested and flush_complete.  Each atomic load or store *)
(* is one step.  The queue is the ring of LFQueue.tla itself: log() runs   *)
(* its push (load, slot write, tail publish) and the writer its pop (load, *)
(* slot read, head release), so the ring's own properties are checked in   *)
(* the one place the code uses it.                                         *)
(*                                                                         *)
(* Entries are numbered 1..MaxLogs in the order log() is called; pushed    *)
(* records the accepted ones, written what write_entry has written, and    *)
(* flush_mark how many entries had been accepted when flush() was called.  *)
(***************************************************************************)
EXTENDS Naturals, Sequences

CONSTANTS
    QueueCapacity,   \* LFQueue<LogEntry, 4096>
    UsizeModulus,    \* 2^64 for the ring's counters, smaller here
    MaxLogs          \* bound on log() calls (model bound)

VARIABLES
    buffer, tail, head, ppc, p_tail, p_item, pop_pc, c_head, c_item, popped,
    running, flush_requested, flush_complete,
    cpc,             \* client program point
    wpc,             \* writer program point
    next_entry,      \* the number the next log() entry gets
    pushed,          \* entries the queue accepted, in order
    written,         \* entries written to stderr, in order
    flush_mark       \* Len(pushed) when the current flush() began

Entries == 1..MaxLogs

\* The shared queue; its consumer program point is the writer's pop_pc.
Ring == INSTANCE LFQueue WITH Values <- Entries, NoItem <- 0, Capacity <- QueueCapacity,
                              cpc <- pop_pc

ringVars == <<buffer, tail, head, ppc, p_tail, p_item, pop_pc, c_head, c_item, popped>>
loggerVars == <<running, flush_requested, flush_complete, cpc, wpc, next_entry, pushed,
                written, flush_mark>>
vars == <<ringVars, loggerVars>>

Init ==
    /\ Ring!Init
    /\ running = TRUE
    /\ flush_requested = FALSE
    /\ flush_complete = FALSE
    /\ cpc = "idle"
    /\ wpc = "loop"
    /\ next_entry = 1
    /\ pushed = <<>>
    /\ written = <<>>
    /\ flush_mark = 0

(***************************************************************************)
(* Client thread.  It is between calls when cpc = "idle" and its push has *)
(* returned (ppc = "idle").                                                *)
(***************************************************************************)
ClientIdle == cpc = "idle" /\ ppc = "idle"

\* log(level, msg) and the log_with_* variants: queue.push(entry), whose
\* result is ignored, so the entry is dropped when the push loads a full
\* ring.  A call below min_level returns first and changes nothing.
Log ==
    /\ ClientIdle /\ next_entry <= MaxLogs
    /\ Ring!PushLoad(next_entry)
    /\ pushed' = IF ppc' = "idle" THEN pushed ELSE Append(pushed, next_entry)
    /\ next_entry' = next_entry + 1
    /\ UNCHANGED <<running, flush_requested, flush_complete, cpc, wpc, written, flush_mark>>

\* The rest of the accepted push: the slot write, then the tail publish.
LogPush == (Ring!PushWrite \/ Ring!PushPublish) /\ UNCHANGED loggerVars

\* flush(): flush_complete.store(false)
FlushBegin ==
    /\ ClientIdle
    /\ flush_complete' = FALSE
    /\ flush_mark' = Len(pushed)
    /\ cpc' = "request"
    /\ UNCHANGED <<ringVars, running, flush_requested, wpc, next_entry, pushed, written>>

\* flush_requested.store(true)
FlushRequest ==
    /\ cpc = "request"
    /\ flush_requested' = TRUE
    /\ cpc' = "wait"
    /\ UNCHANGED <<ringVars, running, flush_complete, wpc, next_entry, pushed, written, flush_mark>>

\* while !flush_complete.load() { spin or yield on queue.is_empty() }:
\* leaves the loop once it is set.
FlushWait ==
    /\ cpc = "wait" /\ flush_complete
    /\ cpc' = "clear"
    /\ UNCHANGED <<ringVars, running, flush_requested, flush_complete, wpc, next_entry,
                   pushed, written, flush_mark>>

\* flush_requested.store(false); flush() returns.
FlushClear ==
    /\ cpc = "clear"
    /\ flush_requested' = FALSE
    /\ cpc' = "idle"
    /\ UNCHANGED <<ringVars, running, flush_complete, wpc, next_entry, pushed, written, flush_mark>>

\* drop(): running.store(false), then join the writer.
DropBegin ==
    /\ ClientIdle
    /\ running' = FALSE
    /\ cpc' = "join"
    /\ UNCHANGED <<ringVars, flush_requested, flush_complete, wpc, next_entry, pushed, written, flush_mark>>

DropJoin ==
    /\ cpc = "join" /\ wpc = "done"
    /\ cpc' = "dropped"
    /\ UNCHANGED <<ringVars, running, flush_requested, flush_complete, wpc, next_entry,
                   pushed, written, flush_mark>>

(***************************************************************************)
(* Writer thread: writer_loop.                                             *)
(***************************************************************************)
clientVars == <<running, flush_requested, flush_complete, cpc, next_entry, pushed, flush_mark>>

\* Seeded fault: leave the loop without the final drain.
WriterCheckRunningNoDrain ==
    /\ wpc = "loop"
    /\ wpc' = IF running THEN "drain" ELSE "done"
    /\ UNCHANGED <<ringVars, written, clientVars>>

\* while running.load(Relaxed) { ... }; otherwise on to the final drain.
WriterCheckRunning ==
    /\ wpc = "loop"
    /\ wpc' = IF running THEN "drain" ELSE "exit_drain"
    /\ UNCHANGED <<ringVars, written, clientVars>>

\* while let Some(entry) = queue.pop() (in the loop and after it): the
\* pop's load; when it returns None the drain is over.
WriterPop ==
    /\ wpc \in {"drain", "exit_drain"}
    /\ Ring!PopLoad
    /\ wpc' = CASE pop_pc' # "idle" -> wpc
                 [] wpc = "drain"    -> "check_flush"
                 [] OTHER            -> "done"
    /\ UNCHANGED <<written, clientVars>>

\* The rest of a pop that found an entry: the slot read, then the head
\* release; write_entry then writes the entry popped.
WriterRead == Ring!PopRead /\ UNCHANGED <<wpc, written, clientVars>>

WriterWrite ==
    /\ Ring!PopRelease
    /\ written' = Append(written, c_item)
    /\ UNCHANGED <<wpc, clientVars>>

\* if flush_requested.load(Acquire) { stderr.flush(); ... }
WriterCheckFlush ==
    /\ wpc = "check_flush"
    /\ wpc' = IF flush_requested THEN "complete" ELSE "loop"
    /\ UNCHANGED <<ringVars, written, clientVars>>

\* Seeded fault: the completion store is lost.
WriterCompleteLost ==
    /\ wpc = "complete"
    /\ wpc' = "loop"
    /\ UNCHANGED <<ringVars, written, clientVars>>

\* flush_complete.store(true, Release)
WriterComplete ==
    /\ wpc = "complete"
    /\ flush_complete' = TRUE
    /\ wpc' = "loop"
    /\ UNCHANGED <<ringVars, written, running, flush_requested, cpc, next_entry, pushed, flush_mark>>

Client == Log \/ LogPush \/ FlushBegin \/ FlushRequest \/ FlushWait \/ FlushClear
          \/ DropBegin \/ DropJoin
Writer == WriterCheckRunning \/ WriterPop \/ WriterRead \/ WriterWrite \/ WriterCheckFlush
          \/ WriterComplete

Next == Client \/ Writer

\* The writer thread is scheduled fairly; a client that has entered log(),
\* flush() or drop() keeps executing it.  Nothing obliges the client to
\* log, flush or drop.
Fairness ==
    /\ WF_vars(Writer)
    /\ WF_vars(LogPush)
    /\ WF_vars(FlushRequest) /\ WF_vars(FlushWait) /\ WF_vars(FlushClear)
    /\ WF_vars(DropJoin)

Spec == Init /\ [][Next]_vars /\ Fairness


(***************************************************************************)
(* Properties.                                                             *)
(***************************************************************************)
TypeOK ==
    /\ Ring!TypeOK
    /\ running \in BOOLEAN /\ flush_requested \in BOOLEAN /\ flush_complete \in BOOLEAN
    /\ cpc \in {"idle", "request", "wait", "clear", "join", "dropped"}
    /\ wpc \in {"loop", "drain", "check_flush", "complete", "exit_drain", "done"}
    /\ next_entry \in 1..(MaxLogs + 1)
    /\ pushed \in Seq(Entries) /\ written \in Seq(Entries)
    /\ flush_mark \in 0..MaxLogs

(* The ring implements a bounded FIFO (spec 4.1): under every interleaving *)
(* of log()'s load/write/publish with the writer's load/read/release, and  *)
(* across the wrap of the usize counters, the slots between head and tail  *)
(* hold the accepted, not yet popped entries in order, never more than     *)
(* the capacity, and each pop returns the front entry.                     *)
FifoSpec == Ring!FifoSpec

(* An entry in the ring is eventually popped: head moves past every        *)
(* position tail has moved past, also when the ring is full and log()      *)
(* drops, and after drop() (the final drain).                              *)
QueueDrains == Ring!QueueDrains

(* flush() returns: once the client has entered flush(), it eventually     *)
(* gets back to its caller, however the writer's drain, flag check and     *)
(* completion store interleave with the request and the final clear.       *)
FlushReturns == (cpc = "request") ~> (cpc = "idle")

(* No accepted entry is lost: every entry the queue accepted is eventually *)
(* written, whether the logger keeps running or is dropped right after     *)
(* the push (the final drain after the loop).                              *)
AcceptedEntriesWritten ==
    \A n \in Entries : (Len(pushed) >= n) ~> (Len(written) >= n)

(* flush() "blocks until all queued entries have been written" (its doc    *)
(* comment): when flush() leaves its wait loop, every entry accepted       *)
(* before flush() was called has been written.                             *)
FlushWritesEarlierEntries ==
    cpc = "clear" => Len(written) >= flush_mark

=============================================================================
