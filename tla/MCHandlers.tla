---------------------------- MODULE MCHandlers ----------------------------
(* Small instances of Handlers: a file of two units, empty and other sources. *)
EXTENDS Handlers

Job(source, size, deleteAfter) ==
    [source |-> source, size |-> size, deleteAfter |-> deleteAfter]

AllJobs ==
    {Job("path", FileSize, d) : d \in BOOLEAN}
    \cup {Job(s, n, FALSE) : s \in {"reader", "content"}, n \in {0, 2}}
    \cup {Job(s, 0, FALSE) : s \in {"health", "nil config", "no source"}}

\* Requests of any kind.
MCLoads == [Requests -> AllJobs]

\* One download of a stream of unknown length.
MCReaders == [Requests -> {Job("reader", 2, FALSE)}]
=============================================================================
