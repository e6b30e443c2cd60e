---------------------------- MODULE MCApprovalTrace ----------------------------
(* The traced calls of two processes and the ways they return.               *)
EXTENDS ApprovalTrace

MCCalls == {
    [name |-> "execve", writes |-> FALSE, path |-> "/bin/sh"],
    [name |-> "openat", writes |-> FALSE, path |-> "file"],
    [name |-> "openat", writes |-> TRUE, path |-> "file"],
    [name |-> "mkdir", writes |-> TRUE, path |-> "directory"]}

MCReturns == {
    [ok |-> TRUE, text |-> "0", errno |-> "null"],
    [ok |-> FALSE, text |-> "-1", errno |-> "EACCES"],
    [ok |-> FALSE, text |-> "-1", errno |-> "EEXIST"]}

\* A call that did not complete: strace shows a question mark for its result.
MCInterruptedReturns ==
    MCReturns \cup {[ok |-> FALSE, text |-> "?", errno |-> "ERESTARTNOINTR"]}
=============================================================================
