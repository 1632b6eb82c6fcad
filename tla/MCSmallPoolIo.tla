---------------------------- MODULE MCSmallPoolIo ----------------------------
(* SmallPoolIo for TLC: what may wedge, and how many files there are.      *)
EXTENDS SmallPoolIo

MCFiles == {1, 2}
AllCalls == {"CreateFileW", "CreateIoCompletionPort", "ReadFile"}
OpenCalls == {"CreateFileW", "CreateIoCompletionPort"}
=============================================================================
