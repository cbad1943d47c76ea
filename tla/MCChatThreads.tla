---------------------------- MODULE MCChatThreads ----------------------------
(* Instances of ChatThreads for TLC.                                        *)
EXTENDS ChatThreads

AnyQuestion == {"text", "empty"}

\* The thread of the conversation that is created first: its own for that one,
\* another's for all others.
AnyThread == {1}

=============================================================================
