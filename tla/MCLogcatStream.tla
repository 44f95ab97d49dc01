-------------------------- MODULE MCLogcatStream --------------------------
(* Instances of LogcatStream for TLC. *)
EXTENDS LogcatStream
\* Two lines share a timestamp.
MCStamp == [i \in 1..MaxLines |-> (i + 1) \div 2]
=============================================================================
