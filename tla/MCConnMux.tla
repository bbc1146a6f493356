----------------------------- MODULE MCConnMux ------------------------------
(***************************************************************************)
(* The instances of ConnMux that TLC checks: how many payloads each side   *)
(* writes to each connection and how often it calls Close on a child.      *)
(***************************************************************************)
EXTENDS ConnMuxProperties

None == [s \in Side |-> 0]

\* Two payloads one way, whose order can be lost, and one the other way.
StreamWrites == [client |-> 2, server |-> 1]

\* One side closes the connection while the other may still write.
StreamCloses == [client |-> 1, server |-> 0]

=============================================================================
