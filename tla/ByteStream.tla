----------------------------- MODULE ByteStream -----------------------------
(***************************************************************************)
(* What one direction of a connection promises to its readers: every Read  *)
(* that returns data returns the bytes that follow those returned before.  *)
(***************************************************************************)
EXTENDS Naturals

CONSTANTS Readers, ReadSizes

VARIABLES
  written,   \* bytes the peer has written
  read,      \* bytes that Reads have returned
  last       \* last[r]: the bytes the last Read of r returned

vars == <<written, read, last>>

\* The bytes from, ..., to of the stream; to = from - 1 is no byte at all.
Bytes(from, to) == [from |-> from, to |-> to]
Nothing == Bytes(1, 0)

Init == written = 0 /\ read = 0 /\ last = [r \in Readers |-> Nothing]

Put ==
  /\ written' \in Nat
  /\ written' >= written
  /\ UNCHANGED <<read, last>>

Get(r) ==
  \E n \in 0 .. written - read :
    /\ \E size \in ReadSizes : n <= size
    /\ last' = [last EXCEPT ![r] = Bytes(read + 1, read + n)]
    /\ read' = read + n
    /\ UNCHANGED written

\* A Read that ends with an error, or without data, takes nothing.
GetNothing(r) ==
  /\ last' = [last EXCEPT ![r] = Nothing]
  /\ UNCHANGED <<written, read>>

Next == Put \/ \E r \in Readers : Get(r) \/ GetNothing(r)

Spec == Init /\ [][Next]_vars

=============================================================================
