-------------------------- MODULE MCLibeventSocket --------------------------
(***************************************************************************)
(* Instances of LibeventSocket for TLC: a buffer of four bytes, headers of *)
(* one byte for the startup packet and of two for the others.              *)
(***************************************************************************)
EXTENDS LibeventSocket

\* A startup packet and two more, with contents of no byte, of the buffer's
\* size and longer than the buffer.
Streams == {<<1, n, m>> : n \in {0, 4, 6}, m \in {0, 1}}

\* The answer to the startup packet fits.
Startup == <<1>>

\* No response, two that do not fit together, and one that takes the
\* buffer more than twice.
Answers == {<<>>, <<0, 2>>, <<7>>}
=============================================================================
