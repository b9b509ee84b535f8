-------------------------------- MODULE MCUdp --------------------------------
(***************************************************************************)
(* Instances of UdpForward and UdpPath for TLC.                            *)
(***************************************************************************)
EXTENDS UdpPath, TLC

CONSTANTS d1, d2, d3, d4  \* datagrams

\* With CHUNK_SIZE 2: two datagrams of the same length, three fragments each
\* with a short last one; a single short fragment; an empty datagram.  No two
\* bytes are equal.
MCContent ==
  d1 :> <<1, 2, 3, 4, 5>> @@ d2 :> <<11, 12, 13, 14, 15>> @@ d3 :> <<21>> @@ d4 :> <<>>

\* What damage makes of some fragments: a length beyond the cap or of another
\* datagram, too much data, and none.
MCFragments ==
  {[MkFragment(d1, 0) EXCEPT !.size = UDP_MAX_FORWARD_BYTES + 1],
   [MkFragment(d1, 1) EXCEPT !.size = 4],
   [MkFragment(d1, 1) EXCEPT !.data = <<3, 4, 4>>],
   [MkFragment(d2, 0) EXCEPT !.data = <<>>],
   [MkFragment(d2, 2) EXCEPT !.data = <<>>]}

=============================================================================
