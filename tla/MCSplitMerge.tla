---------------------------- MODULE MCSplitMerge ----------------------------
(***************************************************************************)
(* An instance of SplitMerge for TLC.                                      *)
(***************************************************************************)
EXTENDS SplitMerge, TLC

CONSTANTS f, g, h  \* files

\* With SPLIT_THRESHOLD 2: two chunks, the last one short; three chunks, one
\* more than split can name; a file exactly at the threshold.
MCSize == f :> 3 @@ g :> 5 @@ h :> 2

MCName == f :> "f" @@ g :> "g" @@ h :> "h"

=============================================================================
