-------------------------- MODULE DeliveryContract --------------------------
(***************************************************************************)
(* What the receiver promises to whoever reads its output directory, with  *)
(* packets, batches, buffers and FEC left out: at most one path is in      *)
(* flight; a path's file appears whole, in one step, when its transfer     *)
(* ends; it disappears only when a new transfer of the path begins or the  *)
(* path's own transfer fails; every transfer that ends is counted, and a   *)
(* failed one is flagged.                                                  *)
(*                                                                         *)
(* Where the directory is reliable the old file and the old flag of a path *)
(* are gone before it is received again.  Where it is not, the receiver    *)
(* goes on regardless, and any of the files and flags it means to remove   *)
(* or to create may stay as they were.  A transfer refused because of its  *)
(* name is counted but has no flag, although the repository's README       *)
(* announces one.                                                          *)
(***************************************************************************)
EXTENDS Naturals

CONSTANTS
  Paths, NoPath, NoFile,
  Contents,          \* what a published file may hold
  DirectoryReliable  \* TRUE if removing a file and creating a flag never fail

VARIABLES
  inflight,   \* the path being received, or NoPath
  published,  \* published[p]: content under p's own name, or NoFile
  flagged,    \* the paths reported as failed
  ended       \* the number of transfers that ended well and badly

vars == <<inflight, published, flagged, ended>>

Init ==
  /\ inflight = NoPath
  /\ published = [p \in Paths |-> NoFile]
  /\ flagged = {}
  /\ ended = [well |-> 0, badly |-> 0]

\* What becomes of an attempt to do something for each of the paths ps.
Attempted(ps) == IF DirectoryReliable THEN {ps} ELSE SUBSET ps

\* The paths in ps lose their file and have their flag raised, those in others
\* lose both, as far as the directory lets them.
Fail(ps, others) ==
  \E gone \in Attempted(ps \cup others), lowered \in Attempted(others), raised \in Attempted(ps) :
    /\ published' = [p \in Paths |-> IF p \in gone THEN NoFile ELSE published[p]]
    /\ flagged' = (flagged \ lowered) \cup raised

Interrupted == {inflight} \ {NoPath}
Failures(n) == [ended EXCEPT !.badly = @ + n + (IF inflight = NoPath THEN 0 ELSE 1)]

\* A transfer of p begins; the one in flight, if any, is given up.
Begin(p) ==
  /\ p # inflight
  /\ inflight' = p
  /\ Fail(Interrupted, {p})
  /\ ended' = Failures(0)

\* A transfer is refused at once: p cannot be opened (ps = {p}) or is no
\* acceptable name (ps = {}).
Refuse(ps) ==
  /\ inflight \notin ps
  /\ inflight' = NoPath
  /\ Fail(Interrupted \cup ps, ps)
  /\ ended' = Failures(1)

\* The file in flight appears under its own name; its flag, if it had one, goes.
Publish ==
  /\ inflight # NoPath
  /\ published'[inflight] \in Contents
  /\ published' = [published EXCEPT ![inflight] = published'[inflight]]
  /\ \E lowered \in Attempted({inflight}) : flagged' = flagged \ lowered
  /\ ended' = [ended EXCEPT !.well = @ + 1]
  /\ inflight' = NoPath

GiveUp ==
  /\ inflight # NoPath
  /\ inflight' = NoPath
  /\ Fail(Interrupted, {})
  /\ ended' = Failures(0)

\* The receiver is started again: counters start over, the directory stays.
Restart ==
  /\ inflight' = NoPath
  /\ ended' = [well |-> 0, badly |-> 0]
  /\ UNCHANGED <<published, flagged>>

Next ==
  \/ \E p \in Paths : Begin(p)
  \/ \E p \in Paths : Refuse({p})
  \/ Refuse({})
  \/ Publish
  \/ GiveUp
  \/ Restart

Spec == Init /\ [][Next]_vars

=============================================================================
