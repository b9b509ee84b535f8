----------------------------- MODULE SplitMerge -----------------------------
(***************************************************************************)
(* bin/split_files on the sending host and bin/merge_files on the          *)
(* receiving one, with the diode in between.  Files can get lost or        *)
(* damaged on the way and are pushed again; either script can die at any   *)
(* point and is run again.                                                 *)
(*                                                                         *)
(* A file is its path below the directory given to the scripts; its chunks *)
(* are numbered, "aa" being 1.  A digest is abstracted to what it digests. *)
(* The directories have different names on the two hosts, so merge_files   *)
(* finds no manifest entry by path and looks for the name alone.  The      *)
(* manifest has the lines of sha256sum, "<digest>  <path>"; in those of    *)
(* OpenBSD's sha256, "SHA256 (<path>) = <digest>", merge_files would find  *)
(* no entry, and keep all chunks.                                          *)
(***************************************************************************)
EXTENDS Naturals, FiniteSets

CONSTANTS
  Files,            \* the files of the directory
  Size,             \* Size[f]: their sizes
  Name,             \* Name[f]: the last component of the path
  SPLIT_THRESHOLD,  \* size of a chunk, and of the largest file left alone
  MaxSuffixes,      \* how many chunks split can name with two letters
  NoManifest,       \* there is no SHA256 file
  NoFile,           \* there is no merged file
  MaxFaults         \* bound of the model: failing commands and deaths

Chunks(f) == 1 .. (Size[f] + SPLIT_THRESHOLD - 1) \div SPLIT_THRESHOLD

ASSUME SplitAssumption ==
  /\ SPLIT_THRESHOLD \in Nat \ {0} /\ MaxSuffixes \in Nat /\ MaxFaults \in Nat
  /\ Size \in [Files -> Nat]
  /\ \A listing \in SUBSET Files : NoManifest # listing

VARIABLES
  staged,    \* the files on the sending host that are there in one piece
  pieces,    \* pieces[f]: the chunks of f there
  manifest,  \* the files the manifest lists
  split,     \* split_files: what it is doing and the file it is at
  unhashed,  \* history: files whose digest could not be computed
  got,       \* got[f]: the chunks on the receiving host; TRUE if undamaged
  listed,    \* the manifest there
  merged,    \* merged[f]: the chunks the merged file was made of
  merge,     \* merge_files: what it is doing, and the files still to do
  python,    \* python3 is installed on the receiving host
  removed,   \* history: the files whose chunks merge_files has removed
  faults     \* what has been used of MaxFaults

splitVars == <<staged, pieces, manifest, split, unhashed>>
mergeVars == <<got, listed, merged, merge, python, removed>>
vars ==
  <<staged, pieces, manifest, split, unhashed, got, listed, merged, merge, python, removed, faults>>

SplitIdle == [pc |-> "idle", todo |-> {}]

NotRunning == [pc |-> "idle", todo |-> {}, have |-> FALSE]

Init ==
  /\ staged = Files
  /\ pieces = [f \in Files |-> {}]
  /\ manifest = NoManifest
  /\ split = SplitIdle
  /\ unhashed = {}
  /\ got = [f \in Files |-> <<>>]
  /\ listed = NoManifest
  /\ merged = [f \in Files |-> NoFile]
  /\ merge = NotRunning
  /\ python \in BOOLEAN
  /\ removed = {}
  /\ faults = 0

Fault(n) == faults + n <= MaxFaults /\ faults' = faults + n

-----------------------------------------------------------------------------
(* split_files                                                             *)

TooLarge == {f \in staged : Size[f] > SPLIT_THRESHOLD}

\* The manifest is written anew by every run.
MustHash_Always == TRUE

MustHash == manifest = NoManifest

\* Step 1.  Files that fail to be hashed are not listed.  The inner shell ends
\* with the status of the last file it hashed, so a failure of another one
\* goes unnoticed and the manifest is moved into place without it.
WriteManifest ==
  /\ split.pc = "idle"
  /\ MustHash
  /\ \E failing \in SUBSET staged, last \in staged :
       /\ Fault(Cardinality(failing))
       /\ IF last \in failing THEN UNCHANGED <<manifest, split, unhashed>>
          ELSE /\ manifest' = staged \ failing
               /\ unhashed' = unhashed \cup failing
               /\ split' = [pc |-> "split", todo |-> TooLarge]
  /\ UNCHANGED <<staged, pieces, mergeVars>>

\* A second run, with the manifest of an earlier one.
KeepManifest ==
  /\ split.pc = "idle"
  /\ ~MustHash
  /\ TooLarge # {}
  /\ split' = [pc |-> "split", todo |-> TooLarge]
  /\ UNCHANGED <<staged, pieces, manifest, unhashed, mergeVars, faults>>

\* Step 2: split writes the chunks.  It may stop early, and does so when it
\* runs out of names.
SplitFile(f) ==
  /\ split.pc = "split" /\ f \in split.todo
  /\ \E n \in 0 .. Cardinality(Chunks(f)) :
       LET all == Chunks(f) \cap 1 .. MaxSuffixes
       IN /\ 1 .. n \subseteq all
          /\ Fault(IF 1 .. n = all THEN 0 ELSE 1)
          /\ pieces' = [pieces EXCEPT ![f] = @ \cup 1 .. n]
  /\ split' = [pc |-> "rm", todo |-> split.todo \ {f}, at |-> f]
  /\ UNCHANGED <<staged, manifest, unhashed, mergeVars>>

\* The original goes, whatever split said.
RemoveOriginal ==
  /\ split.pc = "rm"
  /\ staged' = staged \ {split.at}
  /\ split' = IF split.todo = {} THEN SplitIdle ELSE [pc |-> "split", todo |-> split.todo]
  /\ UNCHANGED <<pieces, manifest, unhashed, mergeVars, faults>>

SplitDies ==
  /\ split.pc # "idle"
  /\ Fault(1)
  /\ split' = SplitIdle
  /\ UNCHANGED <<staged, pieces, manifest, unhashed, mergeVars>>

-----------------------------------------------------------------------------
(* The diode                                                               *)

\* The operator pushes what has not arrived undamaged, once split_files is
\* through.  A damaged chunk has holes.
PushChunk(f, i) ==
  /\ split.pc = "idle" /\ manifest # NoManifest /\ TooLarge = {}
  /\ i \in pieces[f]
  /\ i \in DOMAIN got[f] => ~got[f][i]
  /\ f \notin removed
  /\ \E undamaged \in BOOLEAN :
       got' = [got EXCEPT ![f] = [k \in DOMAIN @ \cup {i} |-> IF k = i THEN undamaged ELSE @[k]]]
  /\ UNCHANGED <<splitVars, python, listed, merged, merge, removed, faults>>

\* A damaged manifest has lost its tail.
PushManifest ==
  /\ split.pc = "idle" /\ manifest # NoManifest /\ TooLarge = {}
  /\ listed # manifest
  /\ listed' \in SUBSET manifest
  /\ UNCHANGED <<splitVars, python, got, merged, merge, removed, faults>>

-----------------------------------------------------------------------------
(* merge_files                                                             *)

\* The files of which there is a chunk "aa".
Roots == {f \in Files : 1 \in DOMAIN got[f]}

\* Whether there is a manifest is looked up once, at the beginning.
StartMerge ==
  /\ merge.pc = "idle"
  /\ Roots # {}
  /\ merge' = [pc |-> "cat", todo |-> Roots, have |-> listed # NoManifest]
  /\ UNCHANGED <<splitVars, python, got, listed, merged, removed, faults>>

\* Step 1: cat the chunks that are there, in order.
Concatenate(f) ==
  /\ merge.pc = "cat" /\ f \in merge.todo
  /\ merged' = [merged EXCEPT ![f] = got[f]]
  /\ merge' = [merge EXCEPT !.todo = @ \ {f}]
  /\ UNCHANGED <<splitVars, python, got, listed, removed, faults>>

\* Step 2 looks for the chunks "aa" again.  It is skipped without a manifest
\* and without python3: merge_files is done then, and all chunks stay.
StartVerify ==
  /\ merge.pc = "cat" /\ merge.todo = {}
  /\ merge' = IF merge.have /\ python THEN [merge EXCEPT !.pc = "verify", !.todo = Roots]
              ELSE NotRunning
  /\ UNCHANGED <<splitVars, python, got, listed, merged, removed, faults>>

\* The manifest entry is looked up by the path alone.
Expected_ByPath(f) == {}

\* The files whose digest may be the one expected of f: any of that name.
Expected(f) == {g \in listed : Name[g] = Name[f]}

\* The merged file has the digest of g.  (No two files have the same content.)
IsContentOf(f, g) ==
  /\ f = g
  /\ merged[f] # NoFile
  /\ merged[f] = [i \in Chunks(f) |-> TRUE]

\* The chunks are removed whether or not the digests match.
Matches_Unchecked(f) == Expected(f) # {}

Matches(f) == \E g \in Expected(f) : IsContentOf(f, g)

\* The chunks unlinked: all of that name, in whatever directory.
SameName(f) == {g \in Files : Name[g] = Name[f]}

\* One root after the other: chunks go on a match, and stay on a mismatch, if
\* the file cannot be read, and without a manifest entry.
Verify(f) ==
  /\ merge.pc = "verify" /\ f \in merge.todo
  /\ IF Matches(f)
     THEN /\ got' = [g \in Files |-> IF g \in SameName(f) THEN <<>> ELSE got[g]]
          /\ removed' = removed \cup {g \in SameName(f) : got[g] # <<>>}
     ELSE UNCHANGED <<got, removed>>
  /\ merge' = IF merge.todo = {f} THEN NotRunning ELSE [merge EXCEPT !.todo = @ \ {f}]
  /\ UNCHANGED <<splitVars, python, listed, merged, faults>>

\* merge_files dies: cat may have written some of a file, ">" has emptied it.
MergeDies ==
  /\ merge.pc # "idle"
  /\ Fault(1)
  /\ merge' = NotRunning
  /\ \/ UNCHANGED merged
     \/ /\ merge.pc = "cat"
        /\ \E f \in merge.todo : \E n \in 0 .. Cardinality(DOMAIN got[f]) - 1 :
             merged' = [merged EXCEPT ![f] = [i \in DOMAIN got[f] \cap 1 .. n |-> got[f][i]]]
  /\ UNCHANGED <<splitVars, python, got, listed, removed>>

\* The operator finds the chunks still there, and installs what is missing.
InstallPython ==
  /\ ~python
  /\ python' = TRUE
  /\ UNCHANGED <<splitVars, got, listed, merged, merge, removed, faults>>

MergeStep ==
  \/ StartMerge
  \/ \E f \in Files : Concatenate(f) \/ Verify(f)
  \/ StartVerify

Next ==
  \/ WriteManifest
  \/ KeepManifest
  \/ \E f \in Files : SplitFile(f)
  \/ RemoveOriginal
  \/ SplitDies
  \/ \E f \in Files : \E i \in Chunks(f) : PushChunk(f, i)
  \/ PushManifest
  \/ MergeStep
  \/ MergeDies
  \/ InstallPython

\* merge_files is run again and again.  Everything else may never happen.
Spec == Init /\ [][Next]_vars /\ WF_vars(MergeStep)

-----------------------------------------------------------------------------
(* Properties                                                              *)

\* The chunks of a file are gone from the receiving host only if the merged
\* file is the original, whatever was lost, damaged, half split or half merged
\* before (merge_files: "Chunks are removed only on a digest match").
RemovedMeansWhole ==
  \A f \in removed : merged[f] = [i \in Chunks(f) |-> TRUE]

\* Once a file is not there in one piece any more, its digest is in the
\* manifest, however often split_files died and was run again, unless it could
\* not be hashed (split_files: a second pass does not invalidate the checksums
\* recorded for the original files).
ManifestOutlivesSplit ==
  \A f \in Files \ staged : manifest # NoManifest /\ f \in manifest \cup unhashed

\* When all chunks of a file and the manifest have arrived, and python3 is
\* there, merge_files reassembles the file and cleans up in the end.
ArrivedIsMerged ==
  \A f \in Files :
    (/\ got[f] = [i \in Chunks(f) |-> TRUE] /\ Chunks(f) # {}
     /\ listed = manifest /\ f \in listed
     /\ python)
      ~> (f \in removed /\ merged[f] = [i \in Chunks(f) |-> TRUE])

=============================================================================
