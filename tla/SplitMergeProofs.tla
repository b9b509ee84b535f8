--------------------------- MODULE SplitMergeProofs ---------------------------
(***************************************************************************)
(* Proofs about split_files and merge_files, for any files, sizes and      *)
(* numbers of faults: neither script destroys what cannot be restored.     *)
(***************************************************************************)
EXTENDS SplitMerge, TLAPS

-----------------------------------------------------------------------------
(* split_files: the manifest                                               *)

\* The manifest is there before the first file is split, and is written only
\* while every file is there in one piece, so it accounts for all of them.
ManifestInv ==
  /\ split.pc # "idle" => manifest # NoManifest
  /\ manifest = NoManifest => staged = Files
  /\ manifest # NoManifest => Files \subseteq manifest \cup unhashed

\* Initially nothing is split.
LEMMA InitManifestInv == Init => ManifestInv
BY DEF Init, ManifestInv, SplitIdle

\* A manifest is written only when there is none, and lists all but the files
\* that could not be hashed; no step takes it away.
LEMMA NextManifestInv == ManifestInv /\ [Next]_vars => ManifestInv'
<1> SUFFICES ASSUME ManifestInv, [Next]_vars
             PROVE  ManifestInv'
  OBVIOUS
<1> USE DEF ManifestInv
<1>1. CASE WriteManifest
  <2>1. staged = Files /\ staged' = staged
    BY <1>1 DEF WriteManifest, MustHash
  <2>2. PICK failing \in SUBSET staged :
          \/ UNCHANGED <<manifest, split, unhashed>>
          \/ manifest' = staged \ failing /\ unhashed' = unhashed \cup failing
    BY <1>1 DEF WriteManifest
  <2>3. CASE UNCHANGED <<manifest, split, unhashed>>
    BY <2>1, <2>3
  <2>4. CASE manifest' = staged \ failing /\ unhashed' = unhashed \cup failing
    <3>1. manifest' # NoManifest
      BY <2>1, <2>4, SplitAssumption
    <3> QED
      BY <2>1, <2>4, <3>1
  <2> QED
    BY <2>2, <2>3, <2>4
<1>2. CASE KeepManifest
  BY <1>2 DEF KeepManifest, MustHash
<1>3. ASSUME NEW f \in Files, SplitFile(f)
      PROVE  ManifestInv'
  BY <1>3 DEF SplitFile
<1>4. CASE RemoveOriginal
  BY <1>4 DEF RemoveOriginal
<1>5. CASE SplitDies
  BY <1>5 DEF SplitDies, SplitIdle
<1>6. ASSUME UNCHANGED splitVars
      PROVE  ManifestInv'
  BY <1>6 DEF splitVars
<1>7. ASSUME NEW f \in Files, NEW i \in Chunks(f), PushChunk(f, i)
      PROVE  ManifestInv'
  BY <1>6, <1>7 DEF PushChunk
<1>8. CASE PushManifest \/ MergeStep \/ MergeDies \/ InstallPython
  BY <1>6, <1>8 DEF PushManifest, MergeStep, StartMerge, Concatenate, StartVerify, Verify, MergeDies,
                      InstallPython
<1>9. CASE UNCHANGED vars
  BY <1>9 DEF vars
<1> QED
  BY <1>1, <1>2, <1>3, <1>4, <1>5, <1>7, <1>8, <1>9 DEF Next

\* Whatever files there are, however often split_files dies and is run again,
\* and whatever it fails to hash or to split: a file that is not there in one
\* piece any more is in the manifest, unless it could not be hashed.
THEOREM ManifestAlwaysOutlivesSplit == Spec => []ManifestOutlivesSplit
<1>1. ManifestInv => ManifestOutlivesSplit
  BY DEF ManifestInv, ManifestOutlivesSplit
<1> QED
  BY <1>1, InitManifestInv, NextManifestInv, PTL DEF Spec

-----------------------------------------------------------------------------
(* merge_files: what is removed                                            *)

Whole(f) == merged[f] = [i \in Chunks(f) |-> TRUE]

\* No file whose chunks are gone is still to be concatenated, so merge_files
\* does not write such a file again; and of the files it is still to verify,
\* the chunks are there or merge_files has removed them itself.
RemovedInv ==
  /\ removed \subseteq Files
  /\ DOMAIN got = Files /\ DOMAIN merged = Files
  /\ merge \in [pc: {"idle", "cat", "verify"}, todo: SUBSET Files, have: BOOLEAN]
  /\ \A f \in removed : got[f] = <<>>
  /\ merge.pc = "cat" => merge.todo \cap removed = {}
  /\ merge.pc = "verify" => \A f \in merge.todo : got[f] # <<>> \/ f \in removed
  /\ \A f \in removed : \E g \in SameName(f) \cap removed : Whole(g)

\* What has been removed was removed for a file of that name, whose chunks were
\* removed with it and which is the original and whole.
RemovedForOriginal ==
  \A f \in removed : \E g \in removed : Name[g] = Name[f] /\ Whole(g)

\* Initially nothing is removed.
LEMMA InitRemovedInv == Init => RemovedInv
BY DEF Init, RemovedInv, NotRunning

\* A file of which there is a chunk "aa" is not one whose chunks are gone.
LEMMA RootHasChunks == \A f \in Roots : f \in Files /\ got[f] # <<>>
<1> SUFFICES ASSUME NEW f \in Roots, got[f] = <<>>
             PROVE  FALSE
  BY DEF Roots
<1>1. 1 \in DOMAIN got[f]
  BY DEF Roots
<1>2. DOMAIN <<>> = {}
  OBVIOUS
<1> QED
  BY <1>1, <1>2

\* A step that leaves the removed files, and all merged files of them, alone.
LEMMA RemovedStays ==
  ASSUME RemovedInv, removed' = removed, \A f \in removed : merged'[f] = merged[f]
  PROVE  \A f \in removed' : \E g \in SameName(f) \cap removed' : Whole(g)'
BY DEF RemovedInv, Whole

\* On a match the chunks of all files of that name go; the file that matches is
\* among them, or its chunks went before.
LEMMA VerifyRemoved ==
  ASSUME RemovedInv, NEW f \in Files, Verify(f)
  PROVE  RemovedInv'
<1>1. /\ merge.pc = "verify" /\ f \in merge.todo /\ merged' = merged
      /\ merge' = IF merge.todo = {f} THEN NotRunning ELSE [merge EXCEPT !.todo = @ \ {f}]
  BY DEF Verify
<1>2. /\ merge' \in [pc: {"idle", "cat", "verify"}, todo: SUBSET Files, have: BOOLEAN]
      /\ merge'.pc # "cat" /\ merge'.todo \subseteq merge.todo
  BY <1>1 DEF RemovedInv, NotRunning
<1>3. CASE Matches(f)
  <2>1. /\ got' = [g \in Files |-> IF g \in SameName(f) THEN <<>> ELSE got[g]]
        /\ removed' = removed \cup {g \in SameName(f) : got[g] # <<>>}
    BY <1>3 DEF Verify
  <2>2. f \in SameName(f) /\ SameName(f) \subseteq Files
    BY DEF SameName
  <2>3. f \in removed'
    BY <1>1, <2>1, <2>2 DEF RemovedInv
  <2>4. Whole(f)'
    BY <1>1, <1>3 DEF Matches, IsContentOf, Whole
  <2>5. removed' \subseteq Files /\ DOMAIN got' = Files /\ DOMAIN merged' = Files
    BY <1>1, <2>1, <2>2 DEF RemovedInv
  <2>6. \A g \in removed' : got'[g] = <<>>
    BY <2>1, <2>2 DEF RemovedInv
  <2>7. \A g \in merge.todo : got'[g] # <<>> \/ g \in removed'
    <3> SUFFICES ASSUME NEW g \in merge.todo, g \notin removed'
                 PROVE  got'[g] # <<>>
      OBVIOUS
    <3>1. g \in Files /\ got[g] # <<>>
      BY <1>1, <2>1 DEF RemovedInv
    <3>2. g \notin SameName(f)
      BY <2>1, <3>1
    <3> QED
      BY <2>1, <3>1, <3>2
  <2>8. ASSUME NEW g \in removed'
        PROVE  \E h \in SameName(g) \cap removed' : Whole(h)'
    <3>1. CASE g \in removed
      <4>1. PICK h \in SameName(g) \cap removed : Whole(h)
        BY <3>1 DEF RemovedInv
      <4>2. h \in removed' /\ Whole(h)'
        BY <1>1, <2>1, <4>1 DEF Whole
      <4> QED
        BY <4>1, <4>2
    <3>2. CASE g \in SameName(f)
      <4>1. f \in SameName(g)
        BY <3>2 DEF SameName
      <4> QED
        BY <2>3, <2>4, <4>1
    <3> QED
      BY <2>1, <2>8, <3>1, <3>2
  <2> QED
    BY <1>2, <2>5, <2>6, <2>7, <2>8 DEF RemovedInv
<1>4. CASE ~Matches(f)
  <2>1. got' = got /\ removed' = removed
    BY <1>4 DEF Verify
  <2>2. \A g \in removed' : \E h \in SameName(g) \cap removed' : Whole(h)'
    BY <1>1, <2>1, RemovedStays
  <2> QED
    BY <1>1, <1>2, <2>1, <2>2 DEF RemovedInv
<1> QED
  BY <1>3, <1>4

\* Every step keeps the invariant.
LEMMA NextRemovedInv == RemovedInv /\ [Next]_vars => RemovedInv'
<1> SUFFICES ASSUME RemovedInv, [Next]_vars
             PROVE  RemovedInv'
  OBVIOUS
<1>1. ASSUME UNCHANGED <<got, merged, merge, removed>>
      PROVE  RemovedInv'
  <2>1. \A f \in removed' : \E g \in SameName(f) \cap removed' : Whole(g)'
    BY <1>1, RemovedStays
  <2> QED
    BY <1>1, <2>1 DEF RemovedInv
<1>2. ASSUME NEW f \in Files, NEW i \in Chunks(f), PushChunk(f, i)
      PROVE  RemovedInv'
  <2>1. /\ f \notin removed /\ UNCHANGED <<merged, merge, removed>>
        /\ DOMAIN got' = Files
        /\ \A g \in Files \ {f} : got'[g] = got[g]
        /\ i \in DOMAIN got'[f]
    BY <1>2 DEF PushChunk, RemovedInv
  <2>2. got'[f] # <<>>
    <3>1. DOMAIN <<>> = {}
      OBVIOUS
    <3> QED
      BY <2>1, <3>1
  <2>3. \A g \in removed' : \E h \in SameName(g) \cap removed' : Whole(h)'
    BY <2>1, RemovedStays
  <2>4. \A g \in removed' : got'[g] = <<>>
    BY <2>1 DEF RemovedInv
  <2>5. merge'.pc = "verify" => \A g \in merge'.todo : got'[g] # <<>> \/ g \in removed'
    BY <2>1, <2>2 DEF RemovedInv
  <2> QED
    BY <2>1, <2>3, <2>4, <2>5 DEF RemovedInv
<1>3. CASE StartMerge
  <2>1. /\ merge' = [pc |-> "cat", todo |-> Roots, have |-> listed # NoManifest]
        /\ UNCHANGED <<got, merged, removed>>
    BY <1>3 DEF StartMerge
  <2>2. Roots \subseteq Files /\ Roots \cap removed = {}
    BY RootHasChunks DEF RemovedInv
  <2>3. merge' \in [pc: {"idle", "cat", "verify"}, todo: SUBSET Files, have: BOOLEAN]
    BY <2>1, <2>2
  <2>4. \A g \in removed' : \E h \in SameName(g) \cap removed' : Whole(h)'
    BY <2>1, RemovedStays
  <2> QED
    BY <2>1, <2>2, <2>3, <2>4 DEF RemovedInv
<1>4. ASSUME NEW f \in Files, Concatenate(f)
      PROVE  RemovedInv'
  <2>1. /\ merge.pc = "cat" /\ f \in merge.todo
        /\ merged' = [merged EXCEPT ![f] = got[f]]
        /\ merge' = [merge EXCEPT !.todo = @ \ {f}]
        /\ UNCHANGED <<got, removed>>
    BY <1>4 DEF Concatenate
  <2>2. f \notin removed
    BY <2>1 DEF RemovedInv
  <2>3. \A g \in removed' : \E h \in SameName(g) \cap removed' : Whole(h)'
    BY <2>1, <2>2, RemovedStays DEF RemovedInv
  <2> QED
    BY <2>1, <2>3 DEF RemovedInv
<1>5. CASE StartVerify
  <2>1. /\ merge' = IF merge.have /\ python THEN [merge EXCEPT !.pc = "verify", !.todo = Roots] ELSE NotRunning
        /\ UNCHANGED <<got, merged, removed>>
    BY <1>5 DEF StartVerify
  <2>2. \A f \in Roots : f \in Files /\ got[f] # <<>>
    BY RootHasChunks
  <2>3. \A g \in removed' : \E h \in SameName(g) \cap removed' : Whole(h)'
    BY <2>1, RemovedStays
  <2>4. /\ merge' \in [pc: {"idle", "cat", "verify"}, todo: SUBSET Files, have: BOOLEAN]
        /\ merge'.pc # "cat" /\ (merge'.pc = "verify" => merge'.todo = Roots)
    BY <2>1, <2>2 DEF RemovedInv, NotRunning
  <2> QED
    BY <2>1, <2>2, <2>3, <2>4 DEF RemovedInv
<1>6. CASE MergeDies
  <2>1. merge' = NotRunning /\ UNCHANGED <<got, removed>>
    BY <1>6 DEF MergeDies
  <2>2. DOMAIN merged' = Files /\ \A g \in removed : merged'[g] = merged[g]
    BY <1>6 DEF MergeDies, RemovedInv
  <2>3. \A g \in removed' : \E h \in SameName(g) \cap removed' : Whole(h)'
    BY <2>1, <2>2, RemovedStays
  <2> QED
    BY <2>1, <2>2, <2>3 DEF RemovedInv, NotRunning
<1>7. CASE \/ WriteManifest \/ KeepManifest \/ RemoveOriginal \/ SplitDies
           \/ PushManifest \/ InstallPython
  BY <1>1, <1>7 DEF WriteManifest, KeepManifest, RemoveOriginal, SplitDies, PushManifest, InstallPython,
                    mergeVars
<1>8. ASSUME NEW f \in Files, SplitFile(f)
      PROVE  RemovedInv'
  BY <1>1, <1>8 DEF SplitFile, mergeVars
<1>9. CASE UNCHANGED vars
  BY <1>1, <1>9 DEF vars
<1> QED
  BY <1>2, <1>3, <1>4, <1>5, <1>6, <1>7, <1>8, <1>9, VerifyRemoved DEF Next, MergeStep

\* Whatever is lost, damaged, half split or half merged, and whatever the files
\* are called: chunks are gone only together with those of a file of the same
\* name that was merged and is the original.
THEOREM AlwaysRemovedForOriginal == Spec => []RemovedForOriginal
<1>1. RemovedInv => RemovedForOriginal
  BY DEF RemovedInv, RemovedForOriginal, SameName
<1> QED
  BY <1>1, InitRemovedInv, NextRemovedInv, PTL DEF Spec

\* If no two files of the directory have the same name, then the chunks of a
\* file are gone only if the merged file is the original.
THEOREM RemovedIsWhole ==
  ASSUME \A f, g \in Files : Name[f] = Name[g] => f = g
  PROVE  Spec => []RemovedMeansWhole
<1>1. RemovedInv => RemovedMeansWhole
  BY DEF RemovedInv, RemovedMeansWhole, SameName, Whole
<1> QED
  BY <1>1, InitRemovedInv, NextRemovedInv, PTL DEF Spec

=============================================================================
