----------------------------- MODULE StoreProofs -----------------------------
(***************************************************************************)
(* The safety of the two kinds of store: artifact.Store, for any calls of  *)
(* Put, contents and meddling, and the SQL stores, for any number of pools *)
(* opened one after the other and of overlapping Stops.                    *)
(***************************************************************************)
EXTENDS ArtifactStore, SqlStore, SequenceTheorems, TLAPS

Shared == {"published", "dead"}
Looking == {"open", "read", "stat", "relstat"}

(* A file at a store path is that of a call that has published it.         *)
EntryOfPublisher ==
    \A d \in Contents : entry[d] \in Puts => pc[entry[d]] \in Shared

(* A temporary file nobody else knows has what was copied.                 *)
CopyKept ==
    \A p \in Puts : pc[p] \in Validating \cup {"link"} =>
       digest[p] \in Contents /\ data[p] = digest[p]

(* What was published is there until others remove it.                     *)
StillThere ==
    \A p \in Puts : pc[p] = "published" /\ digest[p] \notin removed =>
       entry[digest[p]] = p

(* The file a call looks at: its modification time tells whether it still  *)
(* has the bytes that were read.                                           *)
LookedAt ==
    \A p \in Puts :
       /\ pc[p] \in Looking =>
             found[p] \in Puts /\ pc[found[p]] \in Shared
       /\ pc[p] \in {"read", "stat", "relstat"} =>
             opened[p] <= version[found[p]]
       /\ pc[p] \in {"stat", "relstat"} /\ opened[p] = version[found[p]] =>
             data[found[p]] = digest[p]

(* Every change others make is counted.                                    *)
Counted == \A p \in Puts : version[p] <= meddled

ArtifactInv ==
    /\ TypeOK
    /\ EntryOfPublisher
    /\ CopyKept
    /\ StillThere
    /\ LookedAt
    /\ Counted

-----------------------------------------------------------------------------
LEMMA ArtifactInit == Init => ArtifactInv
<1> SUFFICES ASSUME Init PROVE ArtifactInv
  OBVIOUS
<1> USE BoundsAssumption, FilesAssumption DEF Init
<1>1. <<>> \in Seq(Chunks) /\ Len(<<>>) = 0
  OBVIOUS
<1>2. TypeOK
  BY <1>1 DEF TypeOK
<1> QED
  BY <1>2 DEF ArtifactInv, EntryOfPublisher, CopyKept, StillThere, LookedAt,
     Counted, Validating, Looking

(* A sequence of the source's length is a content.                         *)
LEMMA WholeIsContent ==
  ASSUME NEW seq \in Seq(Chunks), Len(seq) = Length
  PROVE  seq \in Contents
BY BoundsAssumption DEF Contents

LEMMA ContentIsWhole ==
  ASSUME NEW d \in Contents
  PROVE  d \in Seq(Chunks) /\ Len(d) = Length
BY BoundsAssumption DEF Contents

(* Steps of a call that move it on and change no file.                     *)
Moves(p) ==
    \/ CreateTemp(p) \/ CopyEnd(p) \/ ValidateLstat(p) \/ ValidateOpen(p)
    \/ ValidateRead(p) \/ ValidateStatOpen(p) \/ ValidateAgain(p)
    \/ RemoveTemp(p) \/ Fail(p) \/ Crash(p)

LEMMA ArtifactKinds ==
  [Next]_vars =>
     \/ \E p \in Puts : Moves(p) \/ CopyChunk(p) \/ Link(p)
     \/ EditSource
     \/ \E d \in Contents : Unpublish(d) \/ Corrupt(d)
     \/ UNCHANGED vars
BY DEF Next, PutStep, Moves

(* Types.                                                                  *)
LEMMA ArtifactTypes == ArtifactInv /\ [Next]_vars => TypeOK'
<1> SUFFICES ASSUME ArtifactInv, [Next]_vars PROVE TypeOK'
  OBVIOUS
<1> USE BoundsAssumption, FilesAssumption
    DEF ArtifactInv, TypeOK, Goes, fileVars, checkVars, others, Validating,
        Ended
<1>1. ASSUME NEW p \in Puts, CreateTemp(p) PROVE TypeOK'
  BY <1>1 DEF CreateTemp
<1>2. ASSUME NEW p \in Puts, CopyEnd(p) PROVE TypeOK'
  <2>1. data[p] \in Contents
    BY <1>2, WholeIsContent DEF CopyEnd
  <2> QED
    BY <1>2, <2>1 DEF CopyEnd
<1>3. ASSUME NEW p \in Puts, ValidateLstat(p) PROVE TypeOK'
  BY <1>3 DEF ValidateLstat
<1>4. ASSUME NEW p \in Puts, ValidateOpen(p) PROVE TypeOK'
  <2>1. version[found[p]] \in 0 .. MaxMeddling
    BY <1>4 DEF ValidateOpen, LookedAt, Looking
  <2>2. opened' \in [Puts -> 0 .. MaxMeddling]
    BY <1>4, <2>1 DEF ValidateOpen
  <2>3. pc' \in [Puts -> {"new", "copy", "link", "dead"} \cup Validating
                            \cup Ended]
    BY <1>4 DEF ValidateOpen
  <2> QED
    BY <1>4, <2>2, <2>3 DEF ValidateOpen
<1>5. ASSUME NEW p \in Puts, ValidateRead(p) PROVE TypeOK'
  BY <1>5 DEF ValidateRead
<1>6. ASSUME NEW p \in Puts, ValidateStatOpen(p) PROVE TypeOK'
  BY <1>6 DEF ValidateStatOpen
<1>7. ASSUME NEW p \in Puts, ValidateAgain(p) PROVE TypeOK'
  BY <1>7 DEF ValidateAgain
<1>8. ASSUME NEW p \in Puts, RemoveTemp(p) PROVE TypeOK'
  BY <1>8 DEF RemoveTemp
<1>9. ASSUME NEW p \in Puts, Fail(p) PROVE TypeOK'
  BY <1>9 DEF Fail
<1>10. ASSUME NEW p \in Puts, Crash(p) PROVE TypeOK'
  BY <1>10 DEF Crash
<1>11. ASSUME NEW p \in Puts, CopyChunk(p) PROVE TypeOK'
  <2> DEFINE chunk == source[Len(data[p]) + 1]
             longer == Append(data[p], chunk)
  <2>1. chunk \in Chunks
    BY <1>11, ContentIsWhole, ElementOfSeq DEF CopyChunk
  <2>2. longer \in Seq(Chunks) /\ Len(longer) = Len(data[p]) + 1
    BY <2>1, AppendProperties
  <2>3. data' = [data EXCEPT ![p] = longer] /\ Len(longer) <= Length
    BY <1>11, <2>2 DEF CopyChunk
  <2> HIDE DEF longer
  <2> QED
    BY <1>11, <2>2, <2>3 DEF CopyChunk
<1>12. ASSUME NEW p \in Puts, Link(p) PROVE TypeOK'
  <2>1. entry' \in [Contents -> Puts \cup {Irregular, NoFile}]
    <3>1. CASE entry' = entry
      BY <3>1
    <3>2. CASE entry' = [entry EXCEPT ![digest[p]] = p]
      BY <3>2
    <3> QED
      BY <1>12, <3>1, <3>2 DEF Link
  <2>2. pc' \in [Puts -> {"new", "copy", "link", "dead"} \cup Validating
                            \cup Ended]
    BY <1>12 DEF Link
  <2> QED
    BY <1>12, <2>1, <2>2 DEF Link
<1>13. CASE EditSource
  <2>1. source' \in Contents
    BY <1>13 DEF EditSource, Contents
  <2> QED
    BY <1>13, <2>1 DEF EditSource
<1>14. ASSUME NEW d \in Contents, Unpublish(d) PROVE TypeOK'
  BY <1>14 DEF Unpublish
<1>15. ASSUME NEW d \in Contents, Corrupt(d) PROVE TypeOK'
  <2> DEFINE f == entry[d]
  <2>1. PICK bytes \in {<<>>, d} : data' = [data EXCEPT ![f] = bytes]
    BY <1>15 DEF Corrupt
  <2>2. bytes \in Seq(Chunks) /\ Len(bytes) <= Length
    <3>1. d \in Seq(Chunks) /\ Len(d) <= Length
      BY ContentIsWhole
    <3>2. <<>> \in Seq(Chunks) /\ Len(<<>>) <= Length
      OBVIOUS
    <3> QED
      BY <3>1, <3>2
  <2>3. version[f] + 1 \in 0 .. MaxMeddling
    BY <1>15 DEF Corrupt, Counted
  <2> QED
    BY <1>15, <2>1, <2>2, <2>3 DEF Corrupt
<1>16. CASE UNCHANGED vars
  BY <1>16 DEF vars
<1> QED
  BY <1>1, <1>2, <1>3, <1>4, <1>5, <1>6, <1>7, <1>8, <1>9, <1>10, <1>11,
     <1>12, <1>13, <1>14, <1>15, <1>16, ArtifactKinds DEF Moves

(* The rest of the invariant.                                              *)
LEMMA ArtifactStep == ArtifactInv /\ [Next]_vars => ArtifactInv'
<1> SUFFICES ASSUME ArtifactInv, [Next]_vars
             PROVE  /\ EntryOfPublisher' /\ CopyKept' /\ StillThere'
                    /\ LookedAt' /\ Counted'
  BY ArtifactTypes DEF ArtifactInv
<1> USE BoundsAssumption, FilesAssumption
    DEF ArtifactInv, TypeOK, Goes, fileVars, checkVars, others, Validating,
        Ended, Looking, Shared, EntryOfPublisher, CopyKept, StillThere,
        LookedAt, Counted
<1> DEFINE Rest == /\ EntryOfPublisher' /\ CopyKept' /\ StillThere'
                   /\ LookedAt' /\ Counted'
<1>0. ASSUME NEW p \in Puts, pc[p] \notin Shared, NEW place \in {"existing", "failed"},
             Goes(p, place),
             UNCHANGED <<data, version, entry, digest, found, opened, removed, meddled>>
      PROVE  Rest
  <2>1. pc'[p] = place /\ \A q \in Puts : q # p => pc'[q] = pc[q]
    BY <1>0
  <2>2. \A q \in Puts : pc[q] \in Shared => pc'[q] = pc[q]
    BY <1>0, <2>1
  <2>3. EntryOfPublisher'
    BY <1>0, <2>2
  <2>4. CopyKept' /\ StillThere' /\ Counted'
    BY <1>0, <2>1
  <2>5. LookedAt'
    BY <1>0, <2>1, <2>2
  <2> QED
    BY <2>3, <2>4, <2>5
<1>1. ASSUME NEW p \in Puts, CreateTemp(p) PROVE Rest
  BY <1>1 DEF CreateTemp
<1>2. ASSUME NEW p \in Puts, CopyEnd(p) PROVE Rest
  <2>1. data[p] \in Contents
    BY <1>2, WholeIsContent DEF CopyEnd
  <2> QED
    BY <1>2, <2>1 DEF CopyEnd
<1>3. ASSUME NEW p \in Puts, ValidateLstat(p) PROVE Rest
  <2> DEFINE f == entry[digest[p]]
  <2>1. digest[p] \in Contents /\ pc[p] = "lstat"
    BY <1>3 DEF ValidateLstat
  <2>2. /\ UNCHANGED <<data, version, entry, digest, opened, removed, meddled>>
        /\ \A q \in Puts : q # p => pc'[q] = pc[q] /\ found'[q] = found[q]
        /\ \/ pc'[p] \in {"link", "failed"}
           \/ pc'[p] = "open" /\ found'[p] = f /\ f \in Puts
    BY <1>3 DEF ValidateLstat
  <2>3. f \in Puts => pc[f] \in Shared /\ f # p
    BY <2>1
  <2> HIDE DEF f
  <2>4. \A q \in Puts : pc[q] \in Shared => pc'[q] = pc[q]
    BY <2>1, <2>2
  <2>5. EntryOfPublisher'
    BY <2>2, <2>4
  <2>6. CopyKept' /\ StillThere' /\ Counted'
    BY <2>1, <2>2
  <2>7. LookedAt'
    <3>1. pc'[p] \in Looking =>
             /\ pc'[p] = "open" /\ found'[p] \in Puts
             /\ pc'[found'[p]] \in Shared
      BY <2>2, <2>3, <2>4
    <3>2. ASSUME NEW q \in Puts, q # p
          PROVE  /\ pc'[q] \in Looking =>
                       found'[q] \in Puts /\ pc'[found'[q]] \in Shared
                 /\ pc'[q] = pc[q] /\ found'[q] = found[q]
      BY <2>2, <2>4, <3>2
    <3>3. UNCHANGED <<data, version, digest, opened>>
      BY <2>2
    <3>4. ASSUME NEW q \in Puts, q # p
          PROVE  /\ pc'[q] \in {"read", "stat", "relstat"} =>
                       opened'[q] <= version'[found'[q]]
                 /\ pc'[q] \in {"stat", "relstat"} /\ opened'[q] = version'[found'[q]] =>
                       data'[found'[q]] = digest'[q]
      BY <3>2, <3>3, <3>4
    <3>5. pc'[p] \notin {"read", "stat", "relstat"}
      BY <2>2
    <3> QED
      BY <3>1, <3>2, <3>4, <3>5
  <2> QED
    BY <2>5, <2>6, <2>7
<1>4. ASSUME NEW p \in Puts, ValidateOpen(p) PROVE Rest
  <2>1. /\ pc[p] = "open" /\ found[p] \in Puts /\ pc'[p] \in {"read", "failed"}
        /\ pc'[p] = "read" => opened'[p] = version[found[p]]
        /\ UNCHANGED <<data, version, entry, digest, found, removed, meddled>>
        /\ \A q \in Puts : q # p => pc'[q] = pc[q] /\ opened'[q] = opened[q]
    BY <1>4 DEF ValidateOpen
  <2>2. \A q \in Puts : pc[q] \in Shared => pc'[q] = pc[q]
    BY <2>1
  <2>3. EntryOfPublisher'
    BY <2>1, <2>2
  <2>4. CopyKept' /\ StillThere' /\ Counted'
    BY <2>1
  <2>5. LookedAt'
    <3>1. /\ pc'[p] \in Looking => found'[p] \in Puts /\ pc'[found'[p]] \in Shared
          /\ pc'[p] = "read" => opened'[p] <= version'[found'[p]]
          /\ pc'[p] \notin {"stat", "relstat"}
      <4>1. pc[found[p]] \in Shared /\ version[found[p]] \in Nat
        BY <2>1
      <4>2. /\ pc'[p] = "read" => opened'[p] <= version[found[p]]
            /\ pc'[p] \notin {"stat", "relstat"}
        BY <2>1, <4>1
      <4> QED
        BY <2>1, <2>2, <4>1, <4>2
    <3>2. ASSUME NEW q \in Puts, q # p
          PROVE  /\ pc'[q] \in Looking => found'[q] \in Puts /\ pc'[found'[q]] \in Shared
                 /\ pc'[q] = pc[q] /\ opened'[q] = opened[q]
      BY <2>1, <2>2, <3>2
    <3>3. UNCHANGED <<data, version, digest, found>>
      BY <2>1
    <3>4. ASSUME NEW q \in Puts, q # p
          PROVE  /\ pc'[q] \in {"read", "stat", "relstat"} =>
                       opened'[q] <= version'[found'[q]]
                 /\ pc'[q] \in {"stat", "relstat"} /\ opened'[q] = version'[found'[q]] =>
                       data'[found'[q]] = digest'[q]
      BY <3>2, <3>3, <3>4
    <3> QED
      BY <3>1, <3>2, <3>4
  <2> QED
    BY <2>3, <2>4, <2>5
<1>5. ASSUME NEW p \in Puts, ValidateRead(p) PROVE Rest
  <2>1. /\ pc[p] = "read" /\ pc'[p] \in {"stat", "failed"}
        /\ pc'[p] = "stat" => data[found[p]] = digest[p]
        /\ \A q \in Puts : q # p => pc'[q] = pc[q]
        /\ UNCHANGED <<fileVars, digest, checkVars, others>>
    BY <1>5 DEF ValidateRead
  <2>2. \A q \in Puts : pc[q] \in Shared => pc'[q] = pc[q]
    BY <2>1
  <2>3. EntryOfPublisher' /\ CopyKept'
    BY <2>1, <2>2
  <2>4. StillThere' /\ Counted'
    BY <2>1
  <2>5. LookedAt'
    <3>1. UNCHANGED <<data, version, digest, found, opened>>
      BY <2>1
    <3>2. \A q \in Puts : pc'[q] \in Looking =>
             found[q] \in Puts /\ pc'[found[q]] \in Shared
      BY <2>1, <2>2
    <3>3. /\ opened[p] <= version[found[p]]
          /\ pc'[p] \in {"stat", "relstat"} => data[found[p]] = digest[p]
      BY <2>1
    <3>4. ASSUME NEW q \in Puts, q # p, pc'[q] \in {"read", "stat", "relstat"}
          PROVE  /\ opened[q] <= version[found[q]]
                 /\ pc'[q] \in {"stat", "relstat"} /\ opened[q] = version[found[q]] =>
                       data[found[q]] = digest[q]
      BY <2>1, <3>4
    <3> QED
      BY <3>1, <3>2, <3>3, <3>4
  <2> QED
    BY <2>3, <2>4, <2>5
<1>6. ASSUME NEW p \in Puts, ValidateStatOpen(p) PROVE Rest
  BY <1>6 DEF ValidateStatOpen
<1>7. ASSUME NEW p \in Puts, ValidateAgain(p) PROVE Rest
  <2>1. \E place \in {"existing", "failed"} : Goes(p, place)
    BY <1>7 DEF ValidateAgain
  <2>2. pc[p] \notin Shared
    BY <1>7 DEF ValidateAgain
  <2>3. UNCHANGED <<data, version, entry, digest, found, opened, removed, meddled>>
    BY <1>7 DEF ValidateAgain
  <2> QED
    BY <1>0, <2>1, <2>2, <2>3
<1>8. ASSUME NEW p \in Puts, RemoveTemp(p) PROVE Rest
  BY <1>8 DEF RemoveTemp
<1>9. ASSUME NEW p \in Puts, Fail(p) PROVE Rest
  <2>1. Goes(p, "failed") /\ pc[p] \notin Shared
    BY <1>9 DEF Fail
  <2>2. UNCHANGED <<data, version, entry, digest, found, opened, removed, meddled>>
    BY <1>9 DEF Fail
  <2> QED
    BY <1>0, <2>1, <2>2
<1>10. ASSUME NEW p \in Puts, Crash(p) PROVE Rest
  BY <1>10 DEF Crash
<1>11. ASSUME NEW p \in Puts, CopyChunk(p) PROVE Rest
  <2>1. \A f \in Puts : f # p => data'[f] = data[f]
    BY <1>11 DEF CopyChunk
  <2> QED
    BY <1>11, <2>1 DEF CopyChunk
<1>12. ASSUME NEW p \in Puts, Link(p) PROVE Rest
  <2> DEFINE d == digest[p]
  <2>1. /\ pc[p] = "link" /\ d \in Contents
        /\ UNCHANGED <<data, version, digest, found, opened, removed, meddled>>
        /\ \A q \in Puts : q # p => pc'[q] = pc[q]
    BY <1>12 DEF Link
  <2>2. \A q \in Puts : pc[q] \in Shared => pc'[q] = pc[q]
    BY <2>1
  <2>3. CASE entry[d] = NoFile /\ Goes(p, "published")
             /\ entry' = [entry EXCEPT ![d] = p]
    <3>1. /\ pc'[p] = "published" /\ entry'[d] = p
          /\ \A c \in Contents : c # d => entry'[c] = entry[c]
      BY <2>1, <2>3
    <3>2. EntryOfPublisher'
      <4> SUFFICES ASSUME NEW c \in Contents, entry'[c] \in Puts
                   PROVE  pc'[entry'[c]] \in Shared
        OBVIOUS
      <4>1. CASE c = d
        BY <3>1, <4>1
      <4>2. CASE c # d
        <5>1. entry'[c] = entry[c] /\ entry[c] \in Puts
          BY <3>1, <4>2
        <5>2. pc[entry[c]] \in Shared
          BY <5>1 DEF EntryOfPublisher
        <5> QED
          BY <2>2, <5>1, <5>2
      <4> QED
        BY <4>1, <4>2
    <3>3. StillThere'
      <4> SUFFICES ASSUME NEW q \in Puts, pc'[q] = "published",
                          digest[q] \notin removed
                   PROVE  entry'[digest[q]] = q
        BY <2>1
      <4>1. CASE q = p
        BY <3>1, <4>1
      <4>2. CASE q # p
        <5>1. entry[digest[q]] = q
          BY <2>1, <4>2
        <5>2. digest[q] # d
          BY <2>3, <5>1
        <5> QED
          BY <2>3, <5>1, <5>2
      <4> QED
        BY <4>1, <4>2
    <3>4. CopyKept' /\ Counted'
      BY <2>1, <3>1
    <3>5. LookedAt'
      BY <2>1, <2>2, <3>1
    <3> QED
      BY <3>2, <3>3, <3>4, <3>5
  <2>4. CASE Goes(p, "lstat") /\ UNCHANGED entry
    <3>1. pc'[p] = "lstat"
      BY <2>4
    <3>2. EntryOfPublisher'
      BY <2>2, <2>4
    <3>3. CopyKept' /\ StillThere' /\ Counted'
      BY <2>1, <2>4, <3>1
    <3>4. LookedAt'
      BY <2>1, <2>2, <3>1
    <3> QED
      BY <3>2, <3>3, <3>4
  <2> QED
    BY <1>12, <2>3, <2>4 DEF Link
<1>13. CASE EditSource
  BY <1>13 DEF EditSource
<1>14. ASSUME NEW d \in Contents, Unpublish(d) PROVE Rest
  BY <1>14 DEF Unpublish
<1>15. ASSUME NEW d \in Contents, Corrupt(d) PROVE Rest
  <2>1. /\ version' = [version EXCEPT ![entry[d]] = @ + 1]
        /\ \A f \in Puts : f # entry[d] => data'[f] = data[f]
        /\ entry[d] \in Puts /\ meddled' = meddled + 1
        /\ UNCHANGED <<temp, entry, pc, digest, checkVars, removed>>
    BY <1>15 DEF Corrupt
  <2>2. \A f \in Puts : f # entry[d] => version'[f] = version[f]
    BY <2>1
  <2>3. version'[entry[d]] = version[entry[d]] + 1 /\ pc[entry[d]] \in Shared
    BY <2>1
  <2>4. EntryOfPublisher' /\ StillThere'
    BY <2>1
  <2>5. CopyKept'
    BY <2>1, <2>3
  <2>6. Counted'
    BY <2>1, <2>2, <2>3
  <2>7. LookedAt'
    BY <2>1, <2>2, <2>3
  <2> QED
    BY <2>4, <2>5, <2>6, <2>7
<1>16. CASE UNCHANGED vars
  BY <1>16 DEF vars
<1> QED
  BY <1>1, <1>2, <1>3, <1>4, <1>5, <1>6, <1>7, <1>8, <1>9, <1>10, <1>11,
     <1>12, <1>13, <1>14, <1>15, <1>16, ArtifactKinds DEF Moves

THEOREM ArtifactSafe == Spec => []ArtifactInv
BY ArtifactInit, ArtifactStep, PTL DEF Spec

(* Of all the calls with the same bytes one publishes: os.Link in Put      *)
(* never replaces an entry.                                                *)
THEOREM ArtifactOnePublisher == Spec => []OnePublisher
<1>1. ArtifactInv => OnePublisher
  BY DEF ArtifactInv, StillThere, OnePublisher
<1> QED
  BY ArtifactSafe, <1>1, PTL

(* Success means that the returned path holds the bytes that were copied:  *)
(* copyAndDigest, os.Link and validateStoredArtifact.                      *)
THEOREM ArtifactSuccess == Spec => SuccessMeansStored
<1>1. ASSUME ArtifactInv, [Next]_vars, NEW p \in Puts,
             pc[p] # pc'[p], pc'[p] \in {"existing", "published"}
      PROVE  LET f == entry'[digest[p]]
             IN f \in Puts /\ data'[f] = digest[p] /\ data'[f] = data'[p]
  <2> USE DEF ArtifactInv, TypeOK, Goes, fileVars, checkVars, others
  <2>1. \/ /\ Link(p) /\ entry[digest[p]] = NoFile
        \/ /\ ValidateAgain(p) /\ entry[digest[p]] = found[p]
           /\ version[found[p]] = opened[p]
    <3>1. ASSUME NEW q \in Puts, Moves(q) \/ CopyChunk(q) \/ Link(q)
          PROVE  q = p
      BY <1>1, <3>1 DEF Moves, CreateTemp, CopyEnd, ValidateLstat,
         ValidateOpen, ValidateRead, ValidateStatOpen, ValidateAgain,
         RemoveTemp, Fail, Crash, CopyChunk, Link
    <3>2. Moves(p) \/ CopyChunk(p) \/ Link(p)
      BY <1>1, <3>1, ArtifactKinds DEF EditSource, Unpublish, Corrupt, vars
    <3> QED
      BY <1>1, <3>2 DEF Moves, CreateTemp, CopyEnd, ValidateLstat,
         ValidateOpen, ValidateRead, ValidateStatOpen, ValidateAgain,
         RemoveTemp, Fail, Crash, CopyChunk, Link
  <2>2. pc[p] \in {"link", "relstat"} /\ data' = data
    BY <2>1 DEF Link, ValidateAgain
  <2>3. digest[p] \in Contents /\ data[p] = digest[p]
    BY <1>1, <2>2 DEF CopyKept, Validating
  <2>4. CASE Link(p) /\ entry[digest[p]] = NoFile
    <3>1. entry' = [entry EXCEPT ![digest[p]] = p]
      BY <2>4 DEF Link
    <3>2. entry'[digest[p]] = p
      BY <1>1, <2>3, <3>1
    <3> QED
      BY <2>2, <2>3, <3>2
  <2>5. CASE /\ ValidateAgain(p) /\ entry[digest[p]] = found[p]
             /\ version[found[p]] = opened[p]
    <3>1. entry' = entry /\ pc[p] = "relstat"
      BY <2>5 DEF ValidateAgain
    <3>2. found[p] \in Puts /\ data[found[p]] = digest[p]
      BY <1>1, <2>5, <3>1 DEF LookedAt, Looking
    <3> QED
      BY <2>2, <2>3, <2>5, <3>1, <3>2
  <2> QED
    BY <2>1, <2>4, <2>5
<1>2. ArtifactInv /\ [Next]_vars =>
         [\A p \in Puts :
            pc[p] # pc'[p] /\ pc'[p] \in {"existing", "published"} =>
               LET f == entry'[digest[p]]
               IN f \in Puts /\ data'[f] = digest[p] /\ data'[f] = data'[p]]_vars
  BY <1>1
<1> QED
  BY ArtifactSafe, <1>2, PTL DEF Spec, SuccessMeansStored
-----------------------------------------------------------------------------
(* The SQL stores: one pool at a time, and none forgotten.                 *)
(* While Start runs nothing is published or tracked, and no Stop runs.     *)
StartAlone ==
    starter # "idle" =>
       NoStop /\ db = None /\ closing = None

StartHasPool ==
    starter = "migrating" => opens \in Pools /\ pool[opens] = "open"

PublishedOpen == db # None => pool[db] = "open" /\ closing = None

(* A pool that is not closed is one of those the store knows.              *)
Tracked ==
    \A g \in Pools :
       /\ pool[g] = "open" => g = db \/ (starter = "migrating" /\ g = opens)
       /\ pool[g] = "closing" => g = closing

(* A Stop that got past its select has seen its pool closed.               *)
ClearingClosed ==
    \A p \in Stops :
       /\ stop[p] # "idle" => waitsFor[p] # None
       /\ stop[p] = "clearing" => pool[waitsFor[p]] = "closed"

SqlInv ==
    /\ SqlTypeOK
    /\ StartAlone
    /\ StartHasPool
    /\ PublishedOpen
    /\ Tracked
    /\ ClearingClosed
    /\ CloseErrorKept

(* The initial state.                                                      *)
LEMMA SqlStarts == SqlInit => SqlInv
BY OpensAssumption DEF SqlInit, SqlInv, SqlTypeOK, StartAlone, StartHasPool,
   PublishedOpen, Tracked, ClearingClosed, CloseErrorKept, None, NoStop

(* Every step of Start, Stop and the closing goroutine.                    *)
LEMMA SqlPreserved == SqlInv /\ [SqlNext]_sqlVars => SqlInv'
<1> SUFFICES ASSUME SqlInv, [SqlNext]_sqlVars PROVE SqlInv'
  OBVIOUS
<1> USE OpensAssumption
<1> USE DEF SqlInv, SqlTypeOK, StartAlone, StartHasPool, PublishedOpen,
            Tracked, ClearingClosed, None, Pools, NoStop
<1>1. CASE StartCheck
  <2>1. closing # None => pool[closing] = "closed"
    BY <1>1 DEF StartCheck, CloseInProgress
  <2>2. CloseErrorKept'
    BY <1>1 DEF StartCheck, CloseErrorKept
  <2>3. SqlTypeOK'
    BY <1>1 DEF StartCheck
  <2> QED
    BY <1>1, <2>1, <2>2, <2>3 DEF StartCheck
<1>2. CASE StartOpen
  <2>1. CloseErrorKept'
    BY <1>2 DEF StartOpen, CloseErrorKept
  <2>2. SqlTypeOK'
    BY <1>2 DEF StartOpen
  <2> QED
    BY <1>2, <2>1, <2>2 DEF StartOpen
<1>3. CASE StartFail
  <2>1. CloseErrorKept'
    BY <1>3 DEF StartFail, CloseErrorKept
  <2>2. SqlTypeOK'
    BY <1>3 DEF StartFail
  <2> QED
    BY <1>3, <2>1, <2>2 DEF StartFail
<1>4. CASE StartPublish
  <2>1. CloseErrorKept'
    BY <1>4 DEF StartPublish, CloseErrorKept
  <2> QED
    BY <1>4, <2>1 DEF StartPublish
<1>5. ASSUME NEW g \in Pools, CloseDone(g) PROVE SqlInv'
  <2>1. closing = g /\ db = None
    BY <1>5 DEF CloseDone
  <2>2. CloseErrorKept'
    BY <1>5, <2>1 DEF CloseDone, CloseErrorKept
  <2>3. SqlTypeOK'
    BY <1>5 DEF CloseDone
  <2> QED
    BY <1>5, <2>1, <2>2, <2>3 DEF CloseDone
<1>6. ASSUME NEW p \in Stops, StopBegin(p) PROVE SqlInv'
  <2>1. CloseErrorKept'
    BY <1>6 DEF StopBegin, CloseErrorKept
  <2>2. SqlTypeOK'
    BY <1>6 DEF StopBegin
  <2> QED
    BY <1>6, <2>1, <2>2 DEF StopBegin
<1>7. ASSUME NEW p \in Stops, StopSees(p) PROVE SqlInv'
  <2>1. CloseErrorKept'
    BY <1>7 DEF StopSees, CloseErrorKept
  <2> QED
    BY <1>7, <2>1 DEF StopSees
<1>8. ASSUME NEW p \in Stops, StopExpire(p) PROVE SqlInv'
  <2>1. CloseErrorKept'
    BY <1>8 DEF StopExpire, CloseErrorKept
  <2> QED
    BY <1>8, <2>1 DEF StopExpire
<1>9. ASSUME NEW p \in Stops, StopClear(p) PROVE SqlInv'
  <2>1. CloseErrorKept'
    BY <1>9 DEF StopClear, CloseErrorKept
  <2>2. SqlTypeOK'
    BY <1>9 DEF StopClear
  <2> QED
    BY <1>9, <2>1, <2>2 DEF StopClear
<1>10. CASE UNCHANGED sqlVars
  BY <1>10 DEF sqlVars, CloseErrorKept
<1> QED
  BY <1>1, <1>2, <1>3, <1>4, <1>5, <1>6, <1>7, <1>8, <1>9, <1>10 DEF SqlNext

LEMMA SqlSafe == SqlSpec => []SqlInv
BY SqlStarts, SqlPreserved, PTL DEF SqlSpec

(* No pool is leaked, no two coexist, even if Stop gave up on a close, and *)
(* DB hands out open pools only.                                           *)
THEOREM OnePool == SqlSpec => []OnePoolTracked
<1>1. SqlInv => OnePoolTracked
  BY DEF SqlInv, StartAlone, PublishedOpen, Tracked, SqlTypeOK, Pools, None,
     OnePoolTracked
<1> QED
  BY <1>1, SqlSafe, PTL

(* A delayed close error reaches a Stop or the next Start.                 *)
THEOREM CloseErrorsKept == SqlSpec => []CloseErrorKept
BY SqlSafe, PTL DEF SqlInv
==============================================================================
