---------------------------- MODULE ArtifactStore ----------------------------
(***************************************************************************)
(* artifact.Store.Put (artifact/artifact.go): concurrent calls copy a      *)
(* source file into temporary files of one store and publish them under    *)
(* the digest of what they copied.  Every system call is a step.  Others   *)
(* edit the source meanwhile and may meddle with the published files.      *)
(*                                                                         *)
(* A content stands for its own digest.  A write to a file changes its     *)
(* modification time, which is what validateStoredArtifact relies on.      *)
(***************************************************************************)
EXTENDS Integers, Sequences, FiniteSets

CONSTANTS
    Puts,        \* calls of Put; each names its temporary file, too
    Chunks,      \* what a read of the source returns
    Length,      \* chunks in the source
    Irregular,   \* a symbolic link or directory at a store path
    NoFile,
    MaxMeddling  \* bound: changes others make to the store

ASSUME FilesAssumption == {Irregular, NoFile} \cap Puts = {} /\ Irregular # NoFile
ASSUME BoundsAssumption == Length \in Nat \ {0} /\ MaxMeddling \in Nat

Contents == [1 .. Length -> Chunks]

VARIABLES
    source,    \* content of the source file
    data,      \* each temporary file's bytes, also once published
    version,   \* ... and modification time
    temp,      \* each temporary name: "none", "there", "removed", "left"
    entry,     \* the file at each digest's store path
    pc,        \* where each Put is
    digest,    \* what it copied
    found,     \* the file validateStoredArtifact looks at
    opened,    \* ... and its version when it was opened
    removed,   \* digests whose entry others have removed or replaced
    meddled    \* changes others have made

vars == <<source, data, version, temp, entry, pc, digest, found,
          opened, removed, meddled>>
fileVars == <<data, version, temp, entry>>
checkVars == <<found, opened>>
others == <<source, removed, meddled>>

Ended == {"existing", "published", "failed"}
Validating == {"lstat", "open", "read", "stat", "relstat"}

TypeOK ==
    /\ source \in Contents
    /\ data \in [Puts -> Seq(Chunks)]
    /\ \A p \in Puts : Len(data[p]) <= Length
    /\ version \in [Puts -> 0 .. MaxMeddling]
    /\ temp \in [Puts -> {"none", "there", "removed", "left"}]
    /\ entry \in [Contents -> Puts \cup {Irregular, NoFile}]
    /\ pc \in [Puts -> {"new", "copy", "link", "dead"} \cup Validating \cup Ended]
    /\ digest \in [Puts -> Contents \cup {<<>>}]
    /\ found \in [Puts -> Puts \cup {NoFile}]
    /\ opened \in [Puts -> 0 .. MaxMeddling]
    /\ removed \subseteq Contents
    /\ meddled \in 0 .. MaxMeddling

Init ==
    /\ source \in Contents
    /\ data = [p \in Puts |-> <<>>]
    /\ version = [p \in Puts |-> 0]
    /\ temp = [p \in Puts |-> "none"]
    /\ entry = [d \in Contents |-> NoFile]
    /\ pc = [p \in Puts |-> "new"]
    /\ digest = [p \in Puts |-> <<>>]
    /\ found = [p \in Puts |-> NoFile]
    /\ opened = [p \in Puts |-> 0]
    /\ removed = {}
    /\ meddled = 0

Goes(p, place) == pc' = [pc EXCEPT ![p] = place]

-----------------------------------------------------------------------------
(* os.CreateTemp.                                                          *)
CreateTemp(p) ==
    /\ pc[p] = "new"
    /\ temp' = [temp EXCEPT ![p] = "there"]
    /\ Goes(p, "copy")
    /\ UNCHANGED <<data, version, entry, digest, checkVars, others>>

(* copyAndDigest: one turn of its loop, which writes what it read to the   *)
(* file and to the hash.                                                   *)
CopyChunk(p) ==
    /\ pc[p] = "copy"
    /\ Len(data[p]) < Length
    /\ data' = [data EXCEPT ![p] = Append(@, source[Len(@) + 1])]
    /\ UNCHANGED <<version, temp, entry, pc, digest, checkVars, others>>

(* mutant: the digest is that of the source, read once more.               *)
CopyEndRereading(p) ==
    /\ pc[p] = "copy"
    /\ Len(data[p]) = Length
    /\ digest' = [digest EXCEPT ![p] = source]
    /\ Goes(p, "lstat")
    /\ UNCHANGED <<fileVars, checkVars, others>>

(* The end of the source; Path names the store path.                       *)
CopyEnd(p) ==
    /\ pc[p] = "copy"
    /\ Len(data[p]) = Length
    /\ digest' = [digest EXCEPT ![p] = data[p]]
    /\ Goes(p, "lstat")
    /\ UNCHANGED <<fileVars, checkVars, others>>

-----------------------------------------------------------------------------
(* mutant: os.Stat, to which a dangling symbolic link does not exist.      *)
ValidateStat(p) ==
    /\ pc[p] = "lstat"
    /\ LET f == entry[digest[p]]
       IN \/ /\ f \in {NoFile, Irregular} /\ Goes(p, "link")
             /\ UNCHANGED found
          \/ /\ f \in Puts /\ Goes(p, "open")
             /\ found' = [found EXCEPT ![p] = f]
    /\ UNCHANGED <<fileVars, digest, opened, others>>

(* validateStoredArtifact: os.Lstat of the store path.  No entry: on to    *)
(* the loop, or once more through it.                                      *)
ValidateLstat(p) ==
    /\ pc[p] = "lstat"
    /\ LET f == entry[digest[p]]
       IN \/ /\ f = NoFile /\ Goes(p, "link")
             /\ UNCHANGED found
          \/ /\ f = Irregular /\ Goes(p, "failed")
             /\ UNCHANGED found
          \/ /\ f \in Puts /\ Goes(p, "open")
             /\ found' = [found EXCEPT ![p] = f]
    /\ UNCHANGED <<fileVars, digest, opened, others>>

(* os.Open and Stat: it must be the same file.                             *)
ValidateOpen(p) ==
    /\ pc[p] = "open"
    /\ \/ /\ entry[digest[p]] = found[p]
          /\ opened' = [opened EXCEPT ![p] = version[found[p]]]
          /\ Goes(p, "read")
       \/ entry[digest[p]] # found[p] /\ Goes(p, "failed") /\ UNCHANGED opened
    /\ UNCHANGED <<fileVars, digest, found, others>>

(* Digest and size.                                                        *)
ValidateRead(p) ==
    /\ pc[p] = "read"
    /\ Goes(p, IF data[found[p]] = digest[p] THEN "stat" ELSE "failed")
    /\ UNCHANGED <<fileVars, digest, checkVars, others>>

(* Stat of the open file: it has not been written to meanwhile.            *)
ValidateStatOpen(p) ==
    /\ pc[p] = "stat"
    /\ Goes(p, IF version[found[p]] = opened[p] THEN "relstat" ELSE "failed")
    /\ UNCHANGED <<fileVars, digest, checkVars, others>>

(* os.Lstat again: the same file, not written to since.                    *)
ValidateAgain(p) ==
    /\ pc[p] = "relstat"
    /\ Goes(p, IF entry[digest[p]] = found[p] /\ version[found[p]] = opened[p]
               THEN "existing" ELSE "failed")
    /\ UNCHANGED <<fileVars, digest, checkVars, others>>

-----------------------------------------------------------------------------
(* mutant: os.Rename publishes, which replaces an existing entry.          *)
LinkReplacing(p) ==
    /\ pc[p] = "link"
    /\ entry' = [entry EXCEPT ![digest[p]] = p]
    /\ Goes(p, "published")
    /\ UNCHANGED <<data, version, temp, digest, checkVars, others>>

(* One turn of the loop: os.Link, which never replaces an entry.           *)
Link(p) ==
    /\ pc[p] = "link"
    /\ \/ /\ entry[digest[p]] = NoFile
          /\ entry' = [entry EXCEPT ![digest[p]] = p]
          /\ Goes(p, "published")
       \/ entry[digest[p]] # NoFile /\ Goes(p, "lstat") /\ UNCHANGED entry
    /\ UNCHANGED <<data, version, temp, digest, checkVars, others>>

(* A system call fails, or one of the two loops sees that the context has  *)
(* ended.                                                                  *)
Fail(p) ==
    /\ pc[p] \in {"new", "copy", "link"} \cup Validating
    /\ Goes(p, "failed")
    /\ UNCHANGED <<fileVars, digest, checkVars, others>>

(* The deferred os.Remove, whose error Put does not look at.               *)
RemoveTemp(p) ==
    /\ pc[p] \in Ended
    /\ temp[p] = "there"
    /\ \E end \in {"removed", "left"} : temp' = [temp EXCEPT ![p] = end]
    /\ UNCHANGED <<data, version, entry, pc, digest, checkVars, others>>

PutStep(p) ==
    \/ CreateTemp(p) \/ CopyChunk(p) \/ CopyEnd(p)
    \/ ValidateLstat(p) \/ ValidateOpen(p) \/ ValidateRead(p)
    \/ ValidateStatOpen(p) \/ ValidateAgain(p)
    \/ Link(p) \/ RemoveTemp(p)

-----------------------------------------------------------------------------
(* The process that runs this Put dies.                                    *)
Crash(p) ==
    /\ pc[p] # "dead"
    /\ Goes(p, "dead")
    /\ UNCHANGED <<fileVars, digest, checkVars, others>>

EditSource ==
    /\ \E i \in 1 .. Length, c \in Chunks : source' = [source EXCEPT ![i] = c]
    /\ UNCHANGED <<fileVars, pc, digest, checkVars, removed, meddled>>

(* Others remove an entry, put something irregular in its place, or write  *)
(* to it.                                                                  *)
Unpublish(d) ==
    /\ meddled < MaxMeddling
    /\ entry[d] # NoFile
    /\ \E f \in {NoFile, Irregular} : entry' = [entry EXCEPT ![d] = f]
    /\ removed' = removed \cup {d}
    /\ meddled' = meddled + 1
    /\ UNCHANGED <<source, data, version, temp, pc, digest, checkVars>>

Corrupt(d) ==
    /\ meddled < MaxMeddling
    /\ entry[d] \in Puts
    /\ \E bytes \in {<<>>, d} : data' = [data EXCEPT ![entry[d]] = bytes]
    /\ version' = [version EXCEPT ![entry[d]] = @ + 1]
    /\ meddled' = meddled + 1
    /\ UNCHANGED <<source, temp, entry, pc, digest, checkVars, removed>>

Next ==
    \/ \E p \in Puts : PutStep(p) \/ Fail(p) \/ Crash(p)
    \/ EditSource
    \/ \E d \in Contents : Unpublish(d) \/ Corrupt(d)

Spec == Init /\ [][Next]_vars

(* A Put runs to its end unless its process dies.                          *)
Fairness == \A p \in Puts : WF_vars(PutStep(p))

FairSpec == Spec /\ Fairness

-----------------------------------------------------------------------------
(* When Put succeeds, by publishing or by finding the artifact there, the  *)
(* returned path holds exactly the bytes it copied at that moment, however *)
(* the source changed under it and whoever meddled with the store.         *)
SuccessMeansStored ==
    [][\A p \in Puts :
          pc[p] # pc'[p] /\ pc'[p] \in {"existing", "published"} =>
             LET f == entry'[digest[p]]
             IN f \in Puts /\ data'[f] = digest[p] /\ data'[f] = data'[p]]_vars

(* Of all the calls with the same bytes one publishes; the others report   *)
(* AlreadyExists, unless somebody has removed the entry (artifact_test.go, *)
(* TestStorePutConcurrentPublication).                                     *)
OnePublisher ==
    \A p, q \in Puts :
       /\ p # q
       /\ pc[p] = "published"
       /\ pc[q] = "published"
       /\ digest[p] = digest[q]
       => digest[p] \in removed

(* Put returns, whatever others do to the store path while it goes round   *)
(* its loop, unless its process dies.  Its last act is to try to remove    *)
(* the temporary file; the result is ignored, so the file may be left.     *)
PutReturns ==
    \A p \in Puts :
       temp[p] = "there" ~> (temp[p] \in {"removed", "left"} \/ pc[p] = "dead")
=============================================================================
