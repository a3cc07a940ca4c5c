----------------------------- MODULE Downloads ------------------------------
(***************************************************************************)
(* The download of an asset and the cache in front of it (asset-providers  *)
(* download.rs, http.rs, the planning of polyhaven.rs): several calls of   *)
(* asset.download and asset.import at once, all for one variant of one     *)
(* asset, which is one directory with one manifest.  Files are inodes: a   *)
(* call that still has a file open writes on in it under its new name.     *)
(***************************************************************************)
EXTENDS Integers

CONSTANTS
  Calls,       \* one per call
  Files,       \* the files the provider has of the variant, in the order of a plan
  Chunks,      \* chunks to a file: its size, the same in every version
  Versions,    \* how often the provider publishes a file: the contents of a chunk
  Plans,       \* the sets of files that requests for the variant come to
  MaxMishaps,  \* bound on new versions, deletions and restarts together
  None, Broken \* no such file; a manifest that cannot be parsed

ASSUME DownloadAssumption ==
  /\ Files \subseteq Nat /\ MaxMishaps \in Nat
  /\ Plans \subseteq (SUBSET Files) \ {{}}
  /\ Chunks \in Nat \ {0} /\ Versions \in Nat \ {0}
  /\ None \notin Calls \X Files

VARIABLES
  call,      \* what each call is at: see Call
  data,      \* the contents of every inode
  part,      \* the inode under the temporary name of a file, or None
  dest,      \* the inode under the name of a file, or None
  manifest,  \* [entries, by]: files and their checksums, or None, or Broken; who wrote it
  mixed,     \* inodes that were opened while another call had the same file open
  upstream,  \* the version the provider has
  mishaps    \* how many there were

downloads == <<call, data, part, dest, manifest, mixed, upstream, mishaps>>
files == <<data, part, dest, mixed>>

Inodes == Calls \X Files

Entries == UNION { [S -> 1..Versions] : S \in SUBSET Files }

\* asks: the files planned; todo: yet to be looked at, or fetched; got: downloaded, or read
\* from the manifest, with checksums; from: who wrote that manifest.
Call ==
  [ pc : {"idle", "checking", "fetching", "writing", "recording", "answered", "failed"},
    asks : SUBSET Files, todo : SUBSET Files, got : Entries,
    from : Calls \cup {None}, inode : Inodes \cup {None}, at : 0..Chunks, version : 0..Versions ]

Idle == [ pc |-> "idle", asks |-> {}, todo |-> {}, got |-> <<>>,
          from |-> None, inode |-> None, at |-> 0, version |-> 0 ]

DownloadsInit ==
  /\ call = [c \in Calls |-> Idle]
  /\ data = [i \in Inodes |-> <<>>]
  /\ part = [f \in Files |-> None] /\ dest = [f \in Files |-> None]
  /\ manifest = [entries |-> None, by |-> None]
  /\ mixed = {} /\ upstream = 1 /\ mishaps = 0

Runs(c) == call[c].pc \notin {"idle", "answered", "failed"}
File(c) == call[c].inode[2]

Content(f) == IF dest[f] = None THEN <<>> ELSE data[dest[f]]
IsVersion(content, v) == content = [k \in 1..Chunks |-> v]

Ends(c, pc) == call' = [call EXCEPT ![c] = [Idle EXCEPT !.pc = pc]]
Answers(c) == Ends(c, "answered")

\* The call gives up what is left of the plan; what it moved into place stays.
Fails(c) == Ends(c, "failed")

\* An inode without a name that nobody has open is gone.
Reclaim ==
  LET open == { call'[c].inode : c \in Calls } \cup { part'[f] : f \in Files } \cup { dest'[f] : f \in Files }
  IN /\ data' = [i \in Inodes |-> IF i \in open THEN data[i] ELSE <<>>]
     /\ mixed' = mixed \cap open

-----------------------------------------------------------------------------
(* Downloader::run: the cache *)

\* The provider's plan comes to some of the files it has (plan_files).  The directory is
\* named for the variant, which is the resolution: not for the maps or the format asked.
\* cached reads the manifest in it, unless the caller forces a download.
Plan(c) ==
  /\ call[c].pc = "idle"
  /\ \E asks \in Plans, force \in BOOLEAN :
       LET planned == [Idle EXCEPT !.asks = asks]
       IN call' = [call EXCEPT ![c] =
            IF force \/ manifest.entries \in {None, Broken, <<>>}
            THEN [planned EXCEPT !.pc = "fetching", !.todo = asks]
            ELSE [planned EXCEPT !.pc = "checking", !.todo = DOMAIN manifest.entries,
                                 !.got = manifest.entries, !.from = manifest.by]]
  /\ UNCHANGED <<files, manifest, upstream, mishaps>>

IsNext(f, c) == f \in call[c].todo /\ \A g \in call[c].todo : f <= g

\* Mutant: the manifest is believed without a look at the file.
SizeIsNotChecked(f) == TRUE

SizeIsRight(f) == DOMAIN Content(f) = 1..Chunks

\* One file after the other is looked at, and anything may happen in between.
CheckFile(c, f) ==
  /\ call[c].pc = "checking" /\ IsNext(f, c)
  /\ \/ SizeIsRight(f) /\ call[c].todo = {f} /\ Answers(c)
     \/ SizeIsRight(f) /\ call[c].todo # {f} /\ call' = [call EXCEPT ![c].todo = @ \ {f}]
     \/ /\ ~SizeIsRight(f)
        /\ call' = [call EXCEPT ![c].pc = "fetching", ![c].todo = call[c].asks,
                                ![c].got = <<>>, ![c].from = None]
  /\ UNCHANGED <<files, manifest, upstream, mishaps>>

-----------------------------------------------------------------------------
(* HttpFetcher::download, for the next file of the plan *)

IsOpen(f, c) == call[c].pc = "writing" /\ File(c) = f

\* Creating the temporary file empties one that is there, whoever has it open.
Open(c, f) ==
  /\ call[c].pc = "fetching" /\ IsNext(f, c)
  /\ LET i == IF part[f] = None THEN <<c, f>> ELSE part[f]
     IN /\ part' = [part EXCEPT ![f] = i]
        /\ data' = [data EXCEPT ![i] = <<>>]
        /\ mixed' = IF \E d \in Calls : IsOpen(f, d) THEN mixed \cup {i} ELSE mixed \ {i}
        /\ call' = [call EXCEPT ![c].pc = "writing", ![c].inode = i,
                                ![c].at = 0, ![c].version = upstream]
  /\ UNCHANGED <<dest, manifest, upstream, mishaps>>

\* A chunk is written where this call has got to; what others left beside it stays.
Put(content, n, v) ==
  [k \in 1..n \cup DOMAIN content |->
     IF k = n THEN v ELSE IF k \in DOMAIN content THEN content[k] ELSE 0]

WriteChunk(c) ==
  /\ call[c].pc = "writing" /\ call[c].at < Chunks
  /\ data' = [data EXCEPT ![call[c].inode] = Put(@, call[c].at + 1, call[c].version)]
  /\ call' = [call EXCEPT ![c].at = @ + 1]
  /\ UNCHANGED <<part, dest, mixed, manifest, upstream, mishaps>>

\* The stream breaks, is too large or cannot be written: the temporary name goes.
Break(c) ==
  /\ call[c].pc = "writing"
  /\ part' = [part EXCEPT ![File(c)] = None] /\ UNCHANGED dest
  /\ Fails(c) /\ Reclaim
  /\ UNCHANGED <<manifest, upstream, mishaps>>

\* Mutant: the file is moved into place as soon as it is there.
IsBegun(c) == call[c].at <= Chunks

IsComplete(c) == call[c].at = Chunks

\* Whatever has the temporary name is moved; without one, the move fails.
MoveIntoPlace(c) ==
  /\ call[c].pc = "writing" /\ IsComplete(c)
  /\ LET f == File(c)
     IN IF part[f] = None THEN Fails(c) /\ UNCHANGED <<part, dest>>
        ELSE /\ dest' = [dest EXCEPT ![f] = part[f]]
             /\ part' = [part EXCEPT ![f] = None]
             /\ call' = [call EXCEPT
                  ![c].pc = "fetching", ![c].inode = None, ![c].at = 0, ![c].version = 0,
                  ![c].todo = @ \ {f},
                  ![c].got = [g \in DOMAIN @ \cup {f} |-> IF g = f THEN call[c].version ELSE @[g]]]
  /\ Reclaim
  /\ UNCHANGED <<manifest, upstream, mishaps>>

\* A request, the disk, or a size that is over the limit ends the call between two
\* steps; a flush or move that fails leaves the temporary file.
Refused(c) == /\ call[c].pc \in {"fetching", "writing"} /\ Fails(c)
              /\ UNCHANGED <<part, dest, manifest, upstream, mishaps>> /\ Reclaim

-----------------------------------------------------------------------------
(* write_manifest: created, which empties it, then written *)

CreateManifest(c) ==
  /\ call[c].pc = "fetching" /\ call[c].todo = {}
  /\ \/ manifest' = [entries |-> Broken, by |-> None]
        /\ call' = [call EXCEPT ![c].pc = "recording"]
     \/ UNCHANGED manifest /\ Answers(c)   \* it cannot: a warning in the log
  /\ UNCHANGED <<files, upstream, mishaps>>

\* Written over one that another call wrote since, a shorter one leaves its rest behind.
WriteManifest(c) ==
  /\ call[c].pc = "recording"
  /\ \/ manifest' = [entries |-> call[c].got, by |-> c]
     \/ manifest' = [entries |-> Broken, by |-> None]
  /\ Answers(c)
  /\ UNCHANGED <<files, upstream, mishaps>>

-----------------------------------------------------------------------------
(* Around the server *)

Mishap == mishaps < MaxMishaps /\ mishaps' = mishaps + 1

Publish == /\ Mishap /\ upstream < Versions /\ upstream' = upstream + 1
           /\ UNCHANGED <<call, files, manifest>>

\* The user tidies up.
Delete(f) == /\ Mishap /\ dest[f] # None /\ dest' = [dest EXCEPT ![f] = None]
             /\ UNCHANGED <<call, part, manifest, upstream>> /\ Reclaim

RestartServer ==
  /\ Mishap /\ \E c \in Calls : Runs(c)
  /\ call' = [c \in Calls |-> IF Runs(c) THEN [Idle EXCEPT !.pc = "failed"] ELSE call[c]]
  /\ UNCHANGED <<part, dest, manifest, upstream>> /\ Reclaim

DownloadsNext ==
  \/ \E c \in Calls : \/ Plan(c) \/ WriteChunk(c)
                      \/ Break(c) \/ MoveIntoPlace(c) \/ Refused(c)
                      \/ CreateManifest(c) \/ WriteManifest(c)
                      \/ \E f \in Files : CheckFile(c, f) \/ Open(c, f)
  \/ Publish \/ RestartServer \/ \E f \in Files : Delete(f)

DownloadsSpec == DownloadsInit /\ [][DownloadsNext]_downloads

-----------------------------------------------------------------------------

(* A file under its own name holds one version, whole, whatever broke off, was refused *)
(* or restarted before (http.rs: "an interrupted download never leaves something that  *)
(* looks cached"), unless two calls had the file open at the same time, who share one   *)
(* temporary name.                                                                     *)
WholeUnlessShared ==
  \A f \in Files : dest[f] # None /\ dest[f] \notin mixed
                   => \E v \in 1..Versions : IsVersion(Content(f), v)

(* What the cache answers is on the disk with the checksum it answers, and so is every  *)
(* file it has looked at on the way there, across files the user deleted, restarts and  *)
(* failures; unless the user deleted the file after the look at it, two calls had it     *)
(* open together, or another call moved it into place than the one whose manifest was   *)
(* read: a forced download leaves its files to the earlier manifest when it breaks off   *)
(* half way, and to who has read that manifest already.                                 *)
HitsAreTrue ==
  [][ \A c \in Calls : call[c].pc = "checking" /\ call'[c].pc \in {"checking", "answered"} =>
        \A f \in DOMAIN call[c].got \ call'[c].todo :
          \/ dest[f] = None /\ f \notin call[c].todo
          \/ dest[f] # None /\ dest[f] \in mixed
          \/ dest[f] # None /\ dest[f][1] # call[c].from
          \/ IsVersion(Content(f), call[c].got[f]) ]_downloads

(* asset.download and asset.import answer with the files that were asked for (asset.rs: *)
(* "For texture sets: which maps to fetch"), from the cache or not.                     *)
AnswersWhatWasAsked ==
  [][ \A c \in Calls : Runs(c) /\ call'[c].pc = "answered"
                      => DOMAIN call[c].got = call[c].asks ]_downloads

=============================================================================
