----------------------------- MODULE Repository -----------------------------
(***************************************************************************)
(* From a repository's mirrors to an installed package: update fetches,    *)
(* verifies, merges and saves the index; install and upgrade take an entry *)
(* of it, find or download the archive, verify it and install it; clean    *)
(* empties the archive cache.  Several processes share the index file, the *)
(* cache and the lock file; each has an index of its own in memory.        *)
(*                                                                         *)
(* An index document is a member of Doc and an archive a member of Build;  *)
(* their bytes, and so their SHA-256, are equal when they are the same     *)
(* member; an archive holds a payload and a manifest that says whose it is *)
(* and what its payload's hash is.  A mirror serves at each request any    *)
(* document its repository has ever offered: mirrors lag behind, are       *)
(* republished between two requests, and fail.  Resolution, the databases  *)
(* and the transaction are the subject of Resolver, Lifecycle, ServiceLock *)
(* and Transaction.                                                        *)
(***************************************************************************)
EXTENDS Naturals, Integers, Sequences

CONSTANTS
    Proc,           \* command line runs and daemons
    Package,        \* package names
    Build,          \* archives
    Payload,        \* payloads of archives
    Archive,        \* [Build -> its manifest and its payload]
    Doc,            \* index documents
    Listing,        \* [Doc -> set of entries; Unreadable if it does not parse]
    Signer,         \* names of signers
    Signature,      \* signatures: [by, over]
    Repositories,   \* the configuration: sequence of RepoSource
    Offers,         \* [1..Len(Repositories) -> documents its URLs may serve]
    Trusted,        \* signers whose key KeyStore has
    RetryAttempts,  \* download::RETRY_ATTEMPTS
    CleanRacing,    \* clean may run while another process is in an operation
    None, Torn, Unreadable, Stale

\* manifest.json, inside the archive.  A package's signature is over what it
\* says of the payload, and over nothing else it says.
Manifest == [name : Package, version : Nat, signer : Signer \cup {None}, payload_sha256 : Payload]

\* RepositoryIndex holds PackageMetadata; a document's own priority is ignored.
\* `sig` is the signature over the payload, or None.
Entries(doc) == IF Listing[doc] = Unreadable THEN {} ELSE Listing[doc]
Listed == UNION {Entries(doc) : doc \in Doc}
Version == {e.version : e \in Listed}
Priorities == {Repositories[r].priority : r \in DOMAIN Repositories}
Entry == [name : Package, version : Version, build : Build,
          sig : Signature \cup {None}, priority : Priorities]
Published == [name : Package, version : Nat, build : Build,
              sig : Signature \cup {None}, priority : Int]

ASSUME SpecialAssumption ==
    /\ None \notin Build \cup Proc \cup Doc \cup Signature \cup Signer /\ None \notin Entry
    /\ Torn \notin Build /\ Stale \notin Proc /\ Torn # None /\ Stale # None
ASSUME RepositoryAssumption ==
    /\ Repositories \in Seq([urls : Nat \ {0}, signer : Signer \cup {None}, priority : Int])
    /\ Len(Repositories) > 0 /\ Trusted \subseteq Signer
    /\ Offers \in [1..Len(Repositories) -> SUBSET Doc]
    /\ RetryAttempts \in Nat \ {0} /\ CleanRacing \in BOOLEAN
ASSUME ArchiveAssumption == Archive \in [Build -> [manifest : Manifest, payload : Payload]]
ASSUME ListingAssumption ==
    \A doc \in Doc : Listing[doc] # Unreadable => Listing[doc] \subseteq Published

VARIABLES
    file,      \* index.json: None, Torn, or the set of entries in it
    cache,     \* downloads/: [Package -> [Version -> None, Torn or the archive]]
    installed, \* [Package -> None or what is installed]
    lock,      \* the process that holds the lock file, None, or Stale: a dead one's
    pc,        \* [Proc -> where it is]
    index,     \* [Proc -> the entries it has in memory]
    merged,    \* [Proc -> update: the entries merged so far]
    repo,      \* [Proc -> update: the repository it is fetching]
    url,       \* [Proc -> update: which of its URLs]
    tries,     \* [Proc -> attempts at the URL that failed]
    data,      \* [Proc -> update: the document fetched]
    overlap,   \* [Proc -> another update wrote index.json during its own save]
    meta       \* [Proc -> install, upgrade: the entry it installs]

store  == <<file, cache, installed, lock>>
fetch  == <<repo, url, tries, data>>
vars   == <<file, cache, installed, lock, pc, index, merged, repo, url, tries, data,
            overlap, meta>>

Updating   == {"fetch", "sig", "save", "saving"}
InOperation == {"find", "download", "write", "verify", "swap", "extract"}
Source(p)  == Repositories[repo[p]]
Goto(p, l) == pc' = [pc EXCEPT ![p] = l]

TypeOK ==
    /\ file \in {None, Torn} \cup SUBSET Entry
    /\ cache \in [Package -> [Version -> Build \cup {None, Torn}]]
    /\ installed \in [Package -> {None} \cup [build : Build, listed : Entry]]
    /\ lock \in Proc \cup {None, Stale}
    /\ pc \in [Proc -> {"out", "idle"} \cup Updating \cup InOperation]
    /\ index \in [Proc -> SUBSET Entry] /\ merged \in [Proc -> SUBSET Entry]
    /\ repo \in [Proc -> DOMAIN Repositories] /\ url \in [Proc -> Nat]
    /\ tries \in [Proc -> 0..(RetryAttempts - 1)] /\ data \in [Proc -> Doc \cup {None}]
    /\ overlap \in [Proc -> BOOLEAN] /\ meta \in [Proc -> {None} \cup Entry]
    /\ \A p \in Proc :
         /\ url[p] \in 1..Source(p).urls
         /\ pc[p] = "sig" => data[p] \in Offers[repo[p]]
         /\ pc[p] \in InOperation <=> meta[p] # None
         /\ lock = p <=> pc[p] \in InOperation

Init ==
    /\ file = None /\ cache = [n \in Package |-> [v \in Version |-> None]]
    /\ installed = [n \in Package |-> None] /\ lock = None
    /\ pc = [p \in Proc |-> "out"] /\ index = [p \in Proc |-> {}]
    /\ merged = [p \in Proc |-> {}] /\ repo = [p \in Proc |-> 1] /\ url = [p \in Proc |-> 1]
    /\ tries = [p \in Proc |-> 0] /\ data = [p \in Proc |-> None]
    /\ overlap = [p \in Proc |-> FALSE] /\ meta = [p \in Proc |-> None]

(***************************************************************************)
(* PackageService::open.  An index file that is missing or does not parse  *)
(* counts as empty.                                                        *)
(***************************************************************************)
Open(p) ==
    /\ pc[p] = "out" /\ Goto(p, "idle")
    /\ index' = [index EXCEPT ![p] = IF file \in {None, Torn} THEN {} ELSE file]
    /\ UNCHANGED <<store, merged, fetch, overlap, meta>>

(***************************************************************************)
(* update.                                                                 *)
(***************************************************************************)
\* The next thing to fetch: a URL of a repository, from the first attempt.
At(p, r, u) ==
    /\ repo' = [repo EXCEPT ![p] = r] /\ url' = [url EXCEPT ![p] = u]
    /\ tries' = [tries EXCEPT ![p] = 0] /\ data' = [data EXCEPT ![p] = None]
\* update returns; on an error the index in memory is the old one.
EndUpdate(p) == Goto(p, "idle") /\ At(p, 1, 1) /\ merged' = [merged EXCEPT ![p] = {}]

BeginUpdate(p) ==
    /\ pc[p] = "idle" /\ Goto(p, "fetch") /\ At(p, 1, 1)
    /\ UNCHANGED <<store, index, merged, overlap, meta>>

\* fetch_with_retry fails at one attempt; after the last the URL is a miss,
\* whether it was the index or its .sig, and the next URL is tried.
FetchFails(p) ==
    /\ pc[p] \in {"fetch", "sig"}
    /\ \/ /\ tries[p] + 1 < RetryAttempts /\ tries' = [tries EXCEPT ![p] = @ + 1]
          /\ UNCHANGED <<pc, merged, repo, url, data>>
       \/ /\ tries[p] + 1 = RetryAttempts /\ url[p] < Source(p).urls
          /\ Goto(p, "fetch") /\ At(p, repo[p], url[p] + 1) /\ UNCHANGED merged
       \/ tries[p] + 1 = RetryAttempts /\ url[p] = Source(p).urls /\ EndUpdate(p)
    /\ UNCHANGED <<store, index, overlap, meta>>

\* mutant of Vouches: the signature is the signer's, over whatever bytes.
VouchesForAll(sig, doc, signer) == signer \in Trusted /\ sig.by = signer
\* verify_index: the signer's key is known, and the signature is the signer's
\* over these bytes.
Vouches(sig, doc, signer) == signer \in Trusted /\ sig.by = signer /\ sig.over = doc

\* The entries of a document as update stores them.
Stamped(doc, r) == {[e EXCEPT !.priority = Repositories[r].priority] : e \in Entries(doc)}

\* One repository is merged; the next is fetched, or the result is saved.
Merge(p, doc) ==
    /\ merged' = [merged EXCEPT ![p] = @ \cup Stamped(doc, repo[p])]
    /\ IF repo[p] < Len(Repositories) THEN Goto(p, "fetch") /\ At(p, repo[p] + 1, 1)
                                      ELSE Goto(p, "save")  /\ At(p, 1, 1)
MergeOrFail(p, doc) == IF Listing[doc] = Unreadable THEN EndUpdate(p) ELSE Merge(p, doc)

FetchIndex(p, doc) ==
    /\ pc[p] = "fetch" /\ doc \in Offers[repo[p]]
    /\ \/ Source(p).signer = None /\ MergeOrFail(p, doc)
       \/ /\ Source(p).signer # None /\ Goto(p, "sig")
          /\ data' = [data EXCEPT ![p] = doc] /\ tries' = [tries EXCEPT ![p] = 0]
          /\ UNCHANGED <<merged, repo, url>>
    /\ UNCHANGED <<store, index, overlap, meta>>

\* A signature that does not verify ends the update, other mirrors or not.
FetchSig(p, sig) ==
    /\ pc[p] = "sig"
    /\ IF Vouches(sig, data[p], Source(p).signer) THEN MergeOrFail(p, data[p])
                                                   ELSE EndUpdate(p)
    /\ UNCHANGED <<store, index, overlap, meta>>

\* RepositoryIndex::save: fs::write empties the file, then fills it.  Two saves
\* that overlap leave either content or a mixture that does not parse.
BeginSave(p) ==
    /\ pc[p] = "save" /\ Goto(p, "saving") /\ file' = Torn
    /\ LET others == {q \in Proc \ {p} : pc[q] = "saving"} IN
       overlap' = [q \in Proc |-> IF q = p THEN others # {} ELSE overlap[q] \/ q \in others]
    /\ UNCHANGED <<cache, installed, lock, index, merged, fetch, meta>>
EndSave(p) ==
    /\ pc[p] = "saving"
    /\ \/ file' = merged[p]
       \/ overlap[p] /\ file' = Torn
    /\ index' = [index EXCEPT ![p] = merged[p]]
    /\ overlap' = [overlap EXCEPT ![p] = FALSE] /\ EndUpdate(p)
    /\ UNCHANGED <<cache, installed, lock, meta>>
\* A full disk: before the file is opened, or with nothing or half of it written.
SaveFails(p) ==
    /\ pc[p] \in {"save", "saving"} /\ EndUpdate(p)
    /\ overlap' = [overlap EXCEPT ![p] = FALSE]
    /\ UNCHANGED <<store, index, meta>>

(***************************************************************************)
(* install and upgrade of one package, under the lock file.                *)
(***************************************************************************)
\* best_match_for_arch: of each version the highest priority; any of these is
\* the newest that some requirement matches.
Best(p, n) ==
    {e \in index[p] : e.name = n /\ \A d \in index[p] :
        d.name = n /\ d.version = e.version => d.priority <= e.priority}
\* latest_for_arch: the newest of all.
Latest(p, n) == {e \in Best(p, n) : \A d \in index[p] : d.name = n => d.version <= e.version}

BeginOperation(p, e) ==
    /\ pc[p] = "idle" /\ lock = None
    /\ meta' = [meta EXCEPT ![p] = e] /\ lock' = p /\ Goto(p, "find")
    /\ UNCHANGED <<file, cache, installed, index, merged, fetch, overlap>>
\* A package asked for, or pulled in by another one's requirement.
BeginInstall(p, n) == installed[n] = None /\ \E e \in Best(p, n) : BeginOperation(p, e)
\* The installed version is the one its manifest says.
BeginUpgrade(p, n) ==
    /\ installed[n] # None
    /\ \E e \in Latest(p, n) : /\ e.version > Archive[installed[n].build].manifest.version
                               /\ BeginOperation(p, e)

\* The operation returns, with an error or not, and gives the lock back.
EndOperation(p) ==
    /\ Goto(p, "idle") /\ lock' = None /\ meta' = [meta EXCEPT ![p] = None]
    /\ tries' = [tries EXCEPT ![p] = 0]
KeepUpdate == UNCHANGED <<file, index, merged, repo, url, data, overlap>>

Cached(p) == cache[meta[p].name][meta[p].version]
Cache(p, content) == cache' = [cache EXCEPT ![meta[p].name][meta[p].version] = content]

\* mutant of Find: an archive that is in the cache has been verified before.
FindTrusting(p) ==
    /\ pc[p] = "find" /\ Goto(p, IF Cached(p) = None THEN "download" ELSE "extract")
    /\ UNCHANGED <<cache, installed, lock, tries, meta>> /\ KeepUpdate
\* Whatever lies under the archive's file name is taken, a leftover included.
Find(p) ==
    /\ pc[p] = "find" /\ Goto(p, IF Cached(p) = None THEN "download" ELSE "verify")
    /\ UNCHANGED <<cache, installed, lock, tries, meta>> /\ KeepUpdate

DownloadFails(p) ==
    /\ pc[p] = "download"
    /\ \/ /\ tries[p] + 1 < RetryAttempts /\ tries' = [tries EXCEPT ![p] = @ + 1]
          /\ UNCHANGED <<pc, lock, meta>>
       \/ tries[p] + 1 = RetryAttempts /\ EndOperation(p)
    /\ UNCHANGED <<cache, installed>> /\ KeepUpdate

\* mutant of Download: the checksum is left to verify_package.
DownloadUnchecked(p, b) ==
    /\ pc[p] = "download" /\ Goto(p, "verify") /\ Cache(p, b)
    /\ tries' = [tries EXCEPT ![p] = 0]
    /\ UNCHANGED <<installed, lock, meta>> /\ KeepUpdate
\* download_verified: bytes with another checksum than the entry's are refused
\* before the file is created; it is created empty.
Download(p, b) ==
    /\ pc[p] = "download"
    /\ IF b = meta[p].build
       THEN /\ Goto(p, "write") /\ Cache(p, Torn) /\ tries' = [tries EXCEPT ![p] = 0]
            /\ UNCHANGED <<lock, meta>>
       ELSE EndOperation(p) /\ UNCHANGED cache
    /\ UNCHANGED installed /\ KeepUpdate
\* A file that clean has removed meanwhile is filled and stays removed.
EndWrite(p) ==
    /\ pc[p] = "write" /\ Goto(p, "verify")
    /\ IF Cached(p) = None THEN UNCHANGED cache ELSE Cache(p, meta[p].build)
    /\ UNCHANGED <<installed, lock, tries, meta>> /\ KeepUpdate
\* A full disk leaves what was written.
WriteFails(p) ==
    /\ pc[p] = "write" /\ EndOperation(p)
    /\ UNCHANGED <<cache, installed>> /\ KeepUpdate

\* verify_package: the file is read again and hashed, and if the manifest names
\* a signer, the entry has the signer's signature over the payload's hash.
Verified(p) ==
    /\ Cached(p) = meta[p].build
    /\ LET m == Archive[meta[p].build].manifest IN
       m.signer # None => meta[p].sig # None /\ Vouches(meta[p].sig, m.payload_sha256, m.signer)
\* mutant of Verify: an archive that can be read is good enough.
VerifyReadable(p) ==
    /\ pc[p] = "verify"
    /\ IF Cached(p) \notin {None, Torn}
       THEN /\ Goto(p, IF installed[meta[p].name] = None THEN "extract" ELSE "swap")
            /\ UNCHANGED <<lock, tries, meta>>
       ELSE EndOperation(p)
    /\ UNCHANGED <<cache, installed>> /\ KeepUpdate
Verify(p) ==
    /\ pc[p] = "verify"
    /\ IF Verified(p)
       THEN /\ Goto(p, IF installed[meta[p].name] = None THEN "extract" ELSE "swap")
            /\ UNCHANGED <<lock, tries, meta>>
       ELSE EndOperation(p)
    /\ UNCHANGED <<cache, installed>> /\ KeepUpdate

\* upgrade_one removes the old version only now; if the disk is full, a new
\* dependency does not install or the removal fails, it stays.
RemoveOld(p) ==
    /\ pc[p] = "swap"
    /\ \/ /\ installed' = [installed EXCEPT ![meta[p].name] = None] /\ Goto(p, "extract")
          /\ UNCHANGED <<lock, tries, meta>>
       \/ EndOperation(p) /\ UNCHANGED installed
    /\ UNCHANGED cache /\ KeepUpdate

\* Transaction::install reads the archive once more and puts its payload, if it
\* has the hash the manifest says, in under the manifest's name: nothing compares
\* that with the entry's.  It may fail for reasons of its own, which leave
\* nothing installed.
Extract(p) ==
    /\ pc[p] = "extract" /\ EndOperation(p)
    /\ \/ \E b \in Build :
            /\ Cached(p) = b /\ Archive[b].payload = Archive[b].manifest.payload_sha256
            /\ installed' = [installed EXCEPT ![Archive[b].manifest.name] =
                               [build |-> b, listed |-> meta[p]]]
       \/ UNCHANGED installed
    /\ UNCHANGED cache /\ KeepUpdate

(***************************************************************************)
(* clean, and processes that die.                                          *)
(***************************************************************************)
\* One file of the cache is deleted; clean takes no lock.
Clean(p, n, v) ==
    /\ pc[p] = "idle"
    /\ CleanRacing \/ \A q \in Proc : pc[q] \notin InOperation
    /\ cache' = [cache EXCEPT ![n][v] = None]
    /\ UNCHANGED <<file, installed, lock, pc, index, merged, fetch, overlap, meta>>

\* A process ends or dies.  Files stay as they are, its lock file included.
Crash(p) ==
    /\ pc[p] # "out" /\ Goto(p, "out")
    /\ lock' = IF lock = p THEN Stale ELSE lock
    /\ index' = [index EXCEPT ![p] = {}] /\ merged' = [merged EXCEPT ![p] = {}]
    /\ meta' = [meta EXCEPT ![p] = None] /\ At(p, 1, 1)
    /\ overlap' = [overlap EXCEPT ![p] = FALSE]
    /\ UNCHANGED <<file, cache, installed>>
\* The administrator deletes the lock file of a process that is gone.
RemoveStaleLock ==
    /\ lock = Stale /\ lock' = None
    /\ UNCHANGED <<file, cache, installed, pc, index, merged, fetch, overlap, meta>>

Update(p) == \/ FetchFails(p) \/ \E d \in Doc : FetchIndex(p, d)
             \/ \E sig \in Signature : FetchSig(p, sig)
             \/ BeginSave(p) \/ EndSave(p) \/ SaveFails(p)
Operation(p) == \/ Find(p) \/ DownloadFails(p) \/ \E b \in Build : Download(p, b)
                \/ EndWrite(p) \/ WriteFails(p) \/ Verify(p) \/ RemoveOld(p) \/ Extract(p)
Start(p) == \/ Open(p) \/ BeginUpdate(p)
            \/ \E n \in Package : BeginInstall(p, n) \/ BeginUpgrade(p, n)
            \/ \E n \in Package, v \in Version : Clean(p, n, v)
Next == RemoveStaleLock \/ \E p \in Proc : Update(p) \/ Operation(p) \/ Start(p) \/ Crash(p)

\* An operation that has begun goes on; nobody need begin one.
Fairness == \A p \in Proc : WF_vars(Update(p)) /\ WF_vars(Operation(p))
Spec == Init /\ [][Next]_vars
FairSpec == Spec /\ Fairness

(***************************************************************************)
(* Properties.                                                             *)
(***************************************************************************)
\* A document that repository r may vouch for.
Genuine(r, doc) ==
    /\ doc \in Offers[r] /\ Listing[doc] # Unreadable
    /\ Repositories[r].signer # None =>
         /\ Repositories[r].signer \in Trusted
         /\ \E sig \in Signature : sig.by = Repositories[r].signer /\ sig.over = doc
\* What a genuine document of r contributes: its entries, at r's priority.
Contribution(r, doc) ==
    {[e EXCEPT !.priority = Repositories[r].priority] : e \in Listing[doc]}
Choices == {f \in [DOMAIN Repositories -> Doc] : \A r \in DOMAIN f : Genuine(r, f[r])}
Merges == {UNION {Contribution(r, f[r]) : r \in DOMAIN f} : f \in Choices}

\* An index, in memory or in the file, is one genuine document of every
\* configured repository, each whole and at its repository's own priority:
\* mirrors that lag, fail, mix an index with another's signature or serve
\* garbage, updates that overlap, fail half way or die leave the old one, or in
\* the file, nothing readable (lifecycle.rs:97-183, index.rs:18-29).
IndexIsMerge ==
    /\ file \in {None, Torn} \cup Merges
    /\ \A p \in Proc : index[p] \in {{}} \cup Merges

FromGenuine(e) == \E r \in DOMAIN Repositories : \E doc \in Doc :
                      Genuine(r, doc) /\ e \in Contribution(r, doc)

\* An archive in the cache was listed, under the name and version it lies at, by
\* a genuine document: bytes are checked before they are written, and a file
\* that is not whole does not pass for one (download.rs:80-98).
CacheOnlyVerified ==
    \A n \in Package, v \in Version :
      cache[n][v] \in Build =>
        \E r \in DOMAIN Repositories : \E doc \in Doc :
          /\ Genuine(r, doc)
          /\ \E e \in Listing[doc] : e.name = n /\ e.version = v /\ e.build = cache[n][v]

\* Archive b is the one that entry e lists, of a genuine document, and a signer
\* that b names is trusted and has signed b's payload.
AsListed(b, e) ==
    LET signer == Archive[b].manifest.signer IN
    /\ b = e.build /\ FromGenuine(e)
    /\ signer # None => /\ signer \in Trusted /\ e.sig # None
                        /\ e.sig.by = signer /\ e.sig.over = Archive[b].payload

\* What is installed is byte for byte the archive of the entry it was installed
\* from, and signed if it says so: an archive another operation left in the
\* cache, another repository's build of the same version, a rebuild under an old
\* file name and a manifest copied to another payload included
\* (lifecycle.rs:185-223, signature.rs:6-45, transaction.rs:62-75).  The manifest
\* itself is not signed: its name is the record's, whatever name the entry has.
InstalledAsListed ==
    \A n \in Package :
      installed[n] # None => AsListed(installed[n].build, installed[n].listed)

\* From before the old version is removed until the new one is extracted, the
\* verified archive of the new one is in the cache: a bad download never leaves
\* the package removed (lifecycle.rs:712-715).  With CleanRacing it may be gone.
ReplacementReady ==
    \A p \in Proc : pc[p] \in {"swap", "extract"} => Cached(p) = meta[p].build

\* "It tries every configured mirror before giving up, so one mirror failing to
\* serve a valid signature doesn't fail the whole refresh if another has it":
\* an update gives a repository up only at the last of its URLs.
MirrorsTried ==
    [][\A p \in Proc : pc[p] \in {"fetch", "sig"} /\ pc'[p] = "idle" => url[p] = Source(p).urls]_vars

\* Every update and every install or upgrade returns, or its process dies: the
\* retries, mirrors and repositories run out (download.rs:48-62).
OperationsEnd ==
    \A p \in Proc : pc[p] \in Updating \cup InOperation ~> pc[p] \in {"idle", "out"}
=============================================================================
