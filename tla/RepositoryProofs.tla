-------------------------- MODULE RepositoryProofs --------------------------
(***************************************************************************)
(* Proofs about Repository, for any processes, packages, archives,         *)
(* repositories, mirrors and signatures, with fetches and writes failing   *)
(* and processes dying anywhere, and clean at any time.                    *)
(***************************************************************************)
EXTENDS Repository, TLAPS

(***************************************************************************)
(* Type correctness.                                                       *)
(***************************************************************************)
\* Entries are stored well typed.
LEMMA StampedTyped ==
    ASSUME NEW doc \in Doc, NEW r \in DOMAIN Repositories
    PROVE  Stamped(doc, r) \subseteq Entry
<1> SUFFICES ASSUME NEW e \in Entries(doc)
             PROVE  [e EXCEPT !.priority = Repositories[r].priority] \in Entry
  BY DEF Stamped
<1>1. e \in Published /\ e \in Listed
  BY ListingAssumption DEF Entries, Listed
<1>2. e.version \in Version
  BY <1>1 DEF Version
<1>3. Repositories[r].priority \in Priorities
  BY DEF Priorities
<1> QED BY <1>1, <1>2, <1>3 DEF Entry, Published

\* The first attempt at a URL that exists.
LEMMA AtTyped ==
    ASSUME TypeOK, NEW p \in Proc, NEW r \in DOMAIN Repositories,
           NEW u \in 1..Repositories[r].urls, At(p, r, u)
    PROVE  /\ repo' \in [Proc -> DOMAIN Repositories] /\ url' \in [Proc -> Nat]
           /\ tries' \in [Proc -> 0..(RetryAttempts - 1)] /\ data' \in [Proc -> Doc \cup {None}]
           /\ \A q \in Proc : url'[q] \in 1..Repositories[repo'[q]].urls
<1>1. 0 \in 0..(RetryAttempts - 1) /\ u \in Nat
  BY RepositoryAssumption
<1> QED BY <1>1 DEF TypeOK, At, Source

\* There is a first URL of the first repository, and a document is offered.
LEMMA FirstExists ==
    /\ DOMAIN Repositories = 1..Len(Repositories) /\ Len(Repositories) \in Nat
    /\ 1 \in DOMAIN Repositories
    /\ \A r \in DOMAIN Repositories :
         1 \in 1..Repositories[r].urls /\ Repositories[r].urls \in Nat /\ Offers[r] \subseteq Doc
<1>1. DOMAIN Repositories = 1..Len(Repositories) /\ Len(Repositories) \in Nat
  BY RepositoryAssumption
<1>2. 1 \in DOMAIN Repositories
  BY <1>1, RepositoryAssumption
<1>3. \A r \in DOMAIN Repositories : Repositories[r].urls \in Nat \ {0}
  <2> DEFINE Kind == [urls : Nat \ {0}, signer : Signer \cup {None}, priority : Int]
  <2>1. Repositories \in Seq(Kind)
    BY RepositoryAssumption
  <2>2. \A r \in DOMAIN Repositories : Repositories[r] \in Kind
    <3> HIDE DEF Kind
    <3> QED BY <1>1, <2>1
  <2> QED BY <2>2
<1>4. \A r \in DOMAIN Repositories : Offers[r] \subseteq Doc
  <2>1. Offers \in [1..Len(Repositories) -> SUBSET Doc]
    BY RepositoryAssumption
  <2> QED BY <1>1, <2>1
<1>5. \A r \in DOMAIN Repositories : 1 \in 1..Repositories[r].urls
  BY <1>3
<1> QED BY <1>1, <1>2, <1>3, <1>4, <1>5

\* update returns: the fetching state is the initial one again.
LEMMA EndUpdateTyped ==
    ASSUME TypeOK, NEW p \in Proc, EndUpdate(p), pc[p] \in Updating,
           file' \in {None, Torn} \cup SUBSET Entry, index' \in [Proc -> SUBSET Entry],
           UNCHANGED <<cache, installed, lock, meta>>, overlap' \in [Proc -> BOOLEAN]
    PROVE  TypeOK'
<1>1. At(p, 1, 1) /\ pc' = [pc EXCEPT ![p] = "idle"] /\ merged' = [merged EXCEPT ![p] = {}]
  BY DEF EndUpdate, Goto
<1>2. /\ repo' \in [Proc -> DOMAIN Repositories] /\ url' \in [Proc -> Nat]
      /\ tries' \in [Proc -> 0..(RetryAttempts - 1)] /\ data' \in [Proc -> Doc \cup {None}]
      /\ \A q \in Proc : url'[q] \in 1..Repositories[repo'[q]].urls
  BY <1>1, AtTyped, FirstExists
<1>3. \A q \in Proc : pc'[q] = "sig" => data'[q] \in Offers[repo'[q]]
  BY <1>1 DEF TypeOK, At
<1> QED BY <1>1, <1>2, <1>3 DEF TypeOK, Updating, InOperation, Source

\* A document is merged, and the next is fetched.
LEMMA MergeTyped ==
    ASSUME TypeOK, NEW p \in Proc, NEW doc \in Doc, MergeOrFail(p, doc),
           pc[p] \in Updating, UNCHANGED <<store, index, overlap, meta>>
    PROVE  TypeOK'
<1>1. CASE EndUpdate(p)
  BY <1>1, EndUpdateTyped DEF TypeOK, store
<1>2. CASE Merge(p, doc)
  <2>1. repo[p] \in DOMAIN Repositories /\ Stamped(doc, repo[p]) \subseteq Entry
    BY StampedTyped DEF TypeOK
  <2>2. merged' \in [Proc -> SUBSET Entry]
    BY <1>2, <2>1 DEF Merge, TypeOK
  <2>3. PICK r \in DOMAIN Repositories : At(p, r, 1)
    BY <1>2, <2>1, FirstExists DEF Merge
  <2>4. /\ repo' \in [Proc -> DOMAIN Repositories] /\ url' \in [Proc -> Nat]
        /\ tries' \in [Proc -> 0..(RetryAttempts - 1)] /\ data' \in [Proc -> Doc \cup {None}]
        /\ \A q \in Proc : url'[q] \in 1..Repositories[repo'[q]].urls
    BY <2>3, AtTyped, FirstExists
  <2>5. pc' = [pc EXCEPT ![p] = "fetch"] \/ pc' = [pc EXCEPT ![p] = "save"]
    BY <1>2 DEF Merge, Goto
  <2>6. \A q \in Proc : pc'[q] = "sig" => data'[q] \in Offers[repo'[q]]
    BY <2>3, <2>5 DEF TypeOK, At
  <2> QED BY <2>2, <2>4, <2>5, <2>6 DEF TypeOK, store, Updating, InOperation, Source
<1> QED BY <1>1, <1>2 DEF MergeOrFail

\* Each step of update.
LEMMA UpdateTyped ==
    ASSUME TypeOK, NEW p \in Proc, Update(p) PROVE TypeOK'
<1>1. CASE FetchFails(p)
  <2>1. CASE /\ tries[p] + 1 < RetryAttempts /\ tries' = [tries EXCEPT ![p] = @ + 1]
             /\ UNCHANGED <<pc, merged, repo, url, data>>
    <3>1. tries[p] + 1 \in 0..(RetryAttempts - 1)
      BY <2>1, RepositoryAssumption DEF TypeOK
    <3>2. UNCHANGED <<store, index, overlap, meta>>
      BY <1>1 DEF FetchFails
    <3> QED BY <2>1, <3>1, <3>2 DEF TypeOK, store, Source
  <2>2. CASE /\ url[p] < Source(p).urls /\ Goto(p, "fetch")
             /\ At(p, repo[p], url[p] + 1) /\ UNCHANGED merged
    <3>1. repo[p] \in DOMAIN Repositories /\ url[p] + 1 \in 1..Repositories[repo[p]].urls
      BY <2>2, FirstExists DEF TypeOK, Source
    <3>2. /\ repo' \in [Proc -> DOMAIN Repositories] /\ url' \in [Proc -> Nat]
          /\ tries' \in [Proc -> 0..(RetryAttempts - 1)] /\ data' \in [Proc -> Doc \cup {None}]
          /\ \A q \in Proc : url'[q] \in 1..Repositories[repo'[q]].urls
      BY <2>2, <3>1, AtTyped
    <3>3. UNCHANGED <<store, index, overlap, meta, merged>>
      BY <1>1, <2>2 DEF FetchFails
    <3>4. pc[p] \in {"fetch", "sig"} /\ pc' = [pc EXCEPT ![p] = "fetch"]
      BY <1>1, <2>2 DEF FetchFails, Goto
    <3>5. \A q \in Proc : pc'[q] = "sig" => data'[q] \in Offers[repo'[q]]
      BY <2>2, <3>4 DEF TypeOK, At
    <3> QED BY <3>2, <3>3, <3>4, <3>5 DEF TypeOK, store, Updating, InOperation, Source
  <2>3. CASE EndUpdate(p)
    BY <1>1, <2>3, EndUpdateTyped DEF FetchFails, TypeOK, Updating, store
  <2> QED BY <1>1, <2>1, <2>2, <2>3 DEF FetchFails
<1>2. ASSUME NEW doc \in Doc, FetchIndex(p, doc) PROVE TypeOK'
  <2>1. CASE MergeOrFail(p, doc)
    BY <1>2, <2>1, MergeTyped DEF FetchIndex, Updating
  <2>2. CASE /\ Goto(p, "sig") /\ data' = [data EXCEPT ![p] = doc]
             /\ tries' = [tries EXCEPT ![p] = 0] /\ UNCHANGED <<merged, repo, url>>
    <3>1. 0 \in 0..(RetryAttempts - 1)
      BY RepositoryAssumption
    <3> QED BY <1>2, <2>2, <3>1
            DEF FetchIndex, TypeOK, store, Updating, InOperation, Source, Goto
  <2> QED BY <1>2, <2>1, <2>2 DEF FetchIndex
<1>3. ASSUME NEW sig \in Signature, FetchSig(p, sig) PROVE TypeOK'
  <2>1. data[p] \in Doc /\ pc[p] \in Updating /\ UNCHANGED <<store, index, overlap, meta>>
    BY <1>3, FirstExists DEF FetchSig, TypeOK, Updating
  <2>2. CASE EndUpdate(p)
    BY <2>1, <2>2, EndUpdateTyped DEF TypeOK, store
  <2>3. CASE MergeOrFail(p, data[p])
    BY <2>1, <2>3, MergeTyped
  <2> QED BY <1>3, <2>2, <2>3 DEF FetchSig
<1>4. CASE BeginSave(p)
  BY <1>4 DEF BeginSave, TypeOK, fetch, Updating, InOperation, Source, Goto
<1>5. CASE EndSave(p)
  BY <1>5, EndUpdateTyped DEF EndSave, TypeOK, Updating
<1>6. CASE SaveFails(p)
  BY <1>6, EndUpdateTyped DEF SaveFails, TypeOK, Updating, store
<1> QED BY <1>1, <1>2, <1>3, <1>4, <1>5, <1>6 DEF Update

\* install or upgrade returns: the entry and the lock file are given up.
LEMMA EndOperationTyped ==
    ASSUME TypeOK, NEW p \in Proc, EndOperation(p), pc[p] \in InOperation,
           cache' \in [Package -> [Version -> Build \cup {None, Torn}]],
           installed' \in [Package -> {None} \cup [build : Build, listed : Entry]], KeepUpdate
    PROVE  TypeOK'
<1>1. 0 \in 0..(RetryAttempts - 1)
  BY RepositoryAssumption
<1>2. lock = p /\ \A q \in Proc : q # p => lock # q
  BY DEF TypeOK
<1>3. /\ pc' = [pc EXCEPT ![p] = "idle"] /\ meta' = [meta EXCEPT ![p] = None]
      /\ lock' = None /\ tries' = [tries EXCEPT ![p] = 0]
  BY DEF EndOperation, Goto
<1>4. \A q \in Proc : /\ pc'[q] \in InOperation <=> meta'[q] # None
                      /\ lock' = q <=> pc'[q] \in InOperation
  BY <1>2, <1>3, SpecialAssumption DEF TypeOK, InOperation
<1>5. \A q \in Proc : /\ url'[q] \in 1..Source(q)'.urls
                      /\ pc'[q] = "sig" => data'[q] \in Offers[repo'[q]]
  BY <1>3 DEF TypeOK, KeepUpdate, Source
<1> QED BY <1>1, <1>3, <1>4, <1>5 DEF TypeOK, KeepUpdate

\* An archive is stored in the cache.
LEMMA CacheTyped ==
    ASSUME TypeOK, NEW p \in Proc, pc[p] \in InOperation,
           NEW content \in Build \cup {None, Torn}, Cache(p, content)
    PROVE  cache' \in [Package -> [Version -> Build \cup {None, Torn}]]
<1>1. meta[p] \in Entry
  BY DEF TypeOK
<1>2. meta[p].name \in Package /\ meta[p].version \in Version
  BY <1>1 DEF Entry
<1> QED BY <1>2 DEF TypeOK, Cache

\* install or upgrade goes on, with the entry and the lock file it has.
LEMMA GoOnTyped ==
    ASSUME TypeOK, NEW p \in Proc, NEW l \in InOperation, Goto(p, l), pc[p] \in InOperation,
           cache' \in [Package -> [Version -> Build \cup {None, Torn}]],
           installed' \in [Package -> {None} \cup [build : Build, listed : Entry]],
           tries' \in [Proc -> 0..(RetryAttempts - 1)], UNCHANGED <<lock, meta>>, KeepUpdate
    PROVE  TypeOK'
<1>1. pc' = [pc EXCEPT ![p] = l]
  BY DEF Goto
<1>2. \A q \in Proc : /\ pc'[q] \in InOperation <=> meta'[q] # None
                      /\ lock' = q <=> pc'[q] \in InOperation
                      /\ pc'[q] = "sig" => data'[q] \in Offers[repo'[q]]
  BY <1>1 DEF TypeOK, InOperation, KeepUpdate
<1> QED BY <1>1, <1>2 DEF TypeOK, KeepUpdate, Source

\* Each step of install and upgrade.
LEMMA OperationTyped ==
    ASSUME TypeOK, NEW p \in Proc, Operation(p) PROVE TypeOK'
<1>0. /\ cache \in [Package -> [Version -> Build \cup {None, Torn}]]
      /\ installed \in [Package -> {None} \cup [build : Build, listed : Entry]]
      /\ tries \in [Proc -> 0..(RetryAttempts - 1)]
      /\ [tries EXCEPT ![p] = 0] \in [Proc -> 0..(RetryAttempts - 1)]
  <2>1. 0 \in 0..(RetryAttempts - 1)
    BY RepositoryAssumption
  <2> QED BY <2>1 DEF TypeOK
<1>1. CASE Find(p)
  <2>1. PICK l \in InOperation : Goto(p, l)
    BY <1>1 DEF Find, InOperation
  <2> QED BY <1>0, <1>1, <2>1, GoOnTyped DEF Find, InOperation
<1>2. CASE DownloadFails(p)
  <2>1. CASE EndOperation(p)
    BY <1>0, <1>2, <2>1, EndOperationTyped DEF DownloadFails, InOperation
  <2>2. CASE /\ tries[p] + 1 < RetryAttempts /\ tries' = [tries EXCEPT ![p] = @ + 1]
             /\ UNCHANGED <<pc, lock, meta>>
    <3>1. tries[p] + 1 \in 0..(RetryAttempts - 1)
      BY <1>0, <2>2, RepositoryAssumption
    <3>2. tries' \in [Proc -> 0..(RetryAttempts - 1)]
      BY <1>0, <2>2, <3>1
    <3>3. UNCHANGED <<cache, installed>> /\ KeepUpdate
      BY <1>2 DEF DownloadFails
    <3> QED BY <2>2, <3>2, <3>3 DEF TypeOK, KeepUpdate, Source
  <2> QED BY <1>2, <2>1, <2>2 DEF DownloadFails
<1>3. ASSUME NEW b \in Build, Download(p, b) PROVE TypeOK'
  <2>1. CASE EndOperation(p) /\ UNCHANGED cache
    BY <1>0, <1>3, <2>1, EndOperationTyped DEF Download, InOperation
  <2>2. CASE /\ Goto(p, "write") /\ Cache(p, Torn) /\ tries' = [tries EXCEPT ![p] = 0]
             /\ UNCHANGED <<lock, meta>>
    <3>1. cache' \in [Package -> [Version -> Build \cup {None, Torn}]]
      BY <1>3, <2>2, CacheTyped DEF Download, InOperation
    <3> QED BY <1>0, <1>3, <2>2, <3>1, GoOnTyped DEF Download, InOperation
  <2> QED BY <1>3, <2>1, <2>2 DEF Download
<1>4. CASE EndWrite(p)
  <2>1. meta[p] \in Entry
    BY <1>4 DEF EndWrite, TypeOK, InOperation
  <2>2. meta[p].build \in Build
    BY <2>1 DEF Entry
  <2>3. cache' \in [Package -> [Version -> Build \cup {None, Torn}]]
    BY <1>0, <1>4, <2>2, CacheTyped DEF EndWrite, InOperation
  <2> QED BY <1>0, <1>4, <2>3, GoOnTyped DEF EndWrite, InOperation
<1>5. CASE WriteFails(p)
  BY <1>0, <1>5, EndOperationTyped DEF WriteFails, InOperation
<1>6. CASE Verify(p)
  <2>1. CASE EndOperation(p)
    BY <1>0, <1>6, <2>1, EndOperationTyped DEF Verify, InOperation
  <2>2. CASE /\ Goto(p, IF installed[meta[p].name] = None THEN "extract" ELSE "swap")
             /\ UNCHANGED <<lock, tries, meta>>
    <3>1. PICK l \in InOperation : Goto(p, l)
      BY <2>2 DEF InOperation
    <3> QED BY <1>0, <1>6, <2>2, <3>1, GoOnTyped DEF Verify, InOperation
  <2> QED BY <1>6, <2>1, <2>2 DEF Verify
<1>7. CASE RemoveOld(p)
  <2>1. CASE EndOperation(p) /\ UNCHANGED installed
    BY <1>0, <1>7, <2>1, EndOperationTyped DEF RemoveOld, InOperation
  <2>2. CASE /\ installed' = [installed EXCEPT ![meta[p].name] = None] /\ Goto(p, "extract")
             /\ UNCHANGED <<lock, tries, meta>>
    <3>1. installed' \in [Package -> {None} \cup [build : Build, listed : Entry]]
      BY <1>0, <2>2
    <3> QED BY <1>0, <1>7, <2>2, <3>1, GoOnTyped DEF RemoveOld, InOperation
  <2> QED BY <1>7, <2>1, <2>2 DEF RemoveOld
<1>8. CASE Extract(p)
  <2>1. meta[p] \in Entry
    BY <1>8 DEF Extract, TypeOK, InOperation
  <2>2. \A b \in Build : Archive[b].manifest.name \in Package
    BY ArchiveAssumption DEF Manifest
  <2>3. installed' \in [Package -> {None} \cup [build : Build, listed : Entry]]
    <3>1. CASE UNCHANGED installed
      BY <1>0, <3>1
    <3>2. ASSUME NEW b \in Build,
                 installed' = [installed EXCEPT ![Archive[b].manifest.name] =
                                 [build |-> b, listed |-> meta[p]]]
          PROVE  installed' \in [Package -> {None} \cup [build : Build, listed : Entry]]
      BY <1>0, <2>1, <2>2, <3>2
    <3> QED BY <1>8, <3>1, <3>2 DEF Extract
  <2> QED BY <1>0, <1>8, <2>3, EndOperationTyped DEF Extract, InOperation
<1> QED BY <1>1, <1>2, <1>3, <1>4, <1>5, <1>6, <1>7, <1>8 DEF Operation

\* What install and upgrade take is an entry of the index in memory.
LEMMA BegunWithEntry ==
    ASSUME NEW p \in Proc, NEW n \in Package, BeginInstall(p, n) \/ BeginUpgrade(p, n)
    PROVE  \E e \in index[p] : BeginOperation(p, e)
BY DEF BeginInstall, BeginUpgrade, Latest, Best

\* Each step that begins something.
LEMMA StartTyped ==
    ASSUME TypeOK, NEW p \in Proc, Start(p) PROVE TypeOK'
<1>1. CASE Open(p)
  BY <1>1 DEF Open, Goto, TypeOK, store, fetch, Updating, InOperation, Source
<1>2. CASE BeginUpdate(p)
  <2>1. At(p, 1, 1) /\ pc' = [pc EXCEPT ![p] = "fetch"] /\ pc[p] = "idle"
        /\ UNCHANGED <<store, index, merged, overlap, meta>>
    BY <1>2 DEF BeginUpdate, Goto
  <2>2. /\ repo' \in [Proc -> DOMAIN Repositories] /\ url' \in [Proc -> Nat]
        /\ tries' \in [Proc -> 0..(RetryAttempts - 1)] /\ data' \in [Proc -> Doc \cup {None}]
        /\ \A q \in Proc : url'[q] \in 1..Repositories[repo'[q]].urls
    BY <2>1, AtTyped, FirstExists
  <2>3. \A q \in Proc : pc'[q] = "sig" => data'[q] \in Offers[repo'[q]]
    BY <2>1 DEF TypeOK, At
  <2> QED BY <2>1, <2>2, <2>3 DEF TypeOK, store, Updating, InOperation, Source
<1>3. ASSUME NEW n \in Package, BeginInstall(p, n) \/ BeginUpgrade(p, n) PROVE TypeOK'
  <2>0. PICK e \in index[p] : BeginOperation(p, e)
    BY <1>3, BegunWithEntry
  <2>1. meta' = [meta EXCEPT ![p] = e]
    BY <2>0 DEF BeginOperation
  <2>2. e \in Entry /\ e # None
    BY SpecialAssumption DEF TypeOK
  <2>3. /\ pc[p] = "idle" /\ lock = None /\ lock' = p /\ pc' = [pc EXCEPT ![p] = "find"]
        /\ UNCHANGED <<file, cache, installed, index, merged, fetch, overlap>>
    BY <2>0 DEF BeginOperation, Goto
  <2>4. \A q \in Proc : lock # q
    BY <2>3, SpecialAssumption
  <2>5. \A q \in Proc : /\ pc'[q] \in InOperation <=> meta'[q] # None
                        /\ lock' = q <=> pc'[q] \in InOperation
                        /\ pc'[q] = "sig" => data'[q] \in Offers[repo'[q]]
    BY <2>1, <2>2, <2>3, <2>4 DEF TypeOK, InOperation, fetch
  <2>6. meta' \in [Proc -> {None} \cup Entry] /\ lock' \in Proc
    BY <2>1, <2>2, <2>3 DEF TypeOK
  <2> QED BY <2>3, <2>5, <2>6 DEF TypeOK, fetch, Source, InOperation
<1>4. ASSUME NEW n \in Package, NEW v \in Version, Clean(p, n, v) PROVE TypeOK'
  BY <1>4 DEF Clean, TypeOK, fetch, Source
<1> QED BY <1>1, <1>2, <1>3, <1>4 DEF Start

\* A process dies.
LEMMA CrashTyped ==
    ASSUME TypeOK, NEW p \in Proc, Crash(p) PROVE TypeOK'
<1>1. /\ At(p, 1, 1) /\ pc' = [pc EXCEPT ![p] = "out"]
      /\ lock' = IF lock = p THEN Stale ELSE lock
      /\ index' = [index EXCEPT ![p] = {}] /\ merged' = [merged EXCEPT ![p] = {}]
      /\ meta' = [meta EXCEPT ![p] = None] /\ overlap' = [overlap EXCEPT ![p] = FALSE]
      /\ UNCHANGED <<file, cache, installed>>
  BY DEF Crash, Goto
<1>2. /\ repo' \in [Proc -> DOMAIN Repositories] /\ url' \in [Proc -> Nat]
      /\ tries' \in [Proc -> 0..(RetryAttempts - 1)] /\ data' \in [Proc -> Doc \cup {None}]
      /\ \A q \in Proc : url'[q] \in 1..Repositories[repo'[q]].urls
  BY <1>1, AtTyped, FirstExists
<1>3. \A q \in Proc : pc'[q] = "sig" => data'[q] \in Offers[repo'[q]]
  BY <1>1 DEF TypeOK, At
<1>4. \A q \in Proc : /\ pc'[q] \in InOperation <=> meta'[q] # None
                      /\ lock' = q <=> pc'[q] \in InOperation
  BY <1>1, SpecialAssumption DEF TypeOK, InOperation
<1> QED BY <1>1, <1>2, <1>3, <1>4 DEF TypeOK, Source

\* Every state is well typed; in particular the lock file is a live process's
\* exactly while it is in install or upgrade (lifecycle.rs:271, 629, lock.rs).
THEOREM TypeCorrect == Spec => []TypeOK
<1>1. Init => TypeOK
  <2>1. 0 \in 0..(RetryAttempts - 1)
    BY RepositoryAssumption
  <2> QED BY <2>1, FirstExists, SpecialAssumption
          DEF Init, TypeOK, Updating, InOperation, Source
<1>2. TypeOK /\ [Next]_vars => TypeOK'
  <2> SUFFICES ASSUME TypeOK, [Next]_vars PROVE TypeOK'
    OBVIOUS
  <2>1. CASE RemoveStaleLock
    BY <2>1, SpecialAssumption DEF RemoveStaleLock, TypeOK, fetch, Source
  <2>2. ASSUME NEW p \in Proc, Update(p) \/ Operation(p) \/ Start(p) \/ Crash(p)
        PROVE  TypeOK'
    BY <2>2, UpdateTyped, OperationTyped, StartTyped, CrashTyped
  <2>3. CASE UNCHANGED vars
    BY <2>3 DEF vars, TypeOK, Source
  <2> QED BY <2>1, <2>2, <2>3 DEF Next
<1> QED BY <1>1, <1>2, PTL DEF Spec

(***************************************************************************)
(* Safety.  The inductive invariant says where every entry that is kept    *)
(* comes from, and what an operation past its verification relies on.      *)
(***************************************************************************)
\* Entries in the file, in memory and in use come from genuine documents.
Sourced ==
    /\ file \notin {None, Torn} => \A e \in file : FromGenuine(e)
    /\ \A p \in Proc : /\ \A e \in index[p] \cup merged[p] : FromGenuine(e)
                       /\ meta[p] # None => FromGenuine(meta[p])
\* The signature over the payload's hash, if it is to have one, is in the entry.
SignedFor(e) ==
    LET m == Archive[e.build].manifest IN
    m.signer # None => /\ m.signer \in Trusted /\ e.sig # None
                       /\ e.sig.by = m.signer /\ e.sig.over = m.payload_sha256
\* After verification the archive is the verified one or gone.
Checked ==
    \A p \in Proc : pc[p] \in {"swap", "extract"} =>
      Cached(p) \in {None, meta[p].build} /\ SignedFor(meta[p])
SafeInv == Sourced /\ CacheOnlyVerified /\ Checked /\ InstalledAsListed

\* What update merges of a document it accepts, at its repository's priority.
LEMMA MergedIsGenuine ==
    ASSUME NEW r \in DOMAIN Repositories, NEW doc \in Offers[r], Listing[doc] # Unreadable,
           \/ Repositories[r].signer = None
           \/ \E sig \in Signature : Vouches(sig, doc, Repositories[r].signer)
    PROVE  \A e \in Stamped(doc, r) : FromGenuine(e)
<1>1. Genuine(r, doc)
  BY DEF Genuine, Vouches
<1>2. Stamped(doc, r) = Contribution(r, doc) /\ doc \in Doc
  BY FirstExists DEF Stamped, Contribution, Entries
<1> QED BY <1>1, <1>2 DEF FromGenuine

\* A document that is refused, or merged.
LEMMA MergeSourced ==
    ASSUME TypeOK, Sourced, NEW p \in Proc, NEW doc \in Offers[repo[p]], MergeOrFail(p, doc),
           \/ Source(p).signer = None
           \/ \E sig \in Signature : Vouches(sig, doc, Source(p).signer),
           UNCHANGED <<store, index, overlap, meta>>
    PROVE  Sourced'
<1>1. UNCHANGED <<file, index, meta>>
  BY DEF store
<1>2. CASE EndUpdate(p)
  BY <1>1, <1>2 DEF EndUpdate, Sourced, TypeOK, FromGenuine
<1>3. CASE Merge(p, doc) /\ Listing[doc] # Unreadable
  <2>1. repo[p] \in DOMAIN Repositories
    BY DEF TypeOK
  <2>2. \A e \in Stamped(doc, repo[p]) : FromGenuine(e)
    BY <1>3, <2>1, MergedIsGenuine DEF Source
  <2>3. merged' = [merged EXCEPT ![p] = @ \cup Stamped(doc, repo[p])]
    BY <1>3 DEF Merge
  <2>4. \A q \in Proc : \A e \in merged'[q] : FromGenuine(e)
    BY <2>2, <2>3 DEF Sourced, TypeOK
  <2> QED BY <1>1, <2>4 DEF Sourced
<1> QED BY <1>2, <1>3 DEF MergeOrFail

\* Every step keeps entries to those of genuine documents.
LEMMA SourcedKept ==
    ASSUME TypeOK, Sourced, [Next]_vars PROVE Sourced'
<1>1. ASSUME NEW p \in Proc, FetchFails(p) \/ SaveFails(p) PROVE Sourced'
  BY <1>1 DEF FetchFails, SaveFails, EndUpdate, Sourced, TypeOK, store
<1>2. ASSUME NEW p \in Proc, NEW doc \in Doc, FetchIndex(p, doc) PROVE Sourced'
  <2>1. CASE Source(p).signer = None /\ MergeOrFail(p, doc)
    BY <1>2, <2>1, MergeSourced DEF FetchIndex
  <2>2. CASE UNCHANGED merged
    BY <1>2, <2>2 DEF FetchIndex, Sourced, store
  <2> QED BY <1>2, <2>1, <2>2 DEF FetchIndex
<1>3. ASSUME NEW p \in Proc, NEW sig \in Signature, FetchSig(p, sig) PROVE Sourced'
  <2>1. data[p] \in Offers[repo[p]] /\ UNCHANGED <<store, index, overlap, meta>>
    BY <1>3 DEF FetchSig, TypeOK
  <2>2. CASE Vouches(sig, data[p], Source(p).signer) /\ MergeOrFail(p, data[p])
    BY <2>1, <2>2, MergeSourced
  <2>3. CASE EndUpdate(p)
    BY <2>1, <2>3 DEF EndUpdate, Sourced, TypeOK, store
  <2> QED BY <1>3, <2>2, <2>3 DEF FetchSig
<1>4. ASSUME NEW p \in Proc, BeginSave(p) PROVE Sourced'
  BY <1>4 DEF BeginSave, Sourced, fetch
<1>5. ASSUME NEW p \in Proc, EndSave(p) PROVE Sourced'
  <2>1. /\ file' = merged[p] \/ file' = Torn
        /\ index' = [index EXCEPT ![p] = merged[p]]
        /\ merged' = [merged EXCEPT ![p] = {}] /\ UNCHANGED meta
    BY <1>5 DEF EndSave, EndUpdate
  <2>2. \A e \in merged[p] : FromGenuine(e)
    BY DEF Sourced
  <2>3. \A q \in Proc : \A e \in index'[q] \cup merged'[q] : FromGenuine(e)
    BY <2>1, <2>2 DEF Sourced, TypeOK
  <2> QED BY <2>1, <2>2, <2>3 DEF Sourced
<1>6. ASSUME NEW p \in Proc, Operation(p) PROVE Sourced'
  <2>1. /\ UNCHANGED <<file, index, merged>>
        /\ UNCHANGED meta \/ meta' = [meta EXCEPT ![p] = None]
    BY <1>6 DEF Operation, Find, DownloadFails, Download, EndWrite, WriteFails, Verify,
                RemoveOld, Extract, EndOperation, KeepUpdate
  <2> QED BY <2>1 DEF Sourced, TypeOK
<1>7. ASSUME NEW p \in Proc, Open(p) PROVE Sourced'
  BY <1>7 DEF Open, Sourced, TypeOK, store
<1>8. ASSUME NEW p \in Proc, BeginUpdate(p) PROVE Sourced'
  BY <1>8 DEF BeginUpdate, Sourced, store
<1>9. ASSUME NEW p \in Proc, NEW n \in Package, BeginInstall(p, n) \/ BeginUpgrade(p, n)
      PROVE  Sourced'
  <2>1. PICK e \in index[p] : BeginOperation(p, e)
    BY <1>9, BegunWithEntry
  <2>2. UNCHANGED <<file, index, merged>> /\ FromGenuine(e) /\ meta' = [meta EXCEPT ![p] = e]
    BY <2>1 DEF BeginOperation, Sourced
  <2> QED BY <2>2 DEF Sourced, TypeOK
<1>10. ASSUME NEW p \in Proc, NEW n \in Package, NEW v \in Version, Clean(p, n, v)
       PROVE  Sourced'
  BY <1>10 DEF Clean, Sourced
<1>11. ASSUME NEW p \in Proc, Crash(p) PROVE Sourced'
  BY <1>11 DEF Crash, Sourced, TypeOK
<1>12. CASE RemoveStaleLock
  BY <1>12 DEF RemoveStaleLock, Sourced
<1>13. CASE UNCHANGED vars
  BY <1>13 DEF vars, Sourced
<1> QED BY <1>1, <1>2, <1>3, <1>4, <1>5, <1>6, <1>7, <1>8, <1>9, <1>10, <1>11, <1>12, <1>13
        DEF Next, Update, Start

\* The archive an entry of a genuine document lists may lie under its name.
LEMMA GenuineListed ==
    ASSUME NEW e, FromGenuine(e)
    PROVE  \E r \in DOMAIN Repositories : \E doc \in Doc :
             /\ Genuine(r, doc)
             /\ \E d \in Listing[doc] : d.name = e.name /\ d.version = e.version /\ d.build = e.build
<1>1. PICK r \in DOMAIN Repositories, doc \in Doc :
        Genuine(r, doc) /\ e \in Contribution(r, doc)
  BY DEF FromGenuine
<1>2. PICK d \in Listing[doc] : e = [d EXCEPT !.priority = Repositories[r].priority]
  BY <1>1 DEF Contribution
<1>3. d \in Published
  BY <1>1, ListingAssumption DEF Genuine
<1>4. d.name = e.name /\ d.version = e.version /\ d.build = e.build
  BY <1>2, <1>3 DEF Published
<1> QED BY <1>1, <1>4

\* What a step may do to the cache: nothing, delete or half write an archive,
\* or complete the one the entry lists.
LEMMA CacheSteps ==
    ASSUME TypeOK, [Next]_vars
    PROVE  \/ UNCHANGED cache
           \/ \E p \in Proc : pc[p] = "download" /\ Cache(p, Torn)
           \/ \E p \in Proc : pc[p] = "write" /\ Cache(p, meta[p].build)
           \/ \E p \in Proc, n \in Package, v \in Version : Clean(p, n, v)
<1>1. CASE UNCHANGED vars
  BY <1>1 DEF vars
<1>2. CASE RemoveStaleLock
  BY <1>2 DEF RemoveStaleLock
<1>3. ASSUME NEW p \in Proc, Update(p) PROVE UNCHANGED cache
  BY <1>3 DEF Update, FetchFails, FetchIndex, FetchSig, BeginSave, EndSave, SaveFails, store
<1>4. ASSUME NEW p \in Proc, Start(p)
      PROVE  UNCHANGED cache \/ \E n \in Package, v \in Version : Clean(p, n, v)
  BY <1>4 DEF Start, Open, BeginUpdate, BeginInstall, BeginUpgrade, BeginOperation, store
<1>5. ASSUME NEW p \in Proc, Crash(p) PROVE UNCHANGED cache
  BY <1>5 DEF Crash
<1>6. ASSUME NEW p \in Proc, Operation(p)
      PROVE  \/ UNCHANGED cache
             \/ pc[p] = "download" /\ Cache(p, Torn)
             \/ pc[p] = "write" /\ Cache(p, meta[p].build)
  BY <1>6 DEF Operation, Find, DownloadFails, Download, EndWrite, WriteFails, Verify,
              RemoveOld, Extract
<1> QED BY <1>1, <1>2, <1>3, <1>4, <1>5, <1>6 DEF Next

\* Every step keeps the cache to archives that a genuine document lists.
LEMMA CacheKept ==
    ASSUME TypeOK, Sourced, CacheOnlyVerified, [Next]_vars PROVE CacheOnlyVerified'
<1> DEFINE Ok(n, v, b) ==
      \E r \in DOMAIN Repositories : \E doc \in Doc :
          /\ Genuine(r, doc)
          /\ \E e \in Listing[doc] : e.name = n /\ e.version = v /\ e.build = b
<1> SUFFICES ASSUME NEW n \in Package, NEW v \in Version, cache'[n][v] \in Build
             PROVE  Ok(n, v, cache'[n][v])
  BY DEF CacheOnlyVerified, Genuine
<1>1. cache[n][v] \in Build => Ok(n, v, cache[n][v])
  BY DEF CacheOnlyVerified
<1> HIDE DEF Ok
<1>2. CASE UNCHANGED cache
  BY <1>1, <1>2
<1>3. ASSUME NEW p \in Proc, pc[p] = "download", Cache(p, Torn)
      PROVE  Ok(n, v, cache'[n][v])
  <2>1. CASE n = meta[p].name /\ v = meta[p].version
    BY <1>3, <2>1, SpecialAssumption DEF Cache, TypeOK
  <2>2. CASE ~(n = meta[p].name /\ v = meta[p].version)
    BY <1>1, <1>3, <2>2 DEF Cache, TypeOK
  <2> QED BY <2>1, <2>2
<1>4. ASSUME NEW p \in Proc, pc[p] = "write", Cache(p, meta[p].build)
      PROVE  Ok(n, v, cache'[n][v])
  <2>1. CASE n = meta[p].name /\ v = meta[p].version
    <3>1. FromGenuine(meta[p])
      BY <1>4 DEF Sourced, TypeOK, InOperation
    <3>2. cache'[n][v] = meta[p].build
      BY <1>4, <2>1 DEF Cache, TypeOK
    <3> QED BY <2>1, <3>1, <3>2, GenuineListed DEF Ok
  <2>2. CASE ~(n = meta[p].name /\ v = meta[p].version)
    BY <1>1, <1>4, <2>2 DEF Cache, TypeOK
  <2> QED BY <2>1, <2>2
<1>5. ASSUME NEW p \in Proc, NEW m \in Package, NEW w \in Version, Clean(p, m, w)
      PROVE  Ok(n, v, cache'[n][v])
  BY <1>1, <1>5, SpecialAssumption DEF Clean, TypeOK
<1> QED BY <1>2, <1>3, <1>4, <1>5, CacheSteps

\* Only the holder of the lock file changes the entries in use, what is
\* installed and where operations are; another process may only begin one.
LEMMA OthersStandStill ==
    ASSUME TypeOK, [Next]_vars, NEW q \in Proc, pc[q] \in InOperation, ~Operation(q), ~Crash(q)
    PROVE  /\ pc'[q] = pc[q] /\ meta'[q] = meta[q] /\ UNCHANGED installed
           /\ UNCHANGED cache \/ \E p \in Proc, n \in Package, v \in Version : Clean(p, n, v)
<1>1. \A p \in Proc : pc[p] \in InOperation => p = q
  BY DEF TypeOK
<1>2. CASE UNCHANGED vars
  BY <1>2 DEF vars
<1>3. CASE RemoveStaleLock
  BY <1>3 DEF RemoveStaleLock
<1>4. ASSUME NEW p \in Proc, Update(p)
      PROVE  pc'[q] = pc[q] /\ meta'[q] = meta[q] /\ UNCHANGED <<installed, cache>>
  <2>1. p # q
    BY <1>4 DEF Update, FetchFails, FetchIndex, FetchSig, BeginSave, EndSave, SaveFails,
                InOperation
  <2>2. UNCHANGED meta /\ (UNCHANGED pc \/ \E l \in Updating \cup {"idle"} : Goto(p, l))
    BY <1>4 DEF Update, FetchFails, FetchIndex, FetchSig, BeginSave, EndSave, SaveFails,
                MergeOrFail, Merge, EndUpdate, Updating
  <2>3. UNCHANGED <<installed, cache>>
    BY <1>4 DEF Update, FetchFails, FetchIndex, FetchSig, BeginSave, EndSave, SaveFails, store
  <2> QED BY <2>1, <2>2, <2>3 DEF Goto, TypeOK
<1>5. ASSUME NEW p \in Proc, Operation(p) PROVE FALSE
  BY <1>1, <1>5 DEF Operation, Find, DownloadFails, Download, EndWrite, WriteFails, Verify,
                    RemoveOld, Extract, InOperation
<1>6. ASSUME NEW p \in Proc, Start(p)
      PROVE  /\ pc'[q] = pc[q] /\ meta'[q] = meta[q] /\ UNCHANGED installed
             /\ UNCHANGED cache \/ \E n \in Package, v \in Version : Clean(p, n, v)
  BY <1>6 DEF Start, Open, BeginUpdate, BeginInstall, BeginUpgrade, BeginOperation, Clean,
              Goto, store, TypeOK, InOperation
<1>7. ASSUME NEW p \in Proc, Crash(p)
      PROVE  pc'[q] = pc[q] /\ meta'[q] = meta[q] /\ UNCHANGED <<installed, cache>>
  <2>1. p # q
    BY <1>7
  <2> QED BY <1>7, <2>1 DEF Crash, Goto, TypeOK
<1> QED BY <1>2, <1>3, <1>4, <1>5, <1>6, <1>7 DEF Next

\* An operation reaches the removal or the extraction by its verification.
LEMMA PastVerification ==
    ASSUME TypeOK, NEW q \in Proc, Operation(q), pc'[q] \in {"swap", "extract"}
    PROVE  UNCHANGED <<cache, meta>> /\ (Verified(q) \/ pc[q] = "swap")
<1>0. \A l : Goto(q, l) => pc'[q] = l
  BY DEF TypeOK, Goto
<1>1. ~EndOperation(q)
  BY <1>0 DEF EndOperation
<1>2. ~Find(q) /\ ~EndWrite(q) /\ ~WriteFails(q) /\ ~Extract(q)
  BY <1>0, <1>1 DEF Find, EndWrite, WriteFails, Extract
<1>3. ~DownloadFails(q) /\ ~(\E b \in Build : Download(q, b))
  BY <1>0, <1>1 DEF DownloadFails, Download, TypeOK
<1>4. CASE Verify(q)
  BY <1>1, <1>4 DEF Verify
<1>5. CASE RemoveOld(q)
  BY <1>1, <1>5 DEF RemoveOld
<1> QED BY <1>2, <1>3, <1>4, <1>5 DEF Operation

\* An operation is there only by a step of its own.
LEMMA EnteredByOperation ==
    ASSUME TypeOK, [Next]_vars, NEW q \in Proc, ~Operation(q), pc'[q] \in {"swap", "extract"}
    PROVE  pc[q] \in InOperation /\ ~Crash(q)
<1>1. \A p \in Proc : \A l : Goto(p, l) => pc'[p] = l /\ (p # q => pc'[q] = pc[q])
  BY DEF TypeOK, Goto
<1>2. ~Crash(q) /\ \A p \in Proc : Crash(p) => pc'[q] = pc[q]
  BY <1>1 DEF Crash
<1>3. ASSUME NEW p \in Proc, Update(p) PROVE pc'[q] = pc[q]
  <2>1. UNCHANGED pc \/ \E l \in Updating \cup {"idle"} : Goto(p, l)
    BY <1>3 DEF Update, FetchFails, FetchIndex, FetchSig, BeginSave, EndSave, SaveFails,
                MergeOrFail, Merge, EndUpdate, Updating
  <2> QED BY <1>1, <2>1 DEF Updating
<1>4. ASSUME NEW p \in Proc, Start(p) PROVE pc'[q] = pc[q]
  <2>1. UNCHANGED pc \/ \E l \in {"idle", "fetch", "find"} : Goto(p, l)
    BY <1>4 DEF Start, Open, BeginUpdate, BeginInstall, BeginUpgrade, BeginOperation, Clean
  <2> QED BY <1>1, <2>1
<1>5. ASSUME NEW p \in Proc, Operation(p) PROVE pc'[q] = pc[q]
  <2>1. UNCHANGED pc \/ \E l : Goto(p, l)
    BY <1>5 DEF Operation, Find, DownloadFails, Download, EndWrite, WriteFails, Verify,
                RemoveOld, Extract, EndOperation
  <2> QED BY <1>1, <1>5, <2>1
<1>6. RemoveStaleLock \/ UNCHANGED vars => pc'[q] = pc[q]
  BY DEF RemoveStaleLock, vars
<1>7. pc'[q] = pc[q]
  BY <1>2, <1>3, <1>4, <1>5, <1>6 DEF Next
<1> QED BY <1>2, <1>7 DEF InOperation

\* Every step keeps the verified archive where it is, or deletes it.
LEMMA CheckedKept ==
    ASSUME TypeOK, TypeOK', Checked, [Next]_vars PROVE Checked'
<1> SUFFICES ASSUME NEW q \in Proc, pc'[q] \in {"swap", "extract"}
             PROVE  Cached(q)' \in {None, meta'[q].build} /\ SignedFor(meta'[q])
  BY DEF Checked, SignedFor
<1>2. CASE Operation(q)
  <2>1. UNCHANGED <<cache, meta>> /\ (Verified(q) \/ pc[q] = "swap")
    BY <1>2, PastVerification
  <2>2. CASE Verified(q)
    BY <2>1, <2>2 DEF Verified, Vouches, SignedFor, Cached
  <2>3. CASE pc[q] = "swap"
    BY <2>1, <2>3 DEF Checked, Cached
  <2> QED BY <2>1, <2>2, <2>3
<1>3. CASE ~Operation(q)
  <2>1. pc[q] \in InOperation /\ ~Crash(q)
    BY <1>3, EnteredByOperation
  <2>2. /\ pc'[q] = pc[q] /\ meta'[q] = meta[q]
        /\ UNCHANGED cache \/ \E p \in Proc, n \in Package, v \in Version : Clean(p, n, v)
    BY <1>3, <2>1, OthersStandStill
  <2>3. meta[q] \in Entry
    BY <2>1 DEF TypeOK
  <2>4. meta[q].name \in Package /\ meta[q].version \in Version
    BY <2>3 DEF Entry
  <2>5. \A n \in Package, v \in Version : cache'[n][v] \in {None, cache[n][v]}
    <3>1. CASE UNCHANGED cache
      BY <3>1
    <3>2. ASSUME NEW p \in Proc, NEW m \in Package, NEW w \in Version,
                 cache' = [cache EXCEPT ![m][w] = None]
          PROVE  \A n \in Package, v \in Version : cache'[n][v] \in {None, cache[n][v]}
      BY <3>2 DEF TypeOK
    <3> QED BY <2>2, <3>1, <3>2 DEF Clean
  <2>6. Cached(q)' \in {None, Cached(q)}
    BY <2>2, <2>4, <2>5 DEF Cached
  <2> QED BY <2>1, <2>2, <2>6 DEF Checked
<1> QED BY <1>2, <1>3

\* Archive b, whose payload is the one its manifest describes, goes in under its
\* manifest's name, on the strength of entry e.
Placed(b, e) ==
    /\ Archive[b].payload = Archive[b].manifest.payload_sha256
    /\ installed' = [installed EXCEPT ![Archive[b].manifest.name] = [build |-> b, listed |-> e]]

\* What a step may do to what is installed: nothing, remove, or install the
\* verified archive.
LEMMA InstalledSteps ==
    ASSUME TypeOK, Checked, [Next]_vars
    PROVE  \/ UNCHANGED installed
           \/ \E p \in Proc : /\ pc[p] = "swap"
                              /\ installed' = [installed EXCEPT ![meta[p].name] = None]
           \/ \E p \in Proc : pc[p] = "extract" /\ Placed(meta[p].build, meta[p])
<1>1. CASE UNCHANGED vars
  BY <1>1 DEF vars
<1>2. CASE RemoveStaleLock
  BY <1>2 DEF RemoveStaleLock
<1>3. ASSUME NEW p \in Proc, Update(p) PROVE UNCHANGED installed
  BY <1>3 DEF Update, FetchFails, FetchIndex, FetchSig, BeginSave, EndSave, SaveFails, store
<1>4. ASSUME NEW p \in Proc, Start(p) \/ Crash(p) PROVE UNCHANGED installed
  BY <1>4 DEF Start, Open, BeginUpdate, BeginInstall, BeginUpgrade, BeginOperation, Clean,
              Crash, store
<1>5. ASSUME NEW p \in Proc, Extract(p)
      PROVE  UNCHANGED installed \/ (pc[p] = "extract" /\ Placed(meta[p].build, meta[p]))
  <2>1. CASE UNCHANGED installed
    BY <2>1
  <2>2. ASSUME NEW b \in Build, Cached(p) = b, Placed(b, meta[p])
        PROVE  pc[p] = "extract" /\ Placed(meta[p].build, meta[p])
    <3>1. pc[p] = "extract" /\ b \in {None, meta[p].build}
      BY <1>5, <2>2 DEF Extract, Checked
    <3> QED BY <2>2, <3>1, SpecialAssumption
  <2> QED BY <1>5, <2>1, <2>2 DEF Extract, Placed
<1>6. ASSUME NEW p \in Proc, RemoveOld(p)
      PROVE  \/ UNCHANGED installed
             \/ pc[p] = "swap" /\ installed' = [installed EXCEPT ![meta[p].name] = None]
  BY <1>6 DEF RemoveOld
<1>7. ASSUME NEW p \in Proc, Operation(p), ~Extract(p), ~RemoveOld(p)
      PROVE  UNCHANGED installed
  BY <1>7 DEF Operation, Find, DownloadFails, Download, EndWrite, WriteFails, Verify
<1> QED BY <1>1, <1>2, <1>3, <1>4, <1>5, <1>6, <1>7 DEF Next

\* Every step keeps what is installed to what genuine entries list.
LEMMA InstalledKept ==
    ASSUME TypeOK, Sourced, Checked, InstalledAsListed, [Next]_vars
    PROVE  InstalledAsListed'
<1> SUFFICES ASSUME NEW n \in Package, installed'[n] # None
             PROVE  AsListed(installed'[n].build, installed'[n].listed)
  BY DEF InstalledAsListed
<1>1. CASE installed'[n] = installed[n]
  BY <1>1 DEF InstalledAsListed
<1>2. ASSUME NEW p \in Proc, pc[p] = "extract", Placed(meta[p].build, meta[p])
      PROVE  AsListed(installed'[n].build, installed'[n].listed)
  <2>1. FromGenuine(meta[p]) /\ SignedFor(meta[p])
    BY <1>2 DEF Sourced, Checked, TypeOK, InOperation
  <2>2. AsListed(meta[p].build, meta[p])
    BY <1>2, <2>1 DEF AsListed, SignedFor, Placed
  <2>3. CASE n = Archive[meta[p].build].manifest.name
    <3>1. installed'[n] = [build |-> meta[p].build, listed |-> meta[p]]
      BY <1>2, <2>3 DEF Placed, TypeOK
    <3> QED BY <2>2, <3>1
  <2>4. CASE n # Archive[meta[p].build].manifest.name
    BY <1>1, <1>2, <2>4 DEF Placed, TypeOK
  <2> QED BY <2>3, <2>4
<1>3. ASSUME NEW p \in Proc, installed' = [installed EXCEPT ![meta[p].name] = None]
      PROVE  installed'[n] = installed[n]
  BY <1>3 DEF TypeOK
<1> QED BY <1>1, <1>2, <1>3, InstalledSteps

\* The four parts hold in every state.
LEMMA SafeInvariant == Spec => []SafeInv
<1>1. Init => SafeInv
  BY SpecialAssumption DEF Init, SafeInv, Sourced, CacheOnlyVerified, Checked, InstalledAsListed
<1>2. TypeOK /\ TypeOK' /\ SafeInv /\ [Next]_vars => SafeInv'
  BY SourcedKept, CacheKept, CheckedKept, InstalledKept DEF SafeInv
<1> QED BY <1>1, <1>2, TypeCorrect, PTL DEF Spec

\* The archive cache holds nothing but what a genuine index lists under that
\* name and version (download.rs:84-98), whoever writes it and dies over it.
THEOREM CacheIsVerified == Spec => []CacheOnlyVerified
<1>1. SafeInv => CacheOnlyVerified
  BY DEF SafeInv
<1> QED BY <1>1, SafeInvariant, PTL

\* What is installed is the archive that an entry of a genuine index lists, and if
\* it names a signer, its payload is one that this trusted signer has signed
\* (lifecycle.rs:192-223, signature.rs:20-45, transaction.rs:62-75), clean or no
\* clean, whatever name and version its unsigned manifest gives it.
THEOREM InstalledIsListed == Spec => []InstalledAsListed
<1>1. SafeInv => InstalledAsListed
  BY DEF SafeInv
<1> QED BY <1>1, SafeInvariant, PTL

\* Without clean beside an operation, the archive verified before the old
\* version is removed is still there to be extracted (lifecycle.rs:712-715).
THEOREM ReplacementIsReady ==
    ASSUME CleanRacing = FALSE PROVE Spec => []ReplacementReady
<1>1. Init => ReplacementReady
  BY DEF Init, ReplacementReady
<1>2. TypeOK /\ TypeOK' /\ SafeInv /\ ReplacementReady /\ [Next]_vars => ReplacementReady'
  <2> SUFFICES ASSUME TypeOK, TypeOK', ReplacementReady, [Next]_vars,
                      NEW q \in Proc, pc'[q] \in {"swap", "extract"}
               PROVE  Cached(q)' = meta'[q].build
    BY DEF ReplacementReady
  <2>1. CASE Operation(q)
    <3>1. UNCHANGED <<cache, meta>> /\ (Verified(q) \/ pc[q] = "swap")
      BY <2>1, PastVerification
    <3> QED BY <3>1 DEF Verified, ReplacementReady, Cached
  <2>2. CASE ~Operation(q)
    <3>1. pc[q] \in InOperation /\ ~Crash(q)
      BY <2>2, EnteredByOperation
    <3>2. /\ pc'[q] = pc[q] /\ meta'[q] = meta[q]
          /\ UNCHANGED cache \/ \E p \in Proc, n \in Package, v \in Version : Clean(p, n, v)
      BY <2>2, <3>1, OthersStandStill
    <3>3. ~\E p \in Proc, n \in Package, v \in Version : Clean(p, n, v)
      BY <3>1 DEF Clean
    <3> QED BY <3>2, <3>3 DEF ReplacementReady, Cached
  <2> QED BY <2>1, <2>2
<1> QED BY <1>1, <1>2, TypeCorrect, SafeInvariant, PTL DEF Spec

(***************************************************************************)
(* The index.  While update is under way, what it has merged is the union  *)
(* of one genuine document of each of the first k repositories.            *)
(***************************************************************************)
MergeOfFirst(entries, k) ==
    \E f \in [1..k -> Doc] :
      /\ \A r \in 1..k : Genuine(r, f[r])
      /\ entries = UNION {Contribution(r, f[r]) : r \in 1..k}
Mergings ==
    \A p \in Proc :
      /\ pc[p] \in {"fetch", "sig"} => MergeOfFirst(merged[p], repo[p] - 1)
      /\ pc[p] \in {"save", "saving"} => MergeOfFirst(merged[p], Len(Repositories))
      /\ pc[p] \notin Updating => merged[p] = {}

\* Of no repository, nothing.
LEMMA MergeOfNone == MergeOfFirst({}, 0)
<1> DEFINE f == [r \in 1..0 |-> 0]
<1>1. f \in [1..0 -> Doc] /\ 1..0 = {}
  OBVIOUS
<1>2. UNION {Contribution(r, f[r]) : r \in 1..0} = {}
  BY <1>1
<1> QED BY <1>1, <1>2 DEF MergeOfFirst

\* One more repository contributes.
LEMMA MergeOfNext ==
    ASSUME NEW k \in Nat, NEW entries, MergeOfFirst(entries, k),
           NEW doc \in Doc, Genuine(k + 1, doc)
    PROVE  MergeOfFirst(entries \cup Contribution(k + 1, doc), k + 1)
<1>1. PICK f \in [1..k -> Doc] : /\ \A r \in 1..k : Genuine(r, f[r])
                                 /\ entries = UNION {Contribution(r, f[r]) : r \in 1..k}
  BY DEF MergeOfFirst
<1> DEFINE g == [r \in 1..(k + 1) |-> IF r = k + 1 THEN doc ELSE f[r]]
<1>2. 1..(k + 1) = (1..k) \cup {k + 1} /\ k + 1 \notin 1..k
  OBVIOUS
<1>3. g[k + 1] = doc /\ \A r \in 1..k : g[r] = f[r]
  BY <1>2
<1>4. g \in [1..(k + 1) -> Doc]
  BY <1>1, <1>2
<1>5. \A r \in 1..(k + 1) : Genuine(r, g[r])
  BY <1>1, <1>2, <1>3
<1> HIDE DEF g
<1>6. UNION {Contribution(r, g[r]) : r \in 1..(k + 1)}
        = (UNION {Contribution(r, g[r]) : r \in 1..k}) \cup Contribution(k + 1, g[k + 1])
  BY <1>2
<1>7. UNION {Contribution(r, g[r]) : r \in 1..k} = UNION {Contribution(r, f[r]) : r \in 1..k}
  <2>1. {Contribution(r, g[r]) : r \in 1..k} = {Contribution(r, f[r]) : r \in 1..k}
    BY <1>3
  <2> QED BY <2>1
<1> QED BY <1>1, <1>3, <1>4, <1>5, <1>6, <1>7 DEF MergeOfFirst

\* A document of each repository is what an index is.
LEMMA MergeOfAll ==
    ASSUME NEW entries, MergeOfFirst(entries, Len(Repositories)) PROVE entries \in Merges
BY FirstExists DEF MergeOfFirst, Merges, Choices

\* A document that may be merged is one its repository vouches for.
LEMMA AcceptedIsGenuine ==
    ASSUME NEW r \in DOMAIN Repositories, NEW doc \in Offers[r], Listing[doc] # Unreadable,
           \/ Repositories[r].signer = None
           \/ \E sig \in Signature : Vouches(sig, doc, Repositories[r].signer)
    PROVE  Genuine(r, doc) /\ Stamped(doc, r) = Contribution(r, doc) /\ doc \in Doc
BY FirstExists DEF Genuine, Vouches, Stamped, Contribution, Entries

\* update returns: what it has merged is dropped.
LEMMA EndUpdateMerging ==
    ASSUME TypeOK, Mergings, NEW p \in Proc, EndUpdate(p) PROVE Mergings'
<1>1. pc'[p] = "idle" /\ merged'[p] = {}
  BY DEF EndUpdate, Goto, TypeOK
<1>2. \A q \in Proc : q # p => pc'[q] = pc[q] /\ merged'[q] = merged[q] /\ repo'[q] = repo[q]
  BY DEF EndUpdate, Goto, At, TypeOK
<1> QED BY <1>1, <1>2 DEF Mergings, Updating
\* One more document is merged, or refused.
LEMMA MergeMerging ==
    ASSUME TypeOK, Mergings, NEW p \in Proc, pc[p] \in {"fetch", "sig"},
           NEW doc \in Offers[repo[p]], MergeOrFail(p, doc),
           \/ Source(p).signer = None
           \/ \E sig \in Signature : Vouches(sig, doc, Source(p).signer)
    PROVE  Mergings'
<1>1. CASE EndUpdate(p)
  BY <1>1, EndUpdateMerging
<1>2. CASE Merge(p, doc) /\ Listing[doc] # Unreadable
  <2>1. repo[p] \in 1..Len(Repositories) /\ repo[p] \in DOMAIN Repositories
    BY FirstExists DEF TypeOK
  <2>2. Genuine(repo[p], doc) /\ Stamped(doc, repo[p]) = Contribution(repo[p], doc) /\ doc \in Doc
    BY <1>2, <2>1, AcceptedIsGenuine DEF Source
  <2>3. MergeOfFirst(merged[p], repo[p] - 1)
    BY DEF Mergings
  <2>4. merged'[p] = merged[p] \cup Contribution(repo[p], doc)
    BY <1>2, <2>2 DEF Merge, TypeOK
  <2>5. MergeOfFirst(merged'[p], repo[p])
    <3>1. repo[p] - 1 \in Nat /\ (repo[p] - 1) + 1 = repo[p]
      BY <2>1
    <3> QED BY <2>2, <2>3, <2>4, <3>1, MergeOfNext
  <2>6. \/ pc'[p] = "fetch" /\ repo'[p] = repo[p] + 1
        \/ pc'[p] = "save" /\ repo[p] = Len(Repositories)
    BY <1>2, <2>1, FirstExists DEF Merge, Goto, At, TypeOK
  <2>7. pc'[p] = "fetch" => repo'[p] - 1 = repo[p]
    BY <2>1, <2>6
  <2>8. \A q \in Proc : q # p => pc'[q] = pc[q] /\ merged'[q] = merged[q] /\ repo'[q] = repo[q]
    BY <1>2 DEF Merge, Goto, At, TypeOK
  <2> QED BY <2>5, <2>6, <2>7, <2>8 DEF Mergings, Updating
<1> QED BY <1>1, <1>2 DEF MergeOrFail

\* Every step of every process keeps what is merged whole.
LEMMA MergingsKept ==
    ASSUME TypeOK, Mergings, [Next]_vars PROVE Mergings'
<1>1. ASSUME NEW p \in Proc, FetchFails(p) PROVE Mergings'
  <2>1. CASE EndUpdate(p)
    BY <2>1, EndUpdateMerging
  <2>2. CASE Goto(p, "fetch") /\ At(p, repo[p], url[p] + 1) /\ UNCHANGED merged
    BY <1>1, <2>2 DEF FetchFails, Goto, At, TypeOK, Mergings, Updating
  <2>3. CASE UNCHANGED <<pc, merged, repo, url, data>>
    BY <2>3 DEF Mergings
  <2> QED BY <1>1, <2>1, <2>2, <2>3 DEF FetchFails
<1>2. ASSUME NEW p \in Proc, NEW doc \in Doc, FetchIndex(p, doc) PROVE Mergings'
  <2>1. CASE Source(p).signer = None /\ MergeOrFail(p, doc)
    BY <1>2, <2>1, MergeMerging DEF FetchIndex
  <2>2. CASE Goto(p, "sig") /\ UNCHANGED <<merged, repo, url>>
    BY <1>2, <2>2 DEF FetchIndex, Goto, TypeOK, Mergings, Updating
  <2> QED BY <1>2, <2>1, <2>2 DEF FetchIndex
<1>3. ASSUME NEW p \in Proc, NEW sig \in Signature, FetchSig(p, sig) PROVE Mergings'
  <2>1. data[p] \in Offers[repo[p]] /\ pc[p] = "sig"
    BY <1>3 DEF FetchSig, TypeOK
  <2>2. CASE Vouches(sig, data[p], Source(p).signer) /\ MergeOrFail(p, data[p])
    BY <2>1, <2>2, MergeMerging
  <2>3. CASE EndUpdate(p)
    BY <2>3, EndUpdateMerging
  <2> QED BY <1>3, <2>2, <2>3 DEF FetchSig
<1>4. ASSUME NEW p \in Proc, BeginSave(p) PROVE Mergings'
  BY <1>4 DEF BeginSave, fetch, Goto, TypeOK, Mergings, Updating
<1>5. ASSUME NEW p \in Proc, EndSave(p) \/ SaveFails(p) PROVE Mergings'
  BY <1>5, EndUpdateMerging DEF EndSave, SaveFails
<1>6. ASSUME NEW p \in Proc, Operation(p) PROVE Mergings'
  <2>1. UNCHANGED <<merged, repo>> /\ pc[p] \notin Updating
    BY <1>6 DEF Operation, Find, DownloadFails, Download, EndWrite, WriteFails, Verify,
                RemoveOld, Extract, KeepUpdate, Updating
  <2>2. UNCHANGED pc \/ \E l \in InOperation \cup {"idle"} : Goto(p, l)
    BY <1>6 DEF Operation, Find, DownloadFails, Download, EndWrite, WriteFails, Verify,
                RemoveOld, Extract, EndOperation, InOperation
  <2>3. \A q \in Proc : pc'[q] = pc[q] \/ (q = p /\ pc'[q] \in InOperation \cup {"idle"})
    BY <2>2 DEF Goto, TypeOK
  <2>4. \A q \in Proc : pc'[q] = pc[q] \/ (pc[q] \notin Updating /\ pc'[q] \notin Updating)
    BY <2>1, <2>3 DEF InOperation, Updating
  <2> QED BY <2>1, <2>4 DEF Mergings, Updating
<1>7. ASSUME NEW p \in Proc, Open(p) PROVE Mergings'
  BY <1>7 DEF Open, fetch, Goto, TypeOK, Mergings, Updating
<1>8. ASSUME NEW p \in Proc, BeginUpdate(p) PROVE Mergings'
  <2>1. pc'[p] = "fetch" /\ repo'[p] = 1 /\ merged'[p] = {}
    BY <1>8 DEF BeginUpdate, Goto, At, TypeOK, Mergings, Updating
  <2>2. \A q \in Proc : q # p => pc'[q] = pc[q] /\ merged'[q] = merged[q] /\ repo'[q] = repo[q]
    BY <1>8 DEF BeginUpdate, Goto, At, TypeOK
  <2>3. MergeOfFirst(merged'[p], repo'[p] - 1)
    <3>1. repo'[p] - 1 = 0
      BY <2>1
    <3> QED BY <2>1, <3>1, MergeOfNone
  <2> QED BY <2>1, <2>2, <2>3 DEF Mergings, Updating
<1>9. ASSUME NEW p \in Proc, NEW n \in Package, BeginInstall(p, n) \/ BeginUpgrade(p, n)
      PROVE  Mergings'
  <2>1. PICK e \in index[p] : BeginOperation(p, e)
    BY <1>9, BegunWithEntry
  <2> QED BY <2>1 DEF BeginOperation, fetch, Goto, TypeOK, Mergings, Updating
<1>10. ASSUME NEW p \in Proc, NEW n \in Package, NEW v \in Version, Clean(p, n, v)
       PROVE  Mergings'
  BY <1>10 DEF Clean, fetch, Mergings
<1>11. ASSUME NEW p \in Proc, Crash(p) PROVE Mergings'
  BY <1>11 DEF Crash, Goto, At, TypeOK, Mergings, Updating
<1>12. CASE RemoveStaleLock \/ UNCHANGED vars
  BY <1>12 DEF RemoveStaleLock, vars, fetch, Mergings
<1> QED BY <1>1, <1>2, <1>3, <1>4, <1>5, <1>6, <1>7, <1>8, <1>9, <1>10, <1>11, <1>12
        DEF Next, Update, Start

\* An index is a whole genuine document of every repository, or nothing, after
\* any number of updates, of any processes, that fail or end anywhere
\* (lifecycle.rs:112-183, index.rs:18-29).
THEOREM IndexIsWhole == Spec => []IndexIsMerge
<1>1. Init => Mergings /\ IndexIsMerge
  BY DEF Init, Mergings, IndexIsMerge, Updating
<1>2. TypeOK /\ Mergings /\ [Next]_vars => Mergings'
  BY MergingsKept
<1>3. TypeOK /\ Mergings /\ IndexIsMerge /\ [Next]_vars => IndexIsMerge'
  <2> SUFFICES ASSUME TypeOK, Mergings, IndexIsMerge, [Next]_vars
               PROVE  /\ file' \in {None, Torn} \cup Merges
                      /\ \A q \in Proc : index'[q] \in {{}} \cup Merges
    BY DEF IndexIsMerge, Merges, Choices, Genuine, Contribution
  <2>1. \/ UNCHANGED <<file, index>>
        \/ file' = Torn /\ UNCHANGED index
        \/ \E p \in Proc : EndSave(p) \/ Open(p) \/ Crash(p)
    <3>1. ASSUME NEW p \in Proc, Operation(p) PROVE UNCHANGED <<file, index>>
      BY <3>1 DEF Operation, Find, DownloadFails, Download, EndWrite, WriteFails, Verify,
                  RemoveOld, Extract, KeepUpdate
    <3>2. ASSUME NEW p \in Proc, Update(p)
          PROVE  \/ UNCHANGED <<file, index>>
                 \/ file' = Torn /\ UNCHANGED index
                 \/ EndSave(p)
      BY <3>2 DEF Update, FetchFails, FetchIndex, FetchSig, BeginSave, SaveFails, store
    <3>3. ASSUME NEW p \in Proc, Start(p) PROVE UNCHANGED <<file, index>> \/ Open(p)
      BY <3>3 DEF Start, BeginUpdate, BeginInstall, BeginUpgrade, BeginOperation, Clean, store
    <3>4. RemoveStaleLock \/ UNCHANGED vars => UNCHANGED <<file, index>>
      BY DEF RemoveStaleLock, vars
    <3> QED BY <3>1, <3>2, <3>3, <3>4 DEF Next
  <2>2. ASSUME NEW p \in Proc, EndSave(p)
        PROVE  /\ file' \in {None, Torn} \cup Merges
               /\ \A q \in Proc : index'[q] \in {{}} \cup Merges
    <3>1. merged[p] \in Merges
      BY <2>2, MergeOfAll DEF EndSave, Mergings
    <3>2. (file' = merged[p] \/ file' = Torn) /\ index' = [index EXCEPT ![p] = merged[p]]
      BY <2>2 DEF EndSave
    <3> QED BY <3>1, <3>2 DEF IndexIsMerge, TypeOK
  <2>3. ASSUME NEW p \in Proc, Open(p)
        PROVE  /\ file' \in {None, Torn} \cup Merges
               /\ \A q \in Proc : index'[q] \in {{}} \cup Merges
    BY <2>3 DEF Open, store, IndexIsMerge, TypeOK
  <2>4. ASSUME NEW p \in Proc, Crash(p)
        PROVE  /\ file' \in {None, Torn} \cup Merges
               /\ \A q \in Proc : index'[q] \in {{}} \cup Merges
    BY <2>4 DEF Crash, IndexIsMerge, TypeOK
  <2> QED BY <2>1, <2>2, <2>3, <2>4 DEF IndexIsMerge
<1> QED BY <1>1, <1>2, <1>3, TypeCorrect, PTL DEF Spec
=============================================================================
