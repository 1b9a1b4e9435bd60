----------------------------- MODULE AssetStore -----------------------------
(***************************************************************************)
(* The asset service: the content-addressed store, the encrypting store    *)
(* around it with its durable index of plaintext id to ciphertext id, the  *)
(* asset records, and the HTTP handler that resolves an asset for a        *)
(* principal (src/implementation/asset_service).                           *)
(*                                                                         *)
(* Content is a model value and stands for its own SHA-256 id; a blob is   *)
(* the pair of the content and the nonce it was sealed with, 0 in the      *)
(* store that does not encrypt, and stands for its own id too.  The        *)
(* process may be killed between any two steps; the files survive.         *)
(***************************************************************************)
EXTENDS Integers, Sequences, FiniteSets

CONSTANTS
    Contents,     \* the contents in play
    Ids, Accounts,\* asset ids and accounts
    Putters, Readers,
    NoContent,    \* the empty content id
    NoAccount,    \* the empty account id
    MaxPuts, MaxRecords, MaxReads, MaxRot, MaxRestarts    \* bounds

ASSUME AssetAssumption ==
    /\ NoContent \notin Contents /\ NoAccount \notin Accounts
    /\ {MaxPuts, MaxRecords, MaxReads, MaxRot, MaxRestarts} \subseteq Nat

VARIABLES
    encrypted,  \* the byte store is the encrypting one
    blobs,      \* the files of the content store: blob -> whether its bytes are intact
    mapping,    \* the files of the encrypted index: content -> blob
    index,      \* EncryptedStore.index, in memory
    putter,     \* the calls of Put
    acked,      \* contents some Put has returned the id of
    assets,     \* AssetIndex.assets
    reader,     \* the requests of the handler
    puts, records, reads, rots, restarts

fileVars == <<blobs, mapping>>
boundVars == <<puts, records, reads, rots, restarts>>
assetVars == <<encrypted, fileVars, index, putter, acked, assets, reader, boundVars>>

Blobs  == Contents \X (0 .. MaxPuts)
Maps   == UNION {[S -> Blobs] : S \in SUBSET Contents}
Assets == [sha : Contents \cup {NoContent}, account : Accounts \cup {NoAccount},
           web : Contents \cup {NoContent}]
Principals == [account : Accounts \cup {NoAccount}, roles : BOOLEAN]
NoAsset == [sha |-> NoContent, account |-> NoAccount, web |-> NoContent]

With(f, k, v) == [x \in DOMAIN f \cup {k} |-> IF x = k THEN v ELSE f[x]]

----------------------------------------------------------------------------
(* Where the bytes come from: sources answer with a stream or an error.    *)

(* LocalSource.resolve: a cleaned path below the base.                     *)
Step(path, name) == CASE name = ".." -> (IF path = <<>> THEN path
                                         ELSE SubSeq(path, 1, Len(path) - 1))
                      [] name = "."  -> path
                      [] OTHER       -> Append(path, name)
Clean(ref) == LET clean[i \in 0 .. Len(ref)] ==
                    IF i = 0 THEN <<>> ELSE Step(clean[i - 1], ref[i])
              IN clean[Len(ref)]
LocalOpen(files, ref) == IF Clean(ref) \in files THEN "stream" ELSE "not found"

(* HTTPSource.Open, by the status of the answer (0: no answer).            *)
HttpOpen(status) == CASE status = 200 -> "stream"
                      [] status = 404 -> "not found"
                      [] OTHER        -> "error"

LocalFiles == {<<"a", "f">>}
Refs  == {<<"a", "f">>, <<"..", "a", ".", "f">>, <<"a", "..", "f">>}
Opened(source) == IF source.scheme = "local" THEN LocalOpen(LocalFiles, source.ref)
                                             ELSE HttpOpen(source.status)
Sources == [scheme : {"local"}, ref : Refs] \cup [scheme : {"http"}, status : {0, 200, 404, 503}]

----------------------------------------------------------------------------
Free == [at |-> "free", content |-> NoContent, blob |-> <<NoContent, 0>>]
Quiet == [at |-> "free", principal |-> [account |-> NoAccount, roles |-> FALSE],
          asset |-> NoAsset, want |-> NoContent, blob |-> <<NoContent, 0>>,
          status |-> 0, bytes |-> NoContent]

AssetInit ==
    /\ encrypted \in BOOLEAN
    /\ blobs = <<>> /\ mapping = <<>> /\ index = <<>>
    /\ putter = [w \in Putters |-> Free] /\ acked = {}
    /\ assets = <<>> /\ reader = [r \in Readers |-> Quiet]
    /\ puts = 0 /\ records = 0 /\ reads = 0 /\ rots = 0 /\ restarts = 0

PutterGoes(w, at) == putter' = [putter EXCEPT ![w].at = at]

(* Put returns the content's id.                                           *)
Acknowledge(w, content) ==
    /\ acked' = acked \cup {content}
    /\ putter' = [putter EXCEPT ![w] = Free]

(* Put reads its stream to the end, hashes it and, in the encrypting       *)
(* store, returns at once if the index has it, or seals it under a fresh   *)
(* nonce.                                                                  *)
CallPut(w) ==
    /\ putter[w].at = "free" /\ puts < MaxPuts
    /\ puts' = puts + 1
    /\ \E source \in Sources, content \in Contents :
        /\ Opened(source) = "stream"
        /\ IF encrypted /\ content \in DOMAIN index
           THEN Acknowledge(w, content)
           ELSE /\ putter' = [putter EXCEPT ![w] =
                                [at |-> "stat", content |-> content,
                                 blob |-> <<content, IF encrypted THEN puts' ELSE 0>>]]
                /\ UNCHANGED acked
    /\ UNCHANGED <<encrypted, fileVars, index, assets, reader, records, reads, rots, restarts>>

(* A stream that breaks, a full disk: Put returns an error, its temporary  *)
(* files are removed.                                                      *)
PutFails(w) ==
    /\ putter[w].at # "free"
    /\ putter' = [putter EXCEPT ![w] = Free]
    /\ UNCHANGED <<encrypted, fileVars, index, acked, assets, reader, boundVars>>

AfterBlob(w) == IF encrypted THEN PutterGoes(w, "map") /\ UNCHANGED acked
                             ELSE Acknowledge(w, putter[w].content)

(* ContentStore.Put: the temporary file is complete; an existing blob is   *)
(* taken as it is.                                                         *)
Dedup(w) ==
    /\ putter[w].at = "stat" /\ putter[w].blob \in DOMAIN blobs
    /\ AfterBlob(w)
    /\ UNCHANGED <<encrypted, fileVars, index, assets, reader, boundVars>>

NoDedup(w) ==
    /\ putter[w].at = "stat" /\ putter[w].blob \notin DOMAIN blobs
    /\ PutterGoes(w, "commit")
    /\ UNCHANGED <<encrypted, fileVars, index, acked, assets, reader, boundVars>>

CommitUnwritten(w) ==
    /\ putter[w].at = "commit"
    /\ AfterBlob(w)
    /\ UNCHANGED <<encrypted, fileVars, index, assets, reader, boundVars>>

CommitBlob(w) ==
    /\ putter[w].at = "commit"
    /\ blobs' = With(blobs, putter[w].blob, TRUE)
    /\ AfterBlob(w)
    /\ UNCHANGED <<encrypted, mapping, index, assets, reader, boundVars>>

(* persistMapping: write a temporary file, rename it to the content's id.  *)
CommitMapping(w) ==
    /\ putter[w].at = "map"
    /\ mapping' = With(mapping, putter[w].content, putter[w].blob)
    /\ PutterGoes(w, "note")
    /\ UNCHANGED <<encrypted, blobs, index, acked, assets, reader, boundVars>>

(* e.index[id] = cid, and Put returns.                                     *)
NoteMapping(w) ==
    /\ putter[w].at = "note"
    /\ index' = With(index, putter[w].content, putter[w].blob)
    /\ Acknowledge(w, putter[w].content)
    /\ UNCHANGED <<encrypted, fileVars, assets, reader, boundVars>>

(* AssetIndex.Put of a record whose content ids some Put has returned.     *)
Record ==
    /\ records < MaxRecords
    /\ records' = records + 1
    /\ \E id \in Ids, a \in [sha : acked \cup {NoContent}, account : Accounts \cup {NoAccount},
                             web : acked \cup {NoContent}] :
          assets' = With(assets, id, a)
    /\ UNCHANGED <<encrypted, fileVars, index, putter, acked, reader, puts, reads, rots, restarts>>

----------------------------------------------------------------------------
(* Handler.ServeHTTP.                                                      *)

(* parseAssetPath: the last segment names the asset, unless it is "web".   *)
ParseAssetPath(path) ==
    LET n == Len(path) IN
    CASE n = 0                      -> [id |-> "", rendition |-> ""]
      [] n >= 2 /\ path[n] = "web"  -> [id |-> path[n - 1], rendition |-> "web"]
      [] OTHER                      -> [id |-> path[n], rendition |-> ""]
Paths == {<<>>, <<"web">>} \cup {<<"assets", id>> : id \in Ids} \cup {<<"assets", id, "web">> : id \in Ids}

(* SameAccountAuthorizer.                                                  *)
Authorized(p, a) ==
    /\ p.account # NoAccount /\ p.roles
    /\ a.account = NoAccount \/ p.account = a.account

Wanted(a, rendition) == IF rendition = "web" THEN a.web ELSE a.sha

(* Up to the lookup in the byte store everything is one read of the asset  *)
(* index: method, path, authentication, Resolve or ResolveRendition.       *)
Status(method, path, authenticated, p) ==
    LET ref == ParseAssetPath(path) IN
    IF method \notin {"GET", "HEAD"}                   THEN 405
    ELSE IF ref.id = ""                                THEN 400
    ELSE IF ~authenticated                             THEN 401
    ELSE IF ref.id \notin DOMAIN assets                THEN 404
    ELSE IF ~Authorized(p, assets[ref.id])             THEN 403
    ELSE IF Wanted(assets[ref.id], ref.rendition) = NoContent THEN 404 ELSE 0

Serve(r) ==
    /\ reader[r].at = "free" /\ reads < MaxReads
    /\ reads' = reads + 1
    /\ \E method \in {"GET", "POST"}, path \in Paths, authenticated \in BOOLEAN, p \in Principals :
        LET status == Status(method, path, authenticated, p)
            ref    == ParseAssetPath(path) IN
        reader' = [reader EXCEPT ![r] =
            IF status # 0 THEN [Quiet EXCEPT !.status = status]
            ELSE [Quiet EXCEPT !.at = "lookup", !.principal = p, !.asset = assets[ref.id],
                               !.want = Wanted(assets[ref.id], ref.rendition)]]
    /\ UNCHANGED <<encrypted, fileVars, index, putter, acked, assets, puts, records, rots, restarts>>

Answer(r, status) == reader' = [reader EXCEPT ![r].at = "free", ![r].status = status]

(* EncryptedStore.Get looks the ciphertext id up; ContentStore.Get has it. *)
Lookup(r) ==
    /\ reader[r].at = "lookup"
    /\ IF encrypted /\ reader[r].want \notin DOMAIN index
       THEN Answer(r, 404)
       ELSE reader' = [reader EXCEPT ![r].at = "read", ![r].blob =
                         IF encrypted THEN index[reader[r].want] ELSE <<reader[r].want, 0>>]
    /\ UNCHANGED <<encrypted, fileVars, index, putter, acked, assets, boundVars>>

(* ContentStore.Get reads and hashes the file, EncryptedStore.Get opens    *)
(* it, bound to the content's id, and hashes it again.                     *)
ReadUnverified(b, want) == IF b \in DOMAIN blobs THEN 200 ELSE 404
Verified(b, want) == CASE b \notin DOMAIN blobs -> 404
                       [] b \in DOMAIN blobs /\ ~blobs[b] -> 500
                       [] b \in DOMAIN blobs /\ blobs[b] /\ b[1] # want -> 500
                       [] OTHER -> 200

Read(r) ==
    /\ reader[r].at = "read"
    /\ LET b      == reader[r].blob
           status == Verified(b, reader[r].want) IN
       reader' = [reader EXCEPT ![r].at = "free", ![r].status = status,
                    ![r].bytes = IF status = 200 /\ blobs[b] THEN b[1] ELSE NoContent]
    /\ UNCHANGED <<encrypted, fileVars, index, putter, acked, assets, boundVars>>

----------------------------------------------------------------------------
(* The environment.                                                        *)

(* The bytes of a blob are damaged on disk.                                *)
Rot(b) ==
    /\ rots < MaxRot /\ blobs[b]
    /\ rots' = rots + 1
    /\ blobs' = [blobs EXCEPT ![b] = FALSE]
    /\ UNCHANGED <<encrypted, mapping, index, putter, acked, assets, reader, puts, records, reads,
                   restarts>>

(* The process is killed and NewEncryptedStore loads the index from disk.  *)
(* Temporary files a kill leaves in the index directory are loaded too,    *)
(* under names no content id has.  Asset records live in memory.           *)
Restart ==
    /\ restarts < MaxRestarts
    /\ restarts' = restarts + 1
    /\ index' = mapping
    /\ putter' = [w \in Putters |-> Free] /\ reader' = [r \in Readers |-> Quiet]
    /\ assets' = <<>>
    /\ UNCHANGED <<encrypted, fileVars, acked, puts, records, reads, rots>>

Put == \E w \in Putters : \/ CallPut(w) \/ PutFails(w) \/ Dedup(w) \/ NoDedup(w)
                          \/ CommitBlob(w) \/ CommitMapping(w) \/ NoteMapping(w)
Get == \E r \in Readers : Serve(r) \/ Lookup(r) \/ Read(r)

AssetNext ==
    \/ Put \/ Record \/ Get
    \/ \E b \in DOMAIN blobs : Rot(b)
    \/ Restart

AssetSpec == AssetInit /\ [][AssetNext]_assetVars

----------------------------------------------------------------------------
Calls    == [at : {"free", "stat", "commit", "map", "note"}, content : Contents \cup {NoContent},
             blob : Blobs \cup {<<NoContent, 0>>}]
Stages   == {"free", "lookup", "read"}
Statuses == {0, 200, 400, 401, 403, 404, 405, 500}
Readings == [at : Stages, principal : Principals, asset : Assets, want : Contents \cup {NoContent},
             blob : Blobs \cup {<<NoContent, 0>>}, status : Statuses, bytes : Contents \cup {NoContent}]
AssetTypeOK ==
    /\ encrypted \in BOOLEAN
    /\ DOMAIN blobs \subseteq Blobs /\ \A b \in DOMAIN blobs : blobs[b] \in BOOLEAN
    /\ mapping \in Maps /\ index \in Maps
    /\ putter \in [Putters -> Calls]
    /\ acked \subseteq Contents
    /\ DOMAIN assets \subseteq Ids /\ \A id \in DOMAIN assets : assets[id] \in Assets
    /\ reader \in [Readers -> Readings]

(* A content whose id Put has returned can be found and read, now and      *)
(* after a restart at any later moment, unless its blob was damaged: also  *)
(* when concurrent Puts of one content seal it twice and the index on disk *)
(* and the one in memory name different blobs.                             *)
Stored(m, c) == c \in DOMAIN m /\ m[c] \in DOMAIN blobs /\ m[c][1] = c
AckedReadable ==
    \A c \in acked : IF encrypted THEN Stored(index, c) /\ Stored(mapping, c)
                                  ELSE <<c, 0>> \in DOMAIN blobs

(* What the handler answers is true: bytes only to a principal the         *)
(* authorizer lets see the record, never damaged ones, and no error but    *)
(* for damage once the record names a content.                             *)
ServedIsRight ==
    \A r \in Readers :
        LET q == reader[r] IN
        q.want # NoContent /\ q.at = "free" =>
            /\ Authorized(q.principal, q.asset)
            /\ q.want \in {q.asset.sha, q.asset.web}
            /\ IF q.status = 200 THEN q.bytes = q.want ELSE q.status = 500 /\ rots > 0
=============================================================================
