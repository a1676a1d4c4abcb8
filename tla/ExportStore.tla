------------------------------ MODULE ExportStore ------------------------------
(***************************************************************************)
(* Exports of artifacts and their downloads (internal/ui/artifact_export.go*)
(* and the download handler of server.go): archives in the temporary       *)
(* directory, and the map exportFiles from tokens to their paths.  Every   *)
(* request has a goroutine; the map has a lock, the files have none, and   *)
(* ServeFile reads a file long after its path was looked up.               *)
(*                                                                         *)
(* An export stands for its token as well.  The name of an archive is the  *)
(* lab and the second of its creation: within a second, that is one file.  *)
(***************************************************************************)
EXTENDS Naturals, FiniteSets

CONSTANTS
  Exports, Downloads,   \* the requests
  Labs,
  Ttl,                  \* seconds an entry lives (10 minutes)
  MaxNow                \* bound on the clock

ASSUME ExportConstantsOK ==
  /\ Ttl \in Nat /\ MaxNow \in Nat

Paths == Labs \X (0 .. MaxNow)
NoPath == <<>>
NoExport == [none |-> TRUE]

VARIABLES
  now,          \* the clock, in seconds
  at,           \* per export: its step
  path,         \* per export: outPath
  expires,      \* per export: expiresAt of its entry
  entries,      \* the tokens in exportFiles
  file,         \* the archive at each path: who wrote it last, and if all
  get,          \* per download: its step
  token,        \* per download: the token it asks for
  got,          \* per download: the archive it sends
  shared,       \* history: the paths that two exports used
  taken         \* history: the tokens that a download has ended

exporting == <<at, path, expires>>
store == <<entries, file>>
downloading == <<get, token, got>>
history == <<shared, taken>>
vars == <<now, exporting, store, downloading, history>>

Archives == [by : Exports, whole : BOOLEAN]
NoFile == [by |-> NoExport]

TypeOK ==
  /\ now \in 0 .. MaxNow
  /\ at \in [Exports -> {"idle", "named", "written", "registered", "failed"}]
  /\ path \in [Exports -> Paths \cup {NoPath}]
  /\ expires \in [Exports -> 0 .. MaxNow + Ttl]
  /\ entries \subseteq Exports
  /\ file \in [Paths -> Archives \cup {NoFile}]
  /\ get \in [Downloads -> {"idle", "found", "opened", "removing", "done", "refused"}]
  /\ token \in [Downloads -> Exports \cup {NoExport}]
  /\ got \in [Downloads -> Archives \cup {NoFile}]
  /\ shared \subseteq Paths
  /\ taken \subseteq Exports

Init ==
  /\ now = 0
  /\ at = [e \in Exports |-> "idle"]
  /\ path = [e \in Exports |-> NoPath]
  /\ expires = [e \in Exports |-> 0]
  /\ entries = {}
  /\ file = [p \in Paths |-> NoFile]
  /\ get = [d \in Downloads |-> "idle"]
  /\ token = [d \in Downloads |-> NoExport]
  /\ got = [d \in Downloads |-> NoFile]
  /\ shared = {} /\ taken = {}

-----------------------------------------------------------------------------
(* runBatchExport.                                                         *)

(* The request is refused: it has no kinds, a node is unknown, there are   *)
(* no artifacts, or the file cannot be created.                            *)
Refuse(e) ==
  /\ at[e] = "idle"
  /\ at' = [at EXCEPT ![e] = "failed"]
  /\ UNCHANGED <<now, path, expires, store, downloading, history>>

(* The archive is named and created; one of that name is truncated.        *)
Create(e, l) == LET p == <<l, now>> IN
  /\ at[e] = "idle"
  /\ at' = [at EXCEPT ![e] = "named"]
  /\ path' = [path EXCEPT ![e] = p]
  /\ file' = [file EXCEPT ![p] = [by |-> e, whole |-> FALSE]]
  /\ shared' = IF \E f \in Exports : path[f] = p THEN shared \cup {p} ELSE shared
  /\ UNCHANGED <<now, expires, entries, downloading, taken>>

(* It is written and closed, and os.Stat finds it; what two writers leave  *)
(* is whole for neither.                                                   *)
Write(e) == LET p == path[e] IN
  /\ at[e] = "named"
  /\ IF file[p] = NoFile
     THEN at' = [at EXCEPT ![e] = "failed"] /\ UNCHANGED file
     ELSE /\ at' = [at EXCEPT ![e] = "written"]
          /\ file' = [file EXCEPT ![p] = [by |-> e, whole |-> file[p].by = e]]
  /\ UNCHANGED <<now, path, expires, entries, downloading, history>>

(* Writing fails, or there are no random bytes: the file stays.            *)
FailWriting(e) ==
  /\ at[e] \in {"named", "written"}
  /\ at' = [at EXCEPT ![e] = "failed"]
  /\ UNCHANGED <<now, path, expires, store, downloading, history>>

Expired == {t \in entries : now > expires[t]}

Removed(ts) == [p \in Paths |-> IF \E t \in ts : path[t] = p THEN NoFile ELSE file[p]]

(* Mutant of CleanupExpired: the files of expired entries stay.            *)
CleanupEntriesOnly(more) ==
  /\ entries' = (entries \ Expired) \cup more
  /\ UNCHANGED file

(* cleanupExpiredExportFilesLocked, and what else is done under the lock.  *)
CleanupExpired(more) ==
  /\ entries' = (entries \ Expired) \cup more
  /\ file' = Removed(Expired)

(* Mutants of Register: the entry is made before the file is written, or   *)
(* lives for ever.                                                         *)
RegisterEarly(e) ==
  /\ at[e] = "named"
  /\ at' = [at EXCEPT ![e] = "registered"]
  /\ CleanupExpired({e})
  /\ expires' = [expires EXCEPT ![e] = now + Ttl]
  /\ UNCHANGED <<now, path, downloading, history>>
RegisterForever(e) ==
  /\ at[e] = "written"
  /\ at' = [at EXCEPT ![e] = "registered"]
  /\ CleanupExpired({e})
  /\ expires' = [expires EXCEPT ![e] = now + Ttl + Ttl + MaxNow]
  /\ UNCHANGED <<now, path, downloading, history>>

(* The token is made known.                                                *)
Register(e) ==
  /\ at[e] = "written"
  /\ at' = [at EXCEPT ![e] = "registered"]
  /\ CleanupExpired({e})
  /\ expires' = [expires EXCEPT ![e] = now + Ttl]
  /\ UNCHANGED <<now, path, downloading, history>>

-----------------------------------------------------------------------------
(* The download handler.                                                   *)

(* downloadExportByToken, for the token of an export that has answered.    *)
Lookup(d, t) ==
  /\ get[d] = "idle" /\ at[t] = "registered"
  /\ token' = [token EXCEPT ![d] = t]
  /\ CleanupExpired({})
  /\ get' = [get EXCEPT ![d] = IF t \in entries' THEN "found" ELSE "refused"]
  /\ UNCHANGED <<now, exporting, got, history>>

(* ServeFile opens the path, or answers 404.                               *)
Open(d) ==
  /\ get[d] = "found"
  /\ get' = [get EXCEPT ![d] = "opened"]
  /\ got' = [got EXCEPT ![d] = file[path[token[d]]]]
  /\ UNCHANGED <<now, exporting, store, token, history>>

(* Mutant of EndDownload: the file is removed, and its entry stays.        *)
EndDownloadKeeping(d) ==
  /\ get[d] = "opened"
  /\ get' = [get EXCEPT ![d] = "removing"]
  /\ taken' = taken \cup {token[d]}
  /\ UNCHANGED <<now, exporting, store, token, got, shared>>

(* The file is sent or the client gone; removeExportToken takes the entry, *)
(* if it is still there.                                                   *)
EndDownload(d) ==
  /\ get[d] = "opened"
  /\ entries' = entries \ {token[d]}
  /\ get' = [get EXCEPT ![d] = IF token[d] \in entries THEN "removing" ELSE "done"]
  /\ taken' = taken \cup {token[d]}
  /\ UNCHANGED <<now, exporting, file, token, got, shared>>

(* After the lock is released, the file goes.                              *)
Remove(d) ==
  /\ get[d] = "removing"
  /\ get' = [get EXCEPT ![d] = "done"]
  /\ file' = Removed({token[d]})
  /\ UNCHANGED <<now, exporting, entries, token, got, history>>

-----------------------------------------------------------------------------
Tick == now < MaxNow /\ now' = now + 1 /\ UNCHANGED <<exporting, store, downloading, history>>

Export(e) ==
  Refuse(e) \/ (\E l \in Labs : Create(e, l)) \/ Write(e) \/ FailWriting(e) \/ Register(e)

Download(d) ==
  (\E t \in Exports : Lookup(d, t)) \/ Open(d) \/ EndDownload(d) \/ Remove(d)

Next == Tick \/ (\E e \in Exports : Export(e)) \/ (\E d \in Downloads : Download(d))

Spec == Init /\ [][Next]_vars

-----------------------------------------------------------------------------
(* Properties.                                                             *)

(* A token in the map has its archive, whole, as long as no other export   *)
(* was made in the same lab and second: no download and no expiry of       *)
(* another token removes it.                                               *)
TokensHaveFiles == \A t \in entries :
  path[t] \notin shared => file[path[t]] = [by |-> t, whole |-> TRUE]

(* What a download sends is the whole archive of its token, or a 404 that  *)
(* has one of three reasons: the name was shared, the token expired after  *)
(* it was looked up, or another download of it came first.                 *)
SendsItsArchive == \A d \in Downloads :
  LET t == token[d] IN
  get[d] \in {"opened", "removing", "done"} =>
    \/ got[d] = [by |-> t, whole |-> TRUE]
    \/ path[t] \in shared
    \/ got[d] = NoFile /\ (now > expires[t] \/ t \in taken)

(* Archives do not pile up: each belongs to a token in the map, to an      *)
(* export that is still at work or has failed, or to a download that is    *)
(* about to remove it.                                                     *)
FilesAreOwned == \A p \in Paths : file[p] # NoFile =>
  \E e \in Exports : path[e] = p /\
    \/ at[e] \in {"named", "written", "failed"}
    \/ e \in entries
    \/ \E d \in Downloads : get[d] = "removing" /\ token[d] = e
=============================================================================
