-------------------------- MODULE ExportStoreProofs --------------------------
(***************************************************************************)
(* Safety of ExportStore for any number of exports, downloads and labs,    *)
(* any lifetime of an entry and any clock.                                 *)
(***************************************************************************)
EXTENDS ExportStore, TLAPS

(* An export has a path once it is named; a token is asked for, or in the  *)
(* map, only once it is registered.                                        *)
Placed ==
  /\ \A e \in Exports :
       /\ at[e] \in {"named", "written", "registered"} => path[e] \in Paths
       /\ at[e] = "idle" => path[e] = NoPath
  /\ \A e \in entries : at[e] = "registered"
  /\ \A d \in Downloads : get[d] # "idle" => token[d] \in Exports /\ at[token[d]] = "registered"

(* Two exports of one name are in the history.                             *)
ClashesKnown ==
  \A e, f \in Exports : e # f /\ path[e] = path[f] /\ path[e] \in Paths => path[e] \in shared

(* Whatever an export with a name of its own has written is there, until   *)
(* its token is ended.                                                     *)
WritersHaveFiles == \A e \in Exports : path[e] \in Paths \ shared =>
  /\ at[e] = "named" => file[path[e]] = [by |-> e, whole |-> FALSE]
  /\ at[e] = "written" => file[path[e]] = [by |-> e, whole |-> TRUE]
  /\ at[e] = "registered" => file[path[e]] \in {[by |-> e, whole |-> TRUE], NoFile}

(* A token leaves the map when it expires or is taken, and a download      *)
(* removes a file only of a token that has left it.                        *)
TokensEnd ==
  /\ \A e \in Exports : at[e] = "registered" => e \in entries \/ now > expires[e] \/ e \in taken
  /\ \A d \in Downloads : get[d] = "removing" => token[d] \notin entries

TypeInv == TypeOK /\ Placed
NameInv == TypeInv /\ ClashesKnown
FileInv == NameInv /\ WritersHaveFiles /\ TokensEnd /\ TokensHaveFiles

-----------------------------------------------------------------------------
LEMMA RemovedType ==
  ASSUME TypeOK, NEW ts
  PROVE  Removed(ts) \in [Paths -> Archives \cup {NoFile}]
BY DEF TypeOK, Removed

LEMMA TypeInvInit == Init => TypeInv
  BY ExportConstantsOK DEF Init, TypeInv, TypeOK, Placed, Paths, Archives, NoFile

LEMMA TypeInvNext == TypeInv /\ [Next]_vars => TypeInv'
<1> SUFFICES ASSUME TypeInv, [Next]_vars PROVE TypeInv'
  OBVIOUS
<1> USE ExportConstantsOK DEF TypeInv, TypeOK, Placed, exporting, store, downloading, history
<1>1. CASE Tick
  BY <1>1 DEF Tick
<1>2. ASSUME NEW e \in Exports, Refuse(e) PROVE TypeInv'
  BY <1>2 DEF Refuse
<1>3. ASSUME NEW e \in Exports, NEW l \in Labs, Create(e, l) PROVE TypeInv'
  <2>1. <<l, now>> \in Paths
    BY DEF Paths
  <2>2. [by |-> e, whole |-> FALSE] \in Archives
    BY DEF Archives
  <2> QED
    BY <1>3, <2>1, <2>2 DEF Create
<1>4. ASSUME NEW e \in Exports, Write(e) PROVE TypeInv'
  <2>1. [by |-> e, whole |-> file[path[e]].by = e] \in Archives
    BY DEF Archives
  <2> QED
    BY <1>4, <2>1 DEF Write
<1>5. ASSUME NEW e \in Exports, FailWriting(e) PROVE TypeInv'
  BY <1>5 DEF FailWriting
<1>6. ASSUME NEW e \in Exports, Register(e) PROVE TypeInv'
  <2>1. now + Ttl \in 0 .. MaxNow + Ttl
    OBVIOUS
  <2> QED
    BY <1>6, <2>1, RemovedType DEF Register, CleanupExpired, Expired
<1>7. ASSUME NEW d \in Downloads, NEW t \in Exports, Lookup(d, t) PROVE TypeInv'
  BY <1>7, RemovedType DEF Lookup, CleanupExpired, Expired
<1>8. ASSUME NEW d \in Downloads, Open(d) PROVE TypeInv'
  BY <1>8 DEF Open
<1>9. ASSUME NEW d \in Downloads, EndDownload(d) PROVE TypeInv'
  BY <1>9 DEF EndDownload
<1>10. ASSUME NEW d \in Downloads, Remove(d) PROVE TypeInv'
  BY <1>10, RemovedType DEF Remove
<1>11. CASE UNCHANGED vars
  BY <1>11 DEF vars
<1> QED
  BY <1>1, <1>2, <1>3, <1>4, <1>5, <1>6, <1>7, <1>8, <1>9, <1>10, <1>11
  DEF Next, Export, Download

(* Every reachable state has the declared types: in particular no entry    *)
(* lives longer than its time.                                             *)
THEOREM TypeCorrect == Spec => []TypeOK
<1>1. TypeInv => TypeOK
  BY DEF TypeInv
<1> QED
  BY TypeInvInit, TypeInvNext, <1>1, PTL DEF Spec

-----------------------------------------------------------------------------
(* Archives are owned.                                                     *)

OwnedInv == TypeInv /\ FilesAreOwned

(* It is inductive together with the types: whoever lets go of an archive  *)
(* removes it, or leaves it to a download that will.                       *)
LEMMA OwnedInvNext == OwnedInv /\ [Next]_vars => OwnedInv'
<1> SUFFICES ASSUME OwnedInv, [Next]_vars PROVE FilesAreOwned'
  BY TypeInvNext DEF OwnedInv
<1> USE ExportConstantsOK
    DEF OwnedInv, TypeInv, TypeOK, Placed, FilesAreOwned, exporting, store, downloading, history
<1>1. CASE Tick
  BY <1>1 DEF Tick
<1>2. ASSUME NEW e \in Exports, Refuse(e) PROVE FilesAreOwned'
  BY <1>2 DEF Refuse
<1>3. ASSUME NEW e \in Exports, NEW l \in Labs, Create(e, l) PROVE FilesAreOwned'
  BY <1>3 DEF Create
<1>4. ASSUME NEW e \in Exports, Write(e) PROVE FilesAreOwned'
  BY <1>4 DEF Write
<1>5. ASSUME NEW e \in Exports, FailWriting(e) PROVE FilesAreOwned'
  BY <1>5 DEF FailWriting
<1>6. ASSUME NEW e \in Exports, Register(e) PROVE FilesAreOwned'
  BY <1>6 DEF Register, CleanupExpired, Expired, Removed
<1>7. ASSUME NEW d \in Downloads, NEW t \in Exports, Lookup(d, t) PROVE FilesAreOwned'
  BY <1>7 DEF Lookup, CleanupExpired, Expired, Removed
<1>8. ASSUME NEW d \in Downloads, Open(d) PROVE FilesAreOwned'
  BY <1>8 DEF Open
<1>9. ASSUME NEW d \in Downloads, EndDownload(d) PROVE FilesAreOwned'
  BY <1>9 DEF EndDownload
<1>10. ASSUME NEW d \in Downloads, Remove(d) PROVE FilesAreOwned'
  BY <1>10 DEF Remove, Removed
<1>11. CASE UNCHANGED vars
  BY <1>11 DEF vars
<1> QED
  BY <1>1, <1>2, <1>3, <1>4, <1>5, <1>6, <1>7, <1>8, <1>9, <1>10, <1>11
  DEF Next, Export, Download

(* FilesAreOwned, whatever races and expires.                              *)
THEOREM ArchivesAreOwned == Spec => []FilesAreOwned
<1>1. Init => OwnedInv
  BY TypeInvInit DEF Init, OwnedInv, FilesAreOwned
<1>2. OwnedInv => FilesAreOwned
  BY DEF OwnedInv
<1> QED
  BY <1>1, OwnedInvNext, <1>2, PTL DEF Spec

-----------------------------------------------------------------------------
(* A token in the map has its archive.                                     *)

LEMMA NameInvNext == NameInv /\ [Next]_vars => NameInv'
<1> SUFFICES ASSUME NameInv, [Next]_vars PROVE ClashesKnown'
  BY TypeInvNext DEF NameInv
<1> USE ExportConstantsOK
    DEF NameInv, TypeInv, TypeOK, Placed, ClashesKnown, exporting, store, downloading, history
<1>1. CASE Tick
  BY <1>1 DEF Tick
<1>2. ASSUME NEW e \in Exports, Refuse(e) PROVE ClashesKnown'
  BY <1>2 DEF Refuse
<1>3. ASSUME NEW e \in Exports, NEW l \in Labs, Create(e, l) PROVE ClashesKnown'
  BY <1>3 DEF Create
<1>4. ASSUME NEW e \in Exports, Write(e) PROVE ClashesKnown'
  BY <1>4 DEF Write
<1>5. ASSUME NEW e \in Exports, FailWriting(e) PROVE ClashesKnown'
  BY <1>5 DEF FailWriting
<1>6. ASSUME NEW e \in Exports, Register(e) PROVE ClashesKnown'
  BY <1>6 DEF Register, CleanupExpired, Expired, Removed
<1>7. ASSUME NEW d \in Downloads, NEW t \in Exports, Lookup(d, t) PROVE ClashesKnown'
  BY <1>7 DEF Lookup, CleanupExpired, Expired, Removed
<1>8. ASSUME NEW d \in Downloads, Open(d) PROVE ClashesKnown'
  BY <1>8 DEF Open
<1>9. ASSUME NEW d \in Downloads, EndDownload(d) PROVE ClashesKnown'
  BY <1>9 DEF EndDownload
<1>10. ASSUME NEW d \in Downloads, Remove(d) PROVE ClashesKnown'
  BY <1>10 DEF Remove, Removed
<1>11. CASE UNCHANGED vars
  BY <1>11 DEF vars
<1> QED
  BY <1>1, <1>2, <1>3, <1>4, <1>5, <1>6, <1>7, <1>8, <1>9, <1>10, <1>11
  DEF Next, Export, Download

LEMMA FileInvInit == Init => FileInv
<1> SUFFICES ASSUME Init PROVE FileInv
  OBVIOUS
<1>1. \A e \in Exports : path[e] \notin Paths
  BY DEF Init, Paths, NoPath
<1> QED
  BY <1>1, TypeInvInit
  DEF Init, FileInv, NameInv, ClashesKnown, WritersHaveFiles, TokensEnd, TokensHaveFiles, TypeInv, Placed

(* Somebody else removes or overwrites only under a name that is shared.   *)
LEMMA FileInvNext == FileInv /\ [Next]_vars => FileInv'
<1> SUFFICES ASSUME FileInv, [Next]_vars
             PROVE  WritersHaveFiles' /\ TokensEnd' /\ TokensHaveFiles'
  BY NameInvNext DEF FileInv
<1> DEFINE Files == WritersHaveFiles /\ TokensEnd /\ TokensHaveFiles
<1> USE ExportConstantsOK
    DEF FileInv, NameInv, TypeInv, TypeOK, Placed, ClashesKnown, WritersHaveFiles, TokensEnd,
        TokensHaveFiles, exporting, store, downloading, history
<1>1. CASE Tick
  BY <1>1 DEF Tick
<1>2. ASSUME NEW e \in Exports, Refuse(e) PROVE Files'
  BY <1>2 DEF Refuse
<1>3. ASSUME NEW e \in Exports, NEW l \in Labs, Create(e, l) PROVE Files'
  <2> DEFINE p == <<l, now>>
  <2>1. p \in Paths /\ p # NoPath /\ path'[e] = p /\ at'[e] = "named"
    BY <1>3 DEF Create, Paths, NoPath
  <2>2. file'[p] = [by |-> e, whole |-> FALSE] /\ path[e] # p
    BY <1>3, <2>1 DEF Create
  <2>3. ASSUME NEW f \in Exports, f # e, path[f] \in Paths \ shared' PROVE path[f] # p
    BY <1>3, <2>1, <2>3 DEF Create
  <2>4. \A f \in Exports : f # e => path'[f] = path[f] /\ at'[f] = at[f]
    BY <1>3 DEF Create
  <2>5. \A q \in Paths : q # p => file'[q] = file[q]
    BY <1>3, <2>1 DEF Create
  <2>6. shared \subseteq shared' /\ UNCHANGED <<now, expires, entries, get, token, taken>>
    <3>1. UNCHANGED <<now, expires, entries, get, token, taken>>
      BY <1>3 DEF Create
    <3>2. shared' = shared \cup {p} \/ shared' = shared
      BY <1>3 DEF Create
    <3> QED
      BY <3>1, <3>2
  <2>7. WritersHaveFiles'
    <3> SUFFICES ASSUME NEW f \in Exports, path'[f] \in Paths \ shared'
                 PROVE  /\ at'[f] = "named" => file'[path'[f]] = [by |-> f, whole |-> FALSE]
                        /\ at'[f] = "written" => file'[path'[f]] = [by |-> f, whole |-> TRUE]
                        /\ at'[f] = "registered" =>
                             file'[path'[f]] \in {[by |-> f, whole |-> TRUE], NoFile}
      OBVIOUS
    <3>1. CASE f = e
      BY <3>1, <2>1, <2>2
    <3>2. CASE f # e
      <4>1. path[f] \in Paths \ shared /\ path[f] # p
        BY <3>2, <2>3, <2>4, <2>6
      <4>2. file'[path'[f]] = file[path[f]] /\ at'[f] = at[f]
        BY <3>2, <4>1, <2>4, <2>5
      <4> QED
        BY <4>1, <4>2
    <3> QED
      BY <3>1, <3>2
  <2>8. TokensEnd'
    BY <2>1, <2>4, <2>6
  <2>9. TokensHaveFiles'
    <3>1. e \notin entries
      BY <1>3 DEF Create
    <3> QED
      BY <2>3, <2>4, <2>5, <2>6, <3>1
  <2> QED
    BY <2>7, <2>8, <2>9
<1>4. ASSUME NEW e \in Exports, Write(e) PROVE Files'
  <2> DEFINE p == path[e]
  <2>1. p \in Paths /\ e \notin entries
    BY <1>4 DEF Write
  <2>2. UNCHANGED <<now, path, expires, entries, get, token, shared, taken>>
    BY <1>4 DEF Write
  <2>3. \A q \in Paths : q # p => file'[q] = file[q]
    BY <1>4, <2>1 DEF Write
  <2>4. \A f \in Exports : f # e => at'[f] = at[f]
    BY <1>4 DEF Write
  <2>5. at'[e] \in {"failed", "written"}
    BY <1>4 DEF Write
  <2>6. \A f \in Exports : f # e /\ path[f] \in Paths \ shared => path[f] # p
    BY <2>1
  <2>7. p \notin shared /\ at'[e] = "written" => file'[p] = [by |-> e, whole |-> TRUE]
    <3>1. p \notin shared => file[p].by = e
      BY <1>4, <2>1 DEF Write
    <3>2. at'[e] = "written" => file'[p] = [by |-> e, whole |-> file[p].by = e]
      BY <1>4, <2>1 DEF Write
    <3> QED
      BY <3>1, <3>2, Zenon
  <2>8. WritersHaveFiles'
    BY <2>1, <2>2, <2>3, <2>4, <2>5, <2>6, <2>7
  <2>9. TokensEnd'
    BY <2>2, <2>4, <2>5
  <2>10. TokensHaveFiles'
    BY <2>1, <2>2, <2>3, <2>6
  <2> QED
    BY <2>8, <2>9, <2>10
<1>5. ASSUME NEW e \in Exports, FailWriting(e) PROVE Files'
  BY <1>5 DEF FailWriting
<1>6. ASSUME NEW e \in Exports, Register(e) PROVE Files'
  BY <1>6 DEF Register, CleanupExpired, Expired, Removed
<1>7. ASSUME NEW d \in Downloads, NEW t \in Exports, Lookup(d, t) PROVE Files'
  BY <1>7 DEF Lookup, CleanupExpired, Expired, Removed
<1>8. ASSUME NEW d \in Downloads, Open(d) PROVE Files'
  BY <1>8 DEF Open
<1>9. ASSUME NEW d \in Downloads, EndDownload(d) PROVE Files'
  BY <1>9 DEF EndDownload
<1>10. ASSUME NEW d \in Downloads, Remove(d) PROVE Files'
  <2> DEFINE t == token[d]
  <2>1. t \in Exports /\ t \notin entries /\ at[t] = "registered" /\ path[t] \in Paths
    BY <1>10 DEF Remove
  <2>2. UNCHANGED <<now, at, path, expires, entries, token, shared, taken>>
    BY <1>10 DEF Remove
  <2>3. \A q \in Paths : file'[q] = IF path[t] = q THEN NoFile ELSE file[q]
    BY <1>10 DEF Remove, Removed
  <2>4. \A e \in Exports : e # t /\ path[e] \in Paths \ shared => path[e] # path[t]
    BY <2>1
  <2>5. WritersHaveFiles'
    BY <2>1, <2>2, <2>3, <2>4
  <2>6. TokensEnd'
    BY <1>10, <2>2 DEF Remove
  <2>7. TokensHaveFiles'
    BY <2>1, <2>2, <2>3, <2>4
  <2> QED
    BY <2>5, <2>6, <2>7
<1>11. CASE UNCHANGED vars
  BY <1>11 DEF vars
<1> QED
  BY <1>1, <1>2, <1>3, <1>4, <1>5, <1>6, <1>7, <1>8, <1>9, <1>10, <1>11
  DEF Next, Export, Download

(* TokensHaveFiles: neither an expiry nor a download of another token, nor *)
(* an export under way, takes the archive of a token that is in the map.   *)
THEOREM TokensKeepFiles == Spec => []TokensHaveFiles
<1>1. FileInv => TokensHaveFiles
  BY DEF FileInv
<1> QED
  BY FileInvInit, FileInvNext, <1>1, PTL DEF Spec

-----------------------------------------------------------------------------
(* What downloads send.                                                    *)

SendInv == FileInv /\ SendsItsArchive

LEMMA SendInvNext == SendInv /\ [Next]_vars => SendInv'
<1> SUFFICES ASSUME SendInv, [Next]_vars PROVE SendsItsArchive'
  BY FileInvNext DEF SendInv
<1> USE ExportConstantsOK
    DEF SendInv, FileInv, NameInv, TypeInv, TypeOK, Placed, WritersHaveFiles, TokensEnd,
        TokensHaveFiles, SendsItsArchive, exporting, store, downloading, history
<1>1. CASE Tick
  BY <1>1 DEF Tick
<1>2. ASSUME NEW e \in Exports, Refuse(e) PROVE SendsItsArchive'
  BY <1>2 DEF Refuse
<1>3. ASSUME NEW e \in Exports, NEW l \in Labs, Create(e, l) PROVE SendsItsArchive'
  BY <1>3 DEF Create
<1>4. ASSUME NEW e \in Exports, Write(e) PROVE SendsItsArchive'
  BY <1>4 DEF Write
<1>5. ASSUME NEW e \in Exports, FailWriting(e) PROVE SendsItsArchive'
  BY <1>5 DEF FailWriting
<1>6. ASSUME NEW e \in Exports, Register(e) PROVE SendsItsArchive'
  BY <1>6 DEF Register, CleanupExpired, Expired, Removed
<1>7. ASSUME NEW d \in Downloads, NEW t \in Exports, Lookup(d, t) PROVE SendsItsArchive'
  BY <1>7 DEF Lookup, CleanupExpired, Expired, Removed
<1>8. ASSUME NEW d \in Downloads, Open(d) PROVE SendsItsArchive'
  BY <1>8 DEF Open
<1>9. ASSUME NEW d \in Downloads, EndDownload(d) PROVE SendsItsArchive'
  BY <1>9 DEF EndDownload
<1>10. ASSUME NEW d \in Downloads, Remove(d) PROVE SendsItsArchive'
  BY <1>10 DEF Remove, Removed
<1>11. CASE UNCHANGED vars
  BY <1>11 DEF vars
<1> QED
  BY <1>1, <1>2, <1>3, <1>4, <1>5, <1>6, <1>7, <1>8, <1>9, <1>10, <1>11
  DEF Next, Export, Download

(* SendsItsArchive, whatever comes between the lookup of a path and its    *)
(* opening.                                                                *)
THEOREM DownloadsSendTheirArchive == Spec => []SendsItsArchive
<1>1. Init => SendInv
  BY FileInvInit DEF Init, SendInv, SendsItsArchive
<1>2. SendInv => SendsItsArchive
  BY DEF SendInv
<1> QED
  BY <1>1, SendInvNext, <1>2, PTL DEF Spec
=============================================================================
