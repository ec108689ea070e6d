------------------------------- MODULE Media --------------------------------
(***************************************************************************)
(* The pictures of an account: bytes in the object store, a row in         *)
(* media_assets, and nothing that ties the two (modules/media,             *)
(* platform/storage).                                                      *)
(*                                                                         *)
(* An upload reads the quota, stores the bytes and inserts the row; an     *)
(* import from the picture search looks for an earlier import first and    *)
(* downloads.  A removal deletes the bytes and then the row.  Each step is *)
(* a call of its own; other requests run in between, and a request may die *)
(* after any of them (an error, a timeout, the process).                   *)
(*                                                                         *)
(* An asset's id is drawn by the request that creates it.  Only the import *)
(* mode of a provider is modelled: the one provider there is, Pexels,      *)
(* declares it.  Left out: alternative texts, dimensions, attribution.     *)
(***************************************************************************)
EXTENDS Integers, FiniteSets, Functions

CONSTANTS
  Assets,    \* ids that may be drawn
  Owners,
  Photos,    \* photos of the provider
  MaxSize,   \* the largest picture taken in, in units
  Quota,     \* limits.mediaBytesPerUser
  Calls      \* creations under way at one time

ASSUME MediaAssumption ==
  /\ IsFiniteSet(Assets)
  /\ MaxSize \in Nat \ {0} /\ Quota \in Nat /\ Calls \in Nat \ {0}

VARIABLES
  asset,     \* rows of media_assets
  bytes,     \* objects in the store
  creation,  \* how far the request that drew an id is
  removal,   \* how far a removal of an asset is
  results,   \* photos of the cached search page
  history    \* what has gone wrong so far: see HistoryType

mediaVars == <<asset, bytes, creation, removal, results, history>>

NoRow == [row |-> FALSE]
Device == "device"  \* not a photo of the provider
AssetType ==
  {NoRow} \cup
  [row : {TRUE}, owner : Owners, photo : Photos \cup {Device}, size : 1..MaxSize]

Fresh == [at |-> "fresh"]
Over == [at |-> "over"]
CreationType ==
  {Fresh, Over} \cup
  [at : {"download", "quota", "put", "insert"}, owner : Owners,
   photo : Photos \cup {Device}, size : 1..MaxSize]

\* doubled: another import of the same photo was inserted after this one had
\* looked; faulty: bytes may have been stored by a creation that died, or kept
\* by a removal that could not delete them; emptied: a removal of the owner's
\* has deleted the bytes.
HistoryType ==
  [doubled : SUBSET Assets, faulty : SUBSET Assets, emptied : SUBSET Assets]

MediaInit ==
  /\ asset = [a \in Assets |-> NoRow]
  /\ bytes = {}
  /\ creation = [a \in Assets |-> Fresh]
  /\ removal = [a \in Assets |-> "none"]
  /\ results = {}
  /\ history = [doubled |-> {}, faulty |-> {}, emptied |-> {}]

Creating(a) == creation[a] \notin {Fresh, Over}
OwnedBy(o) == {a \in Assets : asset[a].row /\ asset[a].owner = o}
\* sum(byte_size) over the owner's READY rows.
Used(o) == SumFunction([a \in OwnedBy(o) |-> asset[a].size])

-----------------------------------------------------------------------------
(* The picture search: a page of the provider's, kept in Postgres.           *)

\* A page fetched less than an hour ago is answered from the table, which
\* changes nothing; otherwise the provider is asked and what it answers
\* replaces the page, except nothing at all.
Search ==
  /\ \E found \in SUBSET Photos \ {{}} : results' = found
  /\ UNCHANGED <<asset, bytes, creation, removal, history>>

-----------------------------------------------------------------------------
(* Creation.                                                                 *)

Begin(a, o, photo, at) ==
  /\ creation[a] = Fresh
  /\ Cardinality({b \in Assets : Creating(b)}) < Calls
  /\ \E size \in 1..MaxSize :
       creation' = [creation EXCEPT
         ![a] = [at |-> at, owner |-> o, photo |-> photo, size |-> size]]
  /\ UNCHANGED <<asset, bytes, removal, results, history>>

\* upload: what is empty, too large or no picture by its content is refused.
Upload(a, o) == Begin(a, o, Device, "quota")

\* Rows of the owner that are imports of the photo.
Imports(o, photo) == {a \in OwnedBy(o) : asset[a].photo = photo}

\* (mutant) the earlier import is not looked for.
AttachAgain(a, o) == \E photo \in results : Begin(a, o, photo, "download")

\* attach: the photo must be on the cached page, and an earlier import is the
\* answer.
Attach(a, o) ==
  \E photo \in results : Imports(o, photo) = {} /\ Begin(a, o, photo, "download")

Goes(a, from, to) ==
  /\ creation[a].at = from
  /\ creation' = [creation EXCEPT ![a].at = to]

\* The provider's file, if it is a picture and not too large.
Download(a) ==
  /\ Goes(a, "download", "quota")
  /\ UNCHANGED <<asset, bytes, removal, results, history>>

\* (mutant) compared with what is used already, without what comes in.
QuotaOfStored(a) ==
  /\ Goes(a, "quota", "put")
  /\ Used(creation[a].owner) <= Quota
  /\ UNCHANGED <<asset, bytes, removal, results, history>>

\* assertQuota, on the bytes as they came in.
QuotaRead(a) ==
  /\ Goes(a, "quota", "put")
  /\ Used(creation[a].owner) + creation[a].size <= Quota
  /\ UNCHANGED <<asset, bytes, removal, results, history>>

\* (mutant) the answer of the store is not waited for.
PutLater(a) ==
  /\ Goes(a, "put", "insert")
  /\ \/ bytes' = bytes \cup {a}
     \/ UNCHANGED bytes
  /\ UNCHANGED <<asset, removal, results, history>>

Put(a) ==
  /\ Goes(a, "put", "insert")
  /\ bytes' = bytes \cup {a}
  /\ UNCHANGED <<asset, removal, results, history>>

\* The row. What an upload stores may be smaller than what came in: stripExif
\* has dropped the APP1 segments.
Insert(a) ==
  LET c == creation[a]
      twins == {b \in Assets : b # a /\ Creating(b) /\ creation[b].photo = c.photo
                                     /\ creation[b].owner = c.owner}
  IN
  /\ c.at = "insert"
  /\ \E size \in IF c.photo = Device THEN 1..c.size ELSE {c.size} :
       asset' = [asset EXCEPT ![a] =
         [row |-> TRUE, owner |-> c.owner, photo |-> c.photo, size |-> size]]
  /\ creation' = [creation EXCEPT ![a] = Over]
  /\ history' = IF c.photo = Device THEN history ELSE [history EXCEPT !.doubled = @ \cup twins]
  /\ UNCHANGED <<bytes, removal, results>>

\* The request dies. A put that was sent and not answered may have arrived.
Die(a) ==
  /\ Creating(a)
  /\ creation' = [creation EXCEPT ![a] = Over]
  /\ \/ UNCHANGED bytes
     \/ creation[a].at = "put" /\ bytes' = bytes \cup {a}
  /\ history' = IF creation[a].at \in {"put", "insert"}
                THEN [history EXCEPT !.faulty = @ \cup {a}] ELSE history
  /\ UNCHANGED <<asset, removal, results>>

-----------------------------------------------------------------------------
(* Removal, by the owner.                                                    *)

RemovalRead(a) ==
  /\ asset[a].row
  /\ removal[a] = "none"
  /\ removal' = [removal EXCEPT ![a] = "bytes"]
  /\ UNCHANGED <<asset, bytes, creation, results, history>>

\* storage.delete: an error answer of the store is logged and swallowed.
DeleteBytes(a) ==
  /\ removal[a] = "bytes"
  /\ removal' = [removal EXCEPT ![a] = "row"]
  /\ \/ bytes' = bytes \ {a} /\ history' = [history EXCEPT !.emptied = @ \cup {a}]
     \/ UNCHANGED bytes /\ history' = [history EXCEPT !.faulty = @ \cup {a}]
  /\ UNCHANGED <<asset, creation, results>>

DeleteRow(a) ==
  /\ removal[a] = "row"
  /\ asset' = [asset EXCEPT ![a] = NoRow]
  /\ removal' = [removal EXCEPT ![a] = "none"]
  /\ UNCHANGED <<bytes, creation, results, history>>

\* The request dies; a deletion that was not answered may have been carried out.
RemovalDies(a) ==
  /\ removal[a] # "none"
  /\ removal' = [removal EXCEPT ![a] = "none"]
  /\ \/ UNCHANGED <<bytes, history>>
     \/ /\ removal[a] = "bytes"
        /\ bytes' = bytes \ {a}
        /\ history' = [history EXCEPT !.emptied = @ \cup {a}]
  /\ UNCHANGED <<asset, creation, results>>

-----------------------------------------------------------------------------
MediaNext ==
  \/ Search
  \/ \E a \in Assets :
       \/ \E o \in Owners : Upload(a, o) \/ Attach(a, o)
       \/ Download(a) \/ QuotaRead(a) \/ Put(a) \/ Insert(a) \/ Die(a)
       \/ RemovalRead(a) \/ DeleteBytes(a) \/ DeleteRow(a) \/ RemovalDies(a)

MediaSpec == MediaInit /\ [][MediaNext]_mediaVars

MediaTypeOK ==
  /\ asset \in [Assets -> AssetType]
  /\ bytes \subseteq Assets
  /\ creation \in [Assets -> CreationType]
  /\ removal \in [Assets -> {"none", "bytes", "row"}]
  /\ results \subseteq Photos
  /\ history \in HistoryType

-----------------------------------------------------------------------------
\* Rows and objects agree up to requests that broke off: a row has its bytes
\* unless its owner's removal has deleted them, and bytes nobody works on have
\* a row unless a creation or a deletion of theirs has failed. (media.service
\* upload and remove; attach: each is two writes, to two systems. Nothing ever
\* collects such bytes: purgeOrphanMedia deletes PENDING rows, and no code
\* inserts one.)
StorageAgrees ==
  \A a \in Assets :
    /\ asset[a].row => a \in bytes \cup history.emptied
    /\ a \in bytes /\ ~asset[a].row /\ ~Creating(a) => a \in history.faulty

\* The quota is read before the bytes are stored, without a lock: however the
\* requests of an account interleave, they exceed it by less than the others
\* under way could bring (assertQuota of both services).
QuotaOverrunBounded == \A o \in Owners : Used(o) <= Quota + (Calls - 1) * MaxSize

\* "Picking the same photo twice is idempotent, not a duplicate": an account
\* has two imports of a photo only if one request looked for it before the
\* other one's row was there (attach).
OnePhotoOneRow ==
  \A a, b \in Assets :
    /\ a # b
    /\ asset[a].row /\ asset[b].row
    /\ asset[a].owner = asset[b].owner
    /\ asset[a].photo = asset[b].photo /\ asset[a].photo # Device
    => history.doubled \cap {a, b} # {}
=============================================================================
