------------------------------- MODULE Shelf --------------------------------
(***************************************************************************)
(* Where a person finds trips: folders, the archive, the views of the      *)
(* dashboard (modules/trips).                                              *)
(*                                                                         *)
(* A folder is a person's; a trip has one owner and one folder_id, seen by *)
(* all its members.  Filing a trip is a check of the folder, a check of    *)
(* the trip and a write, each on its own.  A trip is looked up through     *)
(* three views, one query after the other.                                 *)
(*                                                                         *)
(* Everybody is a member of every trip, who does not own it an editor:     *)
(* module Membership has how members come and go, module Trips how a trip  *)
(* is purged.  Left out: pins and order, which are rows of one person and  *)
(* one trip, the names of folders, the search text and the counts.         *)
(***************************************************************************)
EXTENDS Integers, FiniteSets

CONSTANTS
  People,
  Tours,     \* ids of trips that may be drawn
  FirstTour, \* the one that exists at the start
  Folders,
  Clients    \* requests under way at one time

ASSUME ShelfAssumption == FirstTour \in Tours

VARIABLES
  tour,     \* rows of trips
  cabinet,  \* rows of folders: whose each one is
  client,   \* what each request is doing
  astray    \* how a trip came to lie in the folder it lies in

shelfVars == <<tour, cabinet, client, astray>>

Unfiled == "unfiled"
Undrawn == "undrawn"   \* the id of a folder to come
Dropped == "dropped"   \* deleted: its id is not drawn again
\* They are no ids.
ASSUME SentinelAssumption == Unfiled \notin Folders /\ Undrawn \notin People /\ Dropped \notin People
NoTour == [row |-> FALSE]
TourType ==
  {NoTour} \cup
  [row : {TRUE}, owner : People, archived : BOOLEAN, deleted : BOOLEAN,
   folder : Folders \cup {Unfiled}]

\* "no": filed by its owner. The other ways are the ones of FiledWithOwner.
Ways == {"no", "edited", "copied", "handed over", "overtaken"}

Ready == [does |-> "nothing"]
ClientType ==
  {Ready} \cup
  [does : {"create", "update", "move"}, by : People, tour : Tours, at : {"trip", "write"},
   folder : Folders \cup {Unfiled}, overtaken : BOOLEAN] \cup
  [does : {"duplicate"}, by : People, tour : Tours, folder : Folders \cup {Unfiled}] \cup
  [does : {"look"}, by : People, tour : Tours, overtaken : BOOLEAN,
   at : {"dashboard", "archive", "shared", "missing"}]

ShelfInit ==
  /\ \E p \in People :
       tour = [t \in Tours |->
         IF t = FirstTour THEN [row |-> TRUE, owner |-> p, archived |-> FALSE,
                                deleted |-> FALSE, folder |-> Unfiled]
         ELSE NoTour]
  /\ cabinet = [f \in Folders |-> Undrawn]
  /\ client = [c \in Clients |-> Ready]
  /\ astray = [t \in Tours |-> "no"]

\* What the access loader sees, and what it lets change.
Shown(t) == tour[t].row /\ ~tour[t].deleted
Mutable(t) == Shown(t) /\ ~tour[t].archived

Starts(c, request) ==
  /\ client[c] = Ready
  /\ client' = [client EXCEPT ![c] = request]
  /\ UNCHANGED <<tour, cabinet, astray>>

Ends(c) == client' = [client EXCEPT ![c] = Ready]

-----------------------------------------------------------------------------
(* Folders.                                                                  *)

CreateFolder ==
  /\ \E f \in Folders, p \in People :
       cabinet[f] = Undrawn /\ cabinet' = [cabinet EXCEPT ![f] = p]
  /\ UNCHANGED <<tour, client, astray>>

BelongsTo(f, p) == f \in Folders => cabinet[f] = p

\* deleteFolder, by whose it is, which never changes: folder_id references
\* folders on delete set null, deleted trips included.
DeleteFolder ==
  /\ \E f \in Folders :
       LET in == {t \in Tours : tour[t].row /\ tour[t].folder = f} IN
       /\ cabinet[f] \in People
       /\ cabinet' = [cabinet EXCEPT ![f] = Dropped]
       /\ tour' = [t \in Tours |-> IF t \in in THEN [tour[t] EXCEPT !.folder = Unfiled] ELSE tour[t]]
       /\ astray' = [t \in Tours |-> IF t \in in THEN "no" ELSE astray[t]]
  /\ UNCHANGED client

-----------------------------------------------------------------------------
(* Filing: create, update and moveToFolder.                                  *)

\* belongsTo comes first, and whose a folder is never changes. Of the three
\* only moveToFolder looks at the trip before it writes.
File(c, kind, p, t, f) ==
  /\ BelongsTo(f, p)
  /\ Starts(c, [does |-> kind, by |-> p, tour |-> t, folder |-> f, overtaken |-> FALSE,
                at |-> IF kind = "move" THEN "trip" ELSE "write"])

Create(c) ==
  \E p \in People, t \in Tours, f \in Folders :
    ~tour[t].row /\ File(c, "create", p, t, f)

\* PATCH /trips/:tripId with a folderId, trip:edit.
Update(c) ==
  \E p \in People, t \in Tours, f \in Folders \cup {Unfiled} :
    Mutable(t) /\ File(c, "update", p, t, f)

\* PATCH /trips/:tripId/folder, trip:edit as well.
Move(c) ==
  \E p \in People, t \in Tours, f \in Folders \cup {Unfiled} :
    Mutable(t) /\ File(c, "move", p, t, f)

\* (mutant) any member may file.
CheckNothing(c) ==
  /\ client[c].does = "move"
  /\ client[c].at = "trip"
  /\ client' = [client EXCEPT ![c].at = "write"]
  /\ UNCHANGED <<tour, cabinet, astray>>

\* "only the owner files a trip".
CheckTrip(c) ==
  /\ client[c].does = "move"
  /\ client[c].at = "trip"
  /\ LET t == client[c].tour IN
     IF Shown(t) /\ tour[t].owner = client[c].by
     THEN client' = [client EXCEPT ![c].at = "write"]
     ELSE Ends(c)
  /\ UNCHANGED <<tour, cabinet, astray>>

\* The foreign key of folder_id.
Referable(f) == f \in Folders => cabinet[f] \in People

\* How a trip that request r files in f comes to lie there.
Way(r, owner) ==
  IF r.folder = Unfiled \/ owner = r.by THEN "no"
  ELSE IF r.overtaken THEN "overtaken"
  ELSE IF r.does = "update" THEN "edited" ELSE "no"

\* The row of a new trip, or folder_id of one there is: update asks for a live
\* one, moveToFolder does not.
FileWrite(c) ==
  LET r == client[c] t == r.tour IN
  /\ r.does \in {"create", "update", "move"}
  /\ r.at = "write"
  /\ \/ /\ Referable(r.folder)
        /\ CASE r.does = "create" -> ~tour[t].row
             [] r.does = "update" -> Shown(t)
             [] r.does = "move"   -> tour[t].row
        /\ LET owner == IF r.does = "create" THEN r.by ELSE tour[t].owner IN
           /\ tour' = [tour EXCEPT ![t] =
                IF r.does = "create"
                THEN [row |-> TRUE, owner |-> r.by, archived |-> FALSE, deleted |-> FALSE,
                      folder |-> r.folder]
                ELSE [@ EXCEPT !.folder = r.folder]]
           /\ astray' = [astray EXCEPT ![t] = Way(r, owner)]
     \/ UNCHANGED <<tour, astray>>   \* a refusal: version, foreign key, row
  /\ Ends(c)
  /\ UNCHANGED cabinet

-----------------------------------------------------------------------------
(* Duplicates, owners, and the life of a trip.                               *)

\* duplicate reads the trip, folder and all ...
CopyRead(c) ==
  \E p \in People, t \in Tours :
    Shown(t) /\ Starts(c, [does |-> "duplicate", by |-> p, tour |-> t, folder |-> tour[t].folder])

\* ... and inserts the copy, which is the caller's own, into the same folder.
CopyWrite(c) ==
  LET r == client[c] IN
  /\ r.does = "duplicate"
  /\ \/ \E t \in Tours :
          /\ ~tour[t].row
          /\ Referable(r.folder)
          /\ tour' = [tour EXCEPT ![t] =
               [row |-> TRUE, owner |-> r.by, archived |-> FALSE, deleted |-> FALSE,
                folder |-> r.folder]]
          /\ astray' = [astray EXCEPT ![t] =
               IF BelongsTo(r.folder, r.by) THEN "no" ELSE "copied"]
     \/ ~Referable(r.folder) /\ UNCHANGED <<tour, astray>>
  /\ Ends(c)
  /\ UNCHANGED cabinet

\* Requests that have loaded the trip and not written yet are overtaken.
Overtaken(t) ==
  client' = [c \in Clients |->
    IF client[c].does \in {"update", "move", "look"} /\ client[c].tour = t
    THEN [client[c] EXCEPT !.overtaken = TRUE] ELSE client[c]]

\* transferOwnership: the folder stays what it was.
HandOver ==
  /\ \E t \in Tours, p \in People :
       /\ Mutable(t)
       /\ tour[t].owner # p
       /\ tour' = [tour EXCEPT ![t].owner = p]
       /\ astray' = [astray EXCEPT ![t] =
            IF BelongsTo(tour[t].folder, p) THEN "no" ELSE "handed over"]
       /\ client' = [c \in Clients |->
            IF client[c].does \in {"update", "move"} /\ client[c].tour = t
            THEN [client[c] EXCEPT !.overtaken = TRUE] ELSE client[c]]
  /\ UNCHANGED cabinet

Archive ==
  /\ \E t \in Tours :
       Mutable(t) /\ tour' = [tour EXCEPT ![t].archived = TRUE]
  /\ UNCHANGED <<cabinet, client, astray>>

Unarchive ==
  /\ \E t \in Tours :
       /\ Shown(t) /\ tour[t].archived
       /\ tour' = [tour EXCEPT ![t].archived = FALSE]
       /\ Overtaken(t)
  /\ UNCHANGED <<cabinet, astray>>

RemoveTour ==
  /\ \E t \in Tours :
       Mutable(t) /\ tour' = [tour EXCEPT ![t].deleted = TRUE] /\ Overtaken(t)
  /\ UNCHANGED <<cabinet, astray>>

RestoreTour ==
  /\ \E t \in Tours :
       tour[t].row /\ tour[t].deleted /\ tour' = [tour EXCEPT ![t].deleted = FALSE]
  /\ UNCHANGED <<cabinet, client, astray>>

-----------------------------------------------------------------------------
(* Looking a trip up: findForUser.                                           *)

LookUp(c) ==
  \E p \in People, t \in Tours :
    Shown(t) /\ Starts(c, [does |-> "look", by |-> p, tour |-> t, at |-> "dashboard",
                           overtaken |-> FALSE])

\* The conditions of listForUser, by view.
InView(view, p, t) ==
  /\ Shown(t)
  /\ CASE view = "dashboard" -> ~tour[t].archived
       [] view = "archive"   -> tour[t].archived
       [] view = "shared"    -> ~tour[t].archived /\ tour[t].owner # p

\* (mutant) the views after the dashboard are those of shared trips.
NextViewSkips == [dashboard |-> "shared", archive |-> "shared", shared |-> "missing"]

NextView == [dashboard |-> "archive", archive |-> "shared", shared |-> "missing"]

Look(c) ==
  LET r == client[c] IN
  /\ r.does = "look"
  /\ r.at # "missing"
  /\ IF InView(r.at, r.by, r.tour) THEN Ends(c)
     ELSE client' = [client EXCEPT ![c].at = NextView[r.at]]
  /\ UNCHANGED <<tour, cabinet, astray>>

\* NotFoundError.
Answer(c) ==
  /\ client[c].does = "look" /\ client[c].at = "missing"
  /\ Ends(c)
  /\ UNCHANGED <<tour, cabinet, astray>>

-----------------------------------------------------------------------------
FilingNext ==
  \/ CreateFolder \/ DeleteFolder \/ HandOver \/ RemoveTour \/ RestoreTour
  \/ \E c \in Clients :
       \/ Create(c) \/ Update(c) \/ Move(c)
       \/ CheckTrip(c) \/ FileWrite(c)
       \/ CopyRead(c) \/ CopyWrite(c)

\* A look-up reads nothing that filing writes.
FindingNext ==
  \/ HandOver \/ Archive \/ Unarchive \/ RemoveTour \/ RestoreTour
  \/ \E c \in Clients : LookUp(c) \/ Look(c) \/ Answer(c)

ShelfNext == FilingNext \/ FindingNext

ShelfSpec == ShelfInit /\ [][ShelfNext]_shelfVars

ShelfTypeOK ==
  /\ tour \in [Tours -> TourType]
  /\ cabinet \in [Folders -> People \cup {Undrawn, Dropped}]
  /\ client \in [Clients -> ClientType]
  /\ astray \in [Tours -> Ways]

-----------------------------------------------------------------------------
\* A trip lies in a folder that exists and is its owner's, unless another member
\* filed it through an update of the trip, duplicated it out of the owner's
\* folder, was handed it over in that folder, or became its owner while the old
\* one was filing it. ("Only the owner files a trip", says moveToFolder, and
\* checks it; update, duplicate and transferOwnership do not.)
FiledWithOwner ==
  \A t \in Tours :
    tour[t].row /\ tour[t].folder # Unfiled =>
      /\ cabinet[tour[t].folder] \in People
      /\ cabinet[tour[t].folder] = tour[t].owner \/ astray[t] # "no"

\* A member who looks up a trip that is there finds it, unless it was taken out
\* of the archive, or deleted, between two of the three queries (findForUser).
FoundUnlessOvertaken ==
  \A c \in Clients :
    client[c].does = "look" /\ client[c].at = "missing" => client[c].overtaken
=============================================================================
