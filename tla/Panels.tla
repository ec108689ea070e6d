------------------------------- MODULE Panels -------------------------------
(***************************************************************************)
(* The two panels a crew shares: the packing list and the notes of a trip  *)
(* (modules/panels).                                                       *)
(*                                                                         *)
(* Nothing of the packing list is locked: an item is ticked by a write     *)
(* that follows a read, and the starter list is inserted by a transaction  *)
(* that counted the items, or deleted those it saw, in an earlier          *)
(* statement.  The notes carry a version; a trip that has none yet         *)
(* pretends to have empty ones at version 1.                               *)
(*                                                                         *)
(* One item of a starter list stands for the eleven that are inserted in   *)
(* one statement. A request that dies before its write has changed nothing *)
(* and is not a step.  Left out: labels, categories, the order of items.   *)
(***************************************************************************)
EXTENDS Integers, FiniteSets

CONSTANTS
  Members,      \* who may edit the panels
  Items,        \* ids of packing items that may be drawn
  MaxVersion,   \* the notes are saved until they reach it
  Tasks         \* requests under way on the packing list

ASSUME PanelsAssumption == MaxVersion \in Nat \ {0}

VARIABLES
  item,   \* rows of packing_items
  notes,  \* the row of trip_notes
  seen,   \* the notes each member has last been given
  save,   \* a save of the notes under way, per member
  task    \* what each request on the list is doing

panelsVars == <<item, notes, seen, save, task>>

Nobody == "nobody"
NoItem == [there |-> FALSE, drawn |-> FALSE]
Deleted == [there |-> FALSE, drawn |-> TRUE]  \* its id is not drawn again
\* overtaken: the starter list was inserted by a request that another seeding
\* had overtaken.
ItemType ==
  {NoItem, Deleted} \cup
  [there : {TRUE}, starter : BOOLEAN, overtaken : BOOLEAN,
   checkedBy : Members \cup {Nobody}]

\* The text of the notes is named after the save that wrote it.
NoNotes == [version |-> 1, text |-> <<>>, row |-> FALSE]
NotesType ==
  {NoNotes} \cup [version : 2..MaxVersion, text : Members \X (1..MaxVersion), row : {TRUE}]

Rest == [does |-> "nothing"]
TaskType ==
  {Rest} \cup
  [does : {"tick"}, by : Members, item : Items, want : BOOLEAN, was : BOOLEAN] \cup
  [does : {"seed"}, clears : SUBSET Items, overtaken : BOOLEAN]

PanelsInit ==
  /\ item = [i \in Items |-> NoItem]
  /\ notes = NoNotes
  /\ seen = [m \in Members |-> NoNotes]
  /\ save = [m \in Members |-> "none"]
  /\ task = [t \in Tasks |-> Rest]

There == {i \in Items : item[i].there}
FreshIds == {i \in Items : item[i] = NoItem}
Checked(i) == item[i].checkedBy # Nobody
packing == <<item, task>>
writing == <<notes, seen, save>>

-----------------------------------------------------------------------------
(* The packing list.                                                         *)

NewItem(starter, overtaken) ==
  [there |-> TRUE, starter |-> starter, overtaken |-> overtaken, checkedBy |-> Nobody]

AddPackingItem ==
  /\ \E i \in FreshIds : item' = [item EXCEPT ![i] = NewItem(FALSE, FALSE)]
  /\ UNCHANGED <<task, writing>>

DeletePackingItem ==
  /\ \E i \in There : item' = [item EXCEPT ![i] = Deleted]
  /\ UNCHANGED <<task, writing>>

\* updatePackingItem loads the item ...
TickRead(t) ==
  /\ task[t] = Rest
  /\ \E m \in Members, i \in There, want \in BOOLEAN :
       task' = [task EXCEPT ![t] =
         [does |-> "tick", by |-> m, item |-> i, want |-> want, was |-> Checked(i)]]
  /\ UNCHANGED <<item, writing>>

\* ... and writes if what it wants is not what it saw: the name of who packed
\* it, or nobody's. An item deleted meanwhile is not found again.
TickWrite(t) ==
  LET tick == task[t] IN
  /\ tick.does = "tick"
  /\ item' = IF tick.item \in There /\ tick.want # tick.was
             THEN [item EXCEPT ![tick.item].checkedBy = IF tick.want THEN tick.by ELSE Nobody]
             ELSE item
  /\ task' = [task EXCEPT ![t] = Rest]
  /\ UNCHANGED writing

\* (mutant) the items are not counted.
SeedAlways(t) ==
  /\ task[t] = Rest
  /\ task' = [task EXCEPT ![t] = [does |-> "seed", clears |-> {}, overtaken |-> FALSE]]
  /\ UNCHANGED <<item, writing>>

\* seedPacking, its first statement: delete what is there, or go on only if
\* nothing is. The deletion is committed with the rest.
SeedRead(t) ==
  /\ task[t] = Rest
  /\ \E replace \in BOOLEAN :
       /\ replace \/ There = {}
       /\ task' = [task EXCEPT ![t] =
            [does |-> "seed", clears |-> IF replace THEN There ELSE {}, overtaken |-> FALSE]]
  /\ UNCHANGED <<item, writing>>

\* The insertion, and the commit.
SeedWrite(t) ==
  /\ task[t].does = "seed"
  /\ \E i \in FreshIds :
       item' = [j \in Items |->
         IF j = i THEN NewItem(TRUE, task[t].overtaken)
         ELSE IF j \in task[t].clears THEN Deleted ELSE item[j]]
  /\ task' = [u \in Tasks |->
       IF u = t THEN Rest
       ELSE IF task[u].does = "seed" THEN [task[u] EXCEPT !.overtaken = TRUE]
       ELSE task[u]]
  /\ UNCHANGED writing

-----------------------------------------------------------------------------
(* The notes.                                                                *)

\* getNotes; a member who is saving waits for the answer.
GetNotes(m) ==
  /\ save[m] = "none"
  /\ seen' = [seen EXCEPT ![m] = notes]
  /\ UNCHANGED <<packing, notes, save>>

\* updateNotes looks whether there is a row ...
SaveRead(m) ==
  /\ save[m] = "none"
  /\ notes.version < MaxVersion
  /\ IF notes.row THEN save' = [save EXCEPT ![m] = "update"]
     ELSE seen[m].version = 1 /\ save' = [save EXCEPT ![m] = "insert"]
  /\ UNCHANGED <<packing, notes, seen>>

Written(m, version) ==
  [version |-> version, text |-> <<m, version>>, row |-> TRUE]

\* A save of a version that has passed answers with the notes as they are.
Answered(m, now) ==
  /\ notes' = now
  /\ seen' = [seen EXCEPT ![m] = now]
  /\ save' = [save EXCEPT ![m] = "none"]
  /\ UNCHANGED packing

\* The primary key: trip_notes has one row per trip. The error says nothing of
\* the notes.
Conflicts(m) ==
  /\ save' = [save EXCEPT ![m] = "none"]
  /\ UNCHANGED <<packing, notes, seen>>

\* (mutant) the first text is at version 1, as the empty notes were.
FirstAtOne(m) ==
  /\ save[m] = "insert"
  /\ IF notes.row THEN Conflicts(m) ELSE Answered(m, Written(m, 1))

\* ... inserts it at version 2, which fails if there is one by now ...
SaveInsert(m) ==
  /\ save[m] = "insert"
  /\ IF notes.row THEN Conflicts(m) ELSE Answered(m, Written(m, 2))

\* ... or updates the version its member had seen.
SaveUpdate(m) ==
  /\ save[m] = "update"
  /\ Answered(m, IF notes.version = seen[m].version
                 THEN Written(m, notes.version + 1) ELSE notes)

-----------------------------------------------------------------------------
PackingNext ==
  \/ AddPackingItem \/ DeletePackingItem
  \/ \E t \in Tasks : TickRead(t) \/ TickWrite(t) \/ SeedRead(t) \/ SeedWrite(t)

NotesNext ==
  \E m \in Members : GetNotes(m) \/ SaveRead(m) \/ SaveInsert(m) \/ SaveUpdate(m)

PanelsNext == PackingNext \/ NotesNext

PanelsSpec == PanelsInit /\ [][PanelsNext]_panelsVars

PanelsTypeOK ==
  /\ item \in [Items -> ItemType]
  /\ notes \in NotesType
  /\ seen \in [Members -> NotesType]
  /\ save \in [Members -> {"none", "insert", "update"}]
  /\ task \in [Tasks -> TaskType]

-----------------------------------------------------------------------------
\* "Non-destructive by default": the starter list is on a packing list twice
\* only if two seedings overlapped (seedPacking, whose count and insertion are
\* two statements at READ COMMITTED).
SeededOnce ==
  \A i, j \in There :
    i # j /\ item[i].starter /\ item[j].starter => item[i].overtaken \/ item[j].overtaken

\* Nobody's text is replaced by someone who had not seen it: what a save
\* replaces is what its member was last given (updateNotes: "two people editing
\* the same scratchpad is the expected case"; the first save of a trip, which
\* has no row to compare with, included).
NoTextLost ==
  [][\A m \in Members : notes' # notes /\ save'[m] # save[m] => seen[m] = notes]_panelsVars
=============================================================================
