----------------------------- MODULE PartsProofs -----------------------------
(***************************************************************************)
(* Theorems about the four modules of MCParts, for every value of their    *)
(* constants.  Each component is proved by itself: an inductive invariant, *)
(* one step of the proof per action, then the theorems about its Spec.     *)
(***************************************************************************)
EXTENDS Trips, Shelf, Media, Panels, Sums, TLAPS

-----------------------------------------------------------------------------
(* Panels: the packing list.                                                 *)

\* A seeding nobody has overtaken clears every starter list there is.
SeedingsSee ==
  \A t \in Tasks : task[t].does = "seed" /\ ~task[t].overtaken =>
    \A i \in There : item[i].starter => i \in task[t].clears

PackingInv ==
  /\ item \in [Items -> ItemType]
  /\ task \in [Tasks -> TaskType]
  /\ SeedingsSee
  /\ SeededOnce

LEMMA PackingStarts == PanelsInit => PackingInv
BY DEF PanelsInit, PackingInv, ItemType, TaskType, SeedingsSee, SeededOnce, There, Rest, NoItem

\* An item that is there has all the fields of a row.
LEMMA ItemThere ==
  ASSUME item \in [Items -> ItemType], NEW i \in There
  PROVE  /\ i \in Items
         /\ item[i] \in [there : {TRUE}, starter : BOOLEAN, overtaken : BOOLEAN,
                         checkedBy : Members \cup {Nobody}]
<1>1. i \in Items /\ item[i].there /\ item[i] \in ItemType
  BY DEF There
<1>2. ~NoItem.there /\ ~Deleted.there
  BY DEF NoItem, Deleted
<1>3. item[i] # NoItem /\ item[i] # Deleted
  BY <1>1, <1>2, Zenon
<1> QED
  BY <1>1, <1>3 DEF ItemType

LEMMA PackingStep == PackingInv /\ [PackingNext]_panelsVars => PackingInv'
<1> SUFFICES ASSUME PackingInv, [PackingNext]_panelsVars PROVE PackingInv'
  OBVIOUS
<1>1. /\ item \in [Items -> ItemType] /\ task \in [Tasks -> TaskType]
      /\ SeedingsSee /\ SeededOnce
  BY DEF PackingInv
<1>2. ASSUME AddPackingItem PROVE PackingInv'
  <2>1. PICK i \in FreshIds : item' = [item EXCEPT ![i] = NewItem(FALSE, FALSE)]
    BY <1>2 DEF AddPackingItem
  <2>2. task' = task
    BY <1>2 DEF AddPackingItem
  <2>3. i \in Items /\ NewItem(FALSE, FALSE) \in ItemType
    BY DEF FreshIds, NewItem, ItemType
  <2>4. item' \in [Items -> ItemType]
    BY <1>1, <2>1, <2>3
  <2>5. /\ There' = There \cup {i}
        /\ ~item'[i].starter
        /\ \A j \in Items \ {i} : item'[j] = item[j]
    BY <1>1, <2>1, <2>3 DEF There, NewItem
  <2> QED
    BY <1>1, <2>2, <2>4, <2>5 DEF PackingInv, SeedingsSee, SeededOnce, There
<1>3. ASSUME DeletePackingItem PROVE PackingInv'
  <2>1. PICK i \in There : item' = [item EXCEPT ![i] = Deleted]
    BY <1>3 DEF DeletePackingItem
  <2>2. task' = task
    BY <1>3 DEF DeletePackingItem
  <2>3. i \in Items /\ Deleted \in ItemType
    BY DEF There, ItemType
  <2>4. item' \in [Items -> ItemType]
    BY <1>1, <2>1, <2>3
  <2>5. There' = There \ {i} /\ \A j \in Items \ {i} : item'[j] = item[j]
    BY <1>1, <2>1, <2>3 DEF There, Deleted
  <2> QED
    BY <1>1, <2>2, <2>4, <2>5 DEF PackingInv, SeedingsSee, SeededOnce, There
<1>4. ASSUME NEW t \in Tasks, TickRead(t) PROVE PackingInv'
  <2>1. PICK m \in Members, i \in There, want \in BOOLEAN :
          task' = [task EXCEPT ![t] =
            [does |-> "tick", by |-> m, item |-> i, want |-> want, was |-> Checked(i)]]
    BY <1>4 DEF TickRead
  <2>2. item' = item
    BY <1>4 DEF TickRead
  <2>3. [does |-> "tick", by |-> m, item |-> i, want |-> want, was |-> Checked(i)] \in TaskType
    BY DEF TaskType, Checked, There
  <2> QED
    BY <1>1, <2>1, <2>2, <2>3 DEF PackingInv, SeedingsSee, SeededOnce, There
<1>5. ASSUME NEW t \in Tasks, TickWrite(t) PROVE PackingInv'
  <2>1. /\ task[t].does = "tick"
        /\ task' = [task EXCEPT ![t] = Rest]
        /\ \/ item' = item
           \/ /\ task[t].item \in There
              /\ \E n \in Members \cup {Nobody} :
                   item' = [item EXCEPT ![task[t].item].checkedBy = n]
    <3> DEFINE tick == task[t]
    <3>1. /\ tick.does = "tick"
          /\ item' = IF tick.item \in There /\ tick.want # tick.was
                     THEN [item EXCEPT ![tick.item].checkedBy =
                             IF tick.want THEN tick.by ELSE Nobody]
                     ELSE item
          /\ task' = [task EXCEPT ![t] = Rest]
      BY <1>5 DEF TickWrite
    <3>2. tick.by \in Members
      BY <1>1, <3>1 DEF TaskType, Rest
    <3>3. (IF tick.want THEN tick.by ELSE Nobody) \in Members \cup {Nobody}
      BY <3>2
    <3> HIDE DEF tick
    <3>4. item' = item \/ (tick.item \in There /\
            item' = [item EXCEPT ![tick.item].checkedBy = IF tick.want THEN tick.by ELSE Nobody])
      BY <3>1, Zenon
    <3>5. item' = item \/ (tick.item \in There /\ \E n \in Members \cup {Nobody} :
            item' = [item EXCEPT ![tick.item].checkedBy = n])
      BY <3>3, <3>4
    <3> QED
      BY <3>1, <3>5 DEF tick
  <2>2. Rest \in TaskType /\ Rest.does = "nothing"
    BY DEF TaskType, Rest
  <2>3. /\ item' \in [Items -> ItemType]
        /\ There' = There
        /\ \A i \in There : /\ item'[i].starter = item[i].starter
                            /\ item'[i].overtaken = item[i].overtaken
    <3>1. CASE item' = item
      BY <1>1, <3>1 DEF There
    <3>2. ASSUME task[t].item \in There, NEW n \in Members \cup {Nobody},
                 item' = [item EXCEPT ![task[t].item].checkedBy = n]
          PROVE  <2>3!1 /\ <2>3!2 /\ <2>3!3
      <4> DEFINE i == task[t].item
      <4>1. i \in Items /\ item[i] \in [there : {TRUE}, starter : BOOLEAN, overtaken : BOOLEAN,
                                        checkedBy : Members \cup {Nobody}]
        BY <1>1, <3>2, ItemThere
      <4>2. item' = [item EXCEPT ![i] = [item[i] EXCEPT !.checkedBy = n]]
        BY <3>2
      <4>3. [item[i] EXCEPT !.checkedBy = n] \in
              [there : {TRUE}, starter : BOOLEAN, overtaken : BOOLEAN,
               checkedBy : Members \cup {Nobody}]
        BY <4>1, <3>2
      <4>4. item' \in [Items -> ItemType]
        BY <1>1, <4>1, <4>2, <4>3 DEF ItemType
      <4>5. /\ item'[i].there = item[i].there
            /\ item'[i].starter = item[i].starter
            /\ item'[i].overtaken = item[i].overtaken
        BY <1>1, <4>1, <4>2
      <4>6. \A j \in Items \ {i} : item'[j] = item[j]
        BY <1>1, <4>2
      <4> QED
        BY <4>1, <4>4, <4>5, <4>6 DEF There
    <3> QED
      BY <2>1, <3>1, <3>2
  <2> QED
    BY <1>1, <2>1, <2>2, <2>3 DEF PackingInv, SeedingsSee, SeededOnce
<1>6. ASSUME NEW t \in Tasks, SeedRead(t) PROVE PackingInv'
  <2>1. PICK replace \in BOOLEAN :
          /\ replace \/ There = {}
          /\ task' = [task EXCEPT ![t] =
               [does |-> "seed", clears |-> IF replace THEN There ELSE {}, overtaken |-> FALSE]]
    BY <1>6 DEF SeedRead
  <2>2. item' = item /\ There' = There
    BY <1>6 DEF SeedRead, There
  <2> DEFINE clears == IF replace THEN There ELSE {}
  <2>3. clears = There
    BY <2>1
  <2>4. /\ task'[t] = [does |-> "seed", clears |-> There, overtaken |-> FALSE]
        /\ \A u \in Tasks \ {t} : task'[u] = task[u]
    BY <1>1, <2>1, <2>3
  <2>5. task' \in [Tasks -> TaskType]
    BY <1>1, <2>1, <2>3 DEF TaskType, There
  <2> QED
    BY <1>1, <2>2, <2>4, <2>5 DEF PackingInv, SeedingsSee, SeededOnce
<1>7. ASSUME NEW t \in Tasks, SeedWrite(t) PROVE PackingInv'
  <2>1. PICK i \in FreshIds :
          item' = [j \in Items |->
            IF j = i THEN NewItem(TRUE, task[t].overtaken)
            ELSE IF j \in task[t].clears THEN Deleted ELSE item[j]]
    BY <1>7 DEF SeedWrite
  <2>2. task' = [u \in Tasks |->
          IF u = t THEN Rest
          ELSE IF task[u].does = "seed" THEN [task[u] EXCEPT !.overtaken = TRUE]
          ELSE task[u]]
    BY <1>7 DEF SeedWrite
  <2>3. task[t] \in [does : {"seed"}, clears : SUBSET Items, overtaken : BOOLEAN]
    BY <1>1, <1>7 DEF SeedWrite, TaskType, Rest
  <2>4. item' \in [Items -> ItemType]
    BY <1>1, <2>1, <2>3 DEF ItemType, NewItem
  <2>5. ASSUME NEW u \in Tasks
        PROVE  task'[u] \in TaskType /\ (task'[u].does = "seed" => task'[u].overtaken)
    <3>1. CASE u # t /\ task[u].does = "seed"
      <4>1. task[u] \in [does : {"seed"}, clears : SUBSET Items, overtaken : BOOLEAN]
        BY <1>1, <3>1 DEF TaskType, Rest
      <4> QED
        BY <2>2, <3>1, <4>1 DEF TaskType
    <3> QED
      BY <1>1, <2>2, <3>1 DEF TaskType, Rest
  <2>6. task' \in [Tasks -> TaskType]
    BY <2>2, <2>5
  <2>7. SeedingsSee'
    BY <2>5 DEF SeedingsSee
  <2>8. /\ i \in Items
        /\ item'[i].there /\ item'[i].overtaken = task[t].overtaken
        /\ \A j \in There' \ {i} : j \in There /\ j \notin task[t].clears /\ item'[j] = item[j]
    BY <1>1, <2>1 DEF There, FreshIds, NewItem, Deleted
  <2>9. ASSUME NEW j \in There' \ {i}, item'[j].starter
        PROVE  item'[i].overtaken \/ item'[j].overtaken
    BY <1>1, <2>3, <2>8, <2>9 DEF SeedingsSee
  <2>10. SeededOnce'
    BY <1>1, <2>8, <2>9 DEF SeededOnce
  <2> QED
    BY <2>4, <2>6, <2>7, <2>10 DEF PackingInv
<1>8. CASE UNCHANGED panelsVars
  BY <1>1, <1>8 DEF panelsVars, PackingInv, SeedingsSee, SeededOnce, There
<1> QED
  BY <1>2, <1>3, <1>4, <1>5, <1>6, <1>7, <1>8 DEF PackingNext

LEMMA PackingAlone == PackingInv /\ [PanelsNext]_panelsVars => PackingInv'
<1>1. NotesNext => UNCHANGED packing
  BY DEF NotesNext, GetNotes, SaveRead, SaveInsert, SaveUpdate, Answered, Conflicts
<1>2. PackingInv /\ UNCHANGED packing => PackingInv'
  BY DEF packing, PackingInv, SeedingsSee, SeededOnce, There
<1> QED
  BY <1>1, <1>2, PackingStep DEF PanelsNext

\* A starter list is on the packing list twice only if two seedings overlapped.
THEOREM PanelsSeededOnce == PanelsSpec => []SeededOnce
<1>1. PackingInv => SeededOnce
  BY DEF PackingInv
<1> QED
  BY <1>1, PackingStarts, PackingAlone, PTL DEF PanelsSpec

-----------------------------------------------------------------------------
(* Panels: the notes.                                                        *)

\* What a member was last given is the notes as they are, or an earlier version
\* of them; a member who saves for the first time was given the empty notes, and
\* one who updates a version that can still be followed.
SeenIsPast ==
  \A m \in Members :
    /\ seen[m].version <= notes.version
    /\ seen[m].version = notes.version => seen[m] = notes
    /\ save[m] = "insert" => seen[m] = NoNotes /\ 2 <= MaxVersion
    /\ save[m] = "update" => seen[m].version < MaxVersion

NotesInv ==
  /\ notes \in NotesType
  /\ seen \in [Members -> NotesType]
  /\ save \in [Members -> {"none", "insert", "update"}]
  /\ SeenIsPast

LEMMA NotesStart == PanelsInit => NotesInv
BY DEF PanelsInit, NotesInv, NotesType, SeenIsPast, NoNotes

\* The version says whether there is a row.
LEMMA NotesVersion ==
  ASSUME NEW n \in NotesType
  PROVE  /\ n.version \in Int
         /\ n.version = 1 \/ n.version \in 2..MaxVersion
         /\ n.version = 1 => n = NoNotes
         /\ n.row => n.version # 1
         /\ n = NoNotes => ~n.row /\ n.version = 1
<1>1. CASE n = NoNotes
  <2>1. ~NoNotes.row /\ NoNotes.version = 1
    BY DEF NoNotes
  <2>2. ~n.row /\ n.version = 1
    BY <1>1, <2>1, Zenon
  <2> QED
    BY <1>1, <2>2
<1>2. CASE n # NoNotes
  <2>1. n \in [version : 2..MaxVersion, text : Members \X (1..MaxVersion), row : {TRUE}]
    BY <1>2 DEF NotesType
  <2> QED
    BY <1>2, <2>1, PanelsAssumption
<1> QED
  BY <1>1, <1>2

LEMMA WrittenType ==
  ASSUME NEW m \in Members, NEW v \in 2..MaxVersion
  PROVE  Written(m, v) \in NotesType /\ Written(m, v).version = v
BY PanelsAssumption DEF Written, NotesType

\* An answer that moves the notes on, or leaves them, keeps the invariant.
LEMMA AnswerKeeps ==
  ASSUME NotesInv, NEW m \in Members, NEW now \in NotesType, Answered(m, now),
         now = notes \/ notes.version < now.version
  PROVE  NotesInv'
<1>1. /\ notes \in NotesType /\ seen \in [Members -> NotesType]
      /\ save \in [Members -> {"none", "insert", "update"}] /\ SeenIsPast
  BY DEF NotesInv
<1>2. /\ notes' = now
      /\ seen' = [seen EXCEPT ![m] = now]
      /\ save' = [save EXCEPT ![m] = "none"]
  BY DEF Answered
<1>3. notes.version \in Int /\ now.version \in Int
  BY <1>1, NotesVersion
<1>4. ASSUME NEW n \in Members
      PROVE  /\ seen'[n].version <= notes'.version
             /\ seen'[n].version = notes'.version => seen'[n] = notes'
             /\ save'[n] = "insert" => seen'[n] = NoNotes /\ 2 <= MaxVersion
             /\ save'[n] = "update" => seen'[n].version < MaxVersion
  <2>1. CASE n = m
    BY <1>1, <1>2, <1>3, <2>1
  <2>2. CASE n # m
    <3>1. /\ seen[n].version <= notes.version
          /\ seen[n].version = notes.version => seen[n] = notes
          /\ save[n] = "insert" => seen[n] = NoNotes /\ 2 <= MaxVersion
          /\ save[n] = "update" => seen[n].version < MaxVersion
      BY <1>1 DEF SeenIsPast
    <3>2. seen'[n] = seen[n] /\ save'[n] = save[n] /\ seen[n].version \in Int
      BY <1>1, <1>2, <2>2, NotesVersion
    <3> QED
      BY <1>2, <1>3, <3>1, <3>2
  <2> QED
    BY <2>1, <2>2
<1>5. SeenIsPast'
  BY <1>4 DEF SeenIsPast
<1> QED
  BY <1>1, <1>2, <1>5 DEF NotesInv

\* The one write that changes the notes, by the member who had seen them.
LEMMA SaveStep ==
  ASSUME NotesInv, NEW m \in Members, SaveInsert(m) \/ SaveUpdate(m)
  PROVE  /\ NotesInv'
         /\ notes' # notes => seen[m] = notes
         /\ \A n \in Members \ {m} : save'[n] = save[n]
<1>1. /\ notes \in NotesType /\ seen \in [Members -> NotesType]
      /\ save \in [Members -> {"none", "insert", "update"}] /\ SeenIsPast
  BY DEF NotesInv
<1>2. /\ seen[m].version <= notes.version
      /\ seen[m].version = notes.version => seen[m] = notes
      /\ save[m] = "insert" => seen[m] = NoNotes /\ 2 <= MaxVersion
      /\ save[m] = "update" => seen[m].version < MaxVersion
  BY <1>1 DEF SeenIsPast
<1>3. CASE SaveInsert(m)
  <2>1. CASE notes.row
    <3>1. save' = [save EXCEPT ![m] = "none"] /\ notes' = notes /\ seen' = seen
      BY <1>3, <2>1 DEF SaveInsert, Conflicts
    <3>2. \A n \in Members : save'[n] = save[n] \/ save'[n] = "none"
      BY <1>1, <3>1
    <3>3. SeenIsPast'
      BY <1>1, <3>1, <3>2 DEF SeenIsPast
    <3> QED
      BY <1>1, <3>1, <3>3 DEF NotesInv
  <2>2. CASE ~notes.row
    <3>1. notes = NoNotes
      BY <1>1, <2>2 DEF NotesType
    <3>2. seen[m] = NoNotes /\ 2 <= MaxVersion
      BY <1>2, <1>3 DEF SaveInsert
    <3>3. Answered(m, Written(m, 2))
      BY <1>3, <2>2 DEF SaveInsert
    <3>4. Written(m, 2) \in NotesType /\ Written(m, 2).version = 2
      BY <3>2, WrittenType, PanelsAssumption
    <3>5. notes.version = 1
      BY <3>1 DEF NoNotes
    <3>6. NotesInv'
      BY <3>3, <3>4, <3>5, AnswerKeeps
    <3> QED
      BY <1>1, <3>1, <3>2, <3>3, <3>6 DEF Answered
  <2> QED
    BY <2>1, <2>2
<1>4. CASE SaveUpdate(m)
  <2>1. save[m] = "update"
    BY <1>4 DEF SaveUpdate
  <2>2. CASE notes.version = seen[m].version
    <3>1. Answered(m, Written(m, notes.version + 1))
      BY <1>4, <2>2 DEF SaveUpdate
    <3>2. notes.version + 1 \in 2..MaxVersion /\ notes.version \in Int
      BY <1>1, <1>2, <2>1, <2>2, NotesVersion, PanelsAssumption
    <3>3. /\ Written(m, notes.version + 1) \in NotesType
          /\ Written(m, notes.version + 1).version = notes.version + 1
      BY <3>2, WrittenType
    <3>4. NotesInv'
      BY <3>1, <3>2, <3>3, AnswerKeeps
    <3> QED
      BY <1>1, <1>2, <2>2, <3>1, <3>4 DEF Answered
  <2>3. CASE notes.version # seen[m].version
    <3>1. Answered(m, notes)
      BY <1>4, <2>3 DEF SaveUpdate
    <3>2. NotesInv'
      BY <1>1, <3>1, AnswerKeeps
    <3> QED
      BY <1>1, <3>1, <3>2 DEF Answered
  <2> QED
    BY <2>2, <2>3
<1> QED
  BY <1>3, <1>4

LEMMA NotesStep == NotesInv /\ [PanelsNext]_panelsVars => NotesInv'
<1> SUFFICES ASSUME NotesInv, [PanelsNext]_panelsVars PROVE NotesInv'
  OBVIOUS
<1>1. /\ notes \in NotesType /\ seen \in [Members -> NotesType]
      /\ save \in [Members -> {"none", "insert", "update"}] /\ SeenIsPast
  BY DEF NotesInv
<1>2. ASSUME NEW m \in Members, GetNotes(m) PROVE NotesInv'
  <2>1. save[m] = "none" /\ seen' = [seen EXCEPT ![m] = notes] /\ notes' = notes /\ save' = save
    BY <1>2 DEF GetNotes
  <2>2. notes.version \in Int
    BY <1>1, NotesVersion
  <2>3. SeenIsPast'
    BY <1>1, <2>1, <2>2 DEF SeenIsPast
  <2> QED
    BY <1>1, <2>1, <2>3 DEF NotesInv
<1>3. ASSUME NEW m \in Members, SaveRead(m) PROVE NotesInv'
  <2>1. notes' = notes /\ seen' = seen /\ notes.version < MaxVersion
    BY <1>3 DEF SaveRead
  <2>2. \/ notes.row /\ save' = [save EXCEPT ![m] = "update"]
        \/ seen[m].version = 1 /\ save' = [save EXCEPT ![m] = "insert"]
    BY <1>3 DEF SaveRead
  <2>3. /\ notes.version \in Int /\ notes.version >= 1
        /\ seen[m].version \in Int
        /\ seen[m].version = 1 => seen[m] = NoNotes
        /\ seen[m].version <= notes.version
    BY <1>1, NotesVersion DEF SeenIsPast
  <2>4. SeenIsPast'
    BY <1>1, <2>1, <2>2, <2>3, PanelsAssumption DEF SeenIsPast
  <2> QED
    BY <1>1, <2>1, <2>2, <2>4 DEF NotesInv
<1>4. ASSUME NEW m \in Members, SaveInsert(m) \/ SaveUpdate(m) PROVE NotesInv'
  BY <1>4, SaveStep
<1>5. ASSUME UNCHANGED writing PROVE NotesInv'
  BY <1>1, <1>5 DEF writing, NotesInv, SeenIsPast
<1>6. PackingNext => UNCHANGED writing
  BY DEF PackingNext, AddPackingItem, DeletePackingItem, TickRead, TickWrite, SeedRead, SeedWrite
<1> QED
  BY <1>2, <1>3, <1>4, <1>5, <1>6 DEF PanelsNext, NotesNext, panelsVars, writing

LEMMA PanelsTyped == PackingInv /\ NotesInv => PanelsTypeOK
BY DEF PackingInv, NotesInv, PanelsTypeOK

\* The rows of the two panels and the requests on them are well typed.
THEOREM PanelsTypes == PanelsSpec => []PanelsTypeOK
BY PackingStarts, PackingAlone, NotesStart, NotesStep, PanelsTyped, PTL DEF PanelsSpec

\* Nobody's text is replaced by someone who had not seen it: equal versions are
\* equal texts, and the first save meets the primary key.
THEOREM PanelsNoTextLost == PanelsSpec => NoTextLost
<1>1. NotesInv /\ [PanelsNext]_panelsVars =>
        \A m \in Members : notes' # notes /\ save'[m] # save[m] => seen[m] = notes
  <2> SUFFICES ASSUME NotesInv, [PanelsNext]_panelsVars, NEW m \in Members,
                      notes' # notes, save'[m] # save[m]
               PROVE  seen[m] = notes
    OBVIOUS
  <2>1. PICK n \in Members : SaveInsert(n) \/ SaveUpdate(n)
    BY DEF PanelsNext, NotesNext, panelsVars, writing, GetNotes, SaveRead, PackingNext,
       AddPackingItem, DeletePackingItem, TickRead, TickWrite, SeedRead, SeedWrite
  <2> QED
    BY <2>1, SaveStep
<1> QED
  BY <1>1, NotesStart, NotesStep, PTL DEF PanelsSpec, NoTextLost

-----------------------------------------------------------------------------
(* Media: the store and the table.                                           *)

Created == [at : {"download", "quota", "put", "insert"}, owner : Owners,
            photo : Photos \cup {Device}, size : 1..MaxSize]
Stored == [row : {TRUE}, owner : Owners, photo : Photos \cup {Device}, size : 1..MaxSize]

\* How far the requests on an asset are says where its row and its bytes are:
\* before the put no bytes, before the insertion no row and nobody to remove it,
\* and no bytes left by a removal that has done with them, unless it failed to.
Progress(a) ==
  /\ creation[a] # Over => ~asset[a].row /\ removal[a] = "none"
  /\ creation[a] = Fresh \/ creation[a].at \in {"download", "quota", "put"} => a \notin bytes
  /\ creation[a].at = "insert" => a \in bytes
  /\ removal[a] = "row" /\ a \in bytes => a \in history.faulty

SameImport(x, y) == x.owner = y.owner /\ x.photo = y.photo /\ x.photo # Device

\* An import under way beside a row of its photo has been marked as overtaken.
ImportsMarked ==
  \A a, b \in Assets :
    Creating(a) /\ asset[b].row /\ SameImport(asset[b], creation[a]) => a \in history.doubled

MediaInv ==
  /\ MediaTypeOK
  /\ \A a \in Assets : Progress(a)
  /\ StorageAgrees
  /\ ImportsMarked
  /\ OnePhotoOneRow

LEMMA AssetCases ==
  ASSUME MediaTypeOK, NEW a \in Assets
  PROVE  /\ asset[a].row <=> asset[a] # NoRow
         /\ asset[a] # NoRow => asset[a] \in Stored
<1>1. asset[a] \in {NoRow} \cup Stored
  BY DEF MediaTypeOK, AssetType, Stored
<1>2. ~NoRow.row
  BY DEF NoRow
<1>3. asset[a] \in Stored => asset[a].row
  BY DEF Stored
<1>4. asset[a] = NoRow => ~asset[a].row
  BY <1>2, Zenon
<1> QED
  BY <1>1, <1>3, <1>4

LEMMA CreationCases ==
  ASSUME MediaTypeOK, NEW a \in Assets
  PROVE  /\ creation[a] \in {Fresh, Over} \cup Created
         /\ Creating(a) <=> creation[a] \in Created
         /\ Creating(a) <=> creation[a].at \in {"download", "quota", "put", "insert"}
         /\ Fresh # Over
         /\ Over.at = "over" /\ Fresh.at = "fresh"
<1>1. creation[a] \in {Fresh, Over} \cup Created
  BY DEF MediaTypeOK, CreationType, Created
<1>2. Fresh.at = "fresh" /\ Over.at = "over"
  BY DEF Fresh, Over
<1>3. creation[a] \in Created => creation[a].at \in {"download", "quota", "put", "insert"}
  BY DEF Created
<1> QED
  BY <1>1, <1>2, <1>3 DEF Creating

LEMMA MediaStarts == MediaInit => MediaInv
<1> SUFFICES ASSUME MediaInit PROVE MediaInv
  OBVIOUS
<1>1. MediaTypeOK
  BY DEF MediaInit, MediaTypeOK, AssetType, CreationType, HistoryType
<1>2. \A a \in Assets : ~asset[a].row
  BY <1>1, AssetCases DEF MediaInit
<1>3. Fresh.at = "fresh" /\ Fresh # Over
  BY DEF Fresh, Over
<1>4. \A a \in Assets : creation[a] = Fresh /\ a \notin bytes /\ removal[a] = "none"
  BY DEF MediaInit
<1> QED
  BY <1>1, <1>2, <1>3, <1>4 DEF MediaInv, Progress, StorageAgrees, ImportsMarked, OnePhotoOneRow,
     Creating

\* What a step that leaves the rows of all assets but one alone has to show.
LEMMA OneAsset ==
  ASSUME MediaInv, NEW a \in Assets, MediaTypeOK',
         \A b \in Assets \ {a} :
           /\ asset'[b] = asset[b] /\ creation'[b] = creation[b] /\ removal'[b] = removal[b]
           /\ b \in bytes' <=> b \in bytes
           /\ b \in history.faulty => b \in history'.faulty
           /\ b \in history.emptied => b \in history'.emptied,
         Progress(a)',
         asset'[a].row => a \in bytes' \cup history'.emptied,
         a \in bytes' /\ ~asset'[a].row /\ ~Creating(a)' => a \in history'.faulty,
         ImportsMarked', OnePhotoOneRow'
  PROVE  MediaInv'
BY DEF MediaInv, Progress, StorageAgrees, Creating

\* A step that makes no row and begins no creation cannot double an import.
LEMMA NoNewRow ==
  ASSUME MediaInv, MediaTypeOK',
         \A b \in Assets :
           /\ asset'[b] = asset[b] \/ asset'[b] = NoRow
           /\ creation'[b] = creation[b]
              \/ creation'[b] = Over
              \/ /\ Creating(b)
                 /\ creation'[b].owner = creation[b].owner
                 /\ creation'[b].photo = creation[b].photo,
         history'.doubled = history.doubled
  PROVE  ImportsMarked' /\ OnePhotoOneRow'
<1>1. \A b \in Assets : asset'[b].row => asset'[b] = asset[b] /\ asset[b].row
  <2>1. ~NoRow.row
    BY DEF NoRow
  <2> QED
    BY <2>1, Zenon
<1>2. \A b \in Assets : Creating(b)' => /\ Creating(b)
                                       /\ creation'[b].owner = creation[b].owner
                                       /\ creation'[b].photo = creation[b].photo
  BY DEF Creating
<1>3. ImportsMarked'
  <2> SUFFICES ASSUME NEW b \in Assets, NEW c \in Assets, Creating(b)', asset'[c].row,
                      SameImport(asset'[c], creation'[b])
               PROVE  b \in history'.doubled
    BY DEF ImportsMarked
  <2> QED
    BY <1>1, <1>2 DEF MediaInv, ImportsMarked, SameImport
<1>4. OnePhotoOneRow'
  <2> SUFFICES ASSUME NEW b \in Assets, NEW c \in Assets, b # c, asset'[b].row, asset'[c].row,
                      asset'[b].owner = asset'[c].owner,
                      asset'[b].photo = asset'[c].photo, asset'[b].photo # Device
               PROVE  history'.doubled \cap {b, c} # {}
    BY DEF OnePhotoOneRow
  <2> QED
    BY <1>1 DEF MediaInv, OnePhotoOneRow
<1> QED
  BY <1>3, <1>4

LEMMA BeginStep ==
  ASSUME MediaInv, NEW a \in Assets, NEW o \in Owners, NEW photo \in Photos \cup {Device},
         NEW at \in {"download", "quota"}, Begin(a, o, photo, at),
         photo = Device \/ Imports(o, photo) = {}
  PROVE  MediaInv'
<1>0. MediaTypeOK /\ Progress(a) /\ StorageAgrees /\ ImportsMarked /\ OnePhotoOneRow
  BY DEF MediaInv
<1>1. PICK size \in 1..MaxSize :
        creation' = [creation EXCEPT ![a] = [at |-> at, owner |-> o, photo |-> photo, size |-> size]]
  BY DEF Begin
<1> DEFINE c == [at |-> at, owner |-> o, photo |-> photo, size |-> size]
<1>2. creation[a] = Fresh /\ UNCHANGED <<asset, bytes, removal, results, history>>
  BY DEF Begin
<1>3. c \in Created /\ c.at = at /\ c.owner = o /\ c.photo = photo
  BY DEF Created
<1>4. MediaTypeOK'
  BY <1>0, <1>1, <1>2, <1>3 DEF MediaTypeOK, CreationType, Created
<1>5. creation'[a] = c /\ \A b \in Assets \ {a} : creation'[b] = creation[b]
  BY <1>0, <1>1 DEF MediaTypeOK
<1>6. Fresh # Over /\ ~asset[a].row /\ removal[a] = "none" /\ a \notin bytes
  BY <1>0, <1>2, CreationCases DEF Progress
<1>7. Progress(a)'
  BY <1>2, <1>3, <1>5, <1>6 DEF Progress
<1>8. Creating(a)'
  BY <1>3, <1>4, <1>5, CreationCases DEF Creating, Created, Fresh, Over
<1>9. ImportsMarked'
  <2> SUFFICES ASSUME NEW x \in Assets, NEW b \in Assets, Creating(x)', asset'[b].row,
                      SameImport(asset'[b], creation'[x])
               PROVE  x \in history'.doubled
    BY DEF ImportsMarked
  <2>1. CASE x = a
    <3>1. b \in Imports(o, photo)
      BY <1>2, <1>3, <1>5, <2>1 DEF Imports, OwnedBy, SameImport
    <3>2. photo # Device
      BY <1>2, <1>3, <1>5, <2>1 DEF SameImport
    <3> QED
      BY <3>1, <3>2
  <2>2. CASE x # a
    BY <1>0, <1>2, <1>5, <2>2 DEF ImportsMarked, Creating
  <2> QED
    BY <2>1, <2>2
<1>10. OnePhotoOneRow'
  BY <1>0, <1>2 DEF OnePhotoOneRow
<1> QED
  BY <1>2, <1>4, <1>5, <1>6, <1>7, <1>8, <1>9, <1>10, OneAsset

\* Download, the reading of the quota and the put: the creation moves on.
LEMMA GoesStep ==
  ASSUME MediaInv, NEW a \in Assets, NEW from, NEW to \in {"quota", "put", "insert"},
         from \in {"download", "quota", "put"}, Goes(a, from, to),
         UNCHANGED <<asset, removal, results, history>>,
         bytes' = IF to = "insert" THEN bytes \cup {a} ELSE bytes
  PROVE  MediaInv'
<1>0. MediaTypeOK /\ Progress(a) /\ StorageAgrees
  BY DEF MediaInv
<1>1. creation[a] \in Created
  BY <1>0, CreationCases DEF Goes
<1>2. creation' = [creation EXCEPT ![a] = [creation[a] EXCEPT !.at = to]]
  BY DEF Goes
<1>3. /\ [creation[a] EXCEPT !.at = to] \in Created
      /\ [creation[a] EXCEPT !.at = to].at = to
      /\ [creation[a] EXCEPT !.at = to].owner = creation[a].owner
      /\ [creation[a] EXCEPT !.at = to].photo = creation[a].photo
  BY <1>1 DEF Created
<1>4. MediaTypeOK'
  BY <1>0, <1>2, <1>3 DEF MediaTypeOK, CreationType, Created
<1>5. /\ creation'[a].at = to
      /\ creation'[a].owner = creation[a].owner
      /\ creation'[a].photo = creation[a].photo
      /\ \A b \in Assets \ {a} : creation'[b] = creation[b]
  BY <1>0, <1>2, <1>3 DEF MediaTypeOK
<1>6. Creating(a) /\ Creating(a)'
  BY <1>0, <1>1, <1>4, <1>5, CreationCases DEF Creating
<1>7. ~asset[a].row /\ removal[a] = "none" /\ a \notin bytes
  <2>1. creation[a] # Over
    BY <1>6 DEF Creating
  <2>2. creation[a].at \in {"download", "quota", "put"}
    BY DEF Goes
  <2> QED
    BY <1>0, <2>1, <2>2 DEF Progress
<1>8. Progress(a)'
  BY <1>5, <1>6, <1>7 DEF Progress, Creating
<1>9. ImportsMarked' /\ OnePhotoOneRow'
  BY <1>4, <1>5, <1>6, NoNewRow
<1> QED
  BY <1>4, <1>5, <1>6, <1>7, <1>8, <1>9, OneAsset

LEMMA InsertStep ==
  ASSUME MediaInv, NEW a \in Assets, Insert(a)
  PROVE  MediaInv'
<1> DEFINE c == creation[a]
           twins == {b \in Assets : b # a /\ Creating(b) /\ creation[b].photo = c.photo
                                          /\ creation[b].owner = c.owner}
<1>0. MediaTypeOK /\ Progress(a) /\ StorageAgrees /\ ImportsMarked /\ OnePhotoOneRow
  BY DEF MediaInv
<1>1. /\ c.at = "insert"
      /\ creation' = [creation EXCEPT ![a] = Over]
      /\ history' = IF c.photo = Device THEN history
                    ELSE [history EXCEPT !.doubled = @ \cup twins]
      /\ UNCHANGED <<bytes, removal, results>>
  BY DEF Insert
<1>2. c \in Created /\ Creating(a)
  BY <1>0, <1>1, CreationCases
<1>3. PICK size \in IF c.photo = Device THEN 1..c.size ELSE {c.size} :
        asset' = [asset EXCEPT ![a] =
          [row |-> TRUE, owner |-> c.owner, photo |-> c.photo, size |-> size]]
  BY DEF Insert
<1> DEFINE new == [row |-> TRUE, owner |-> c.owner, photo |-> c.photo, size |-> size]
<1>4. new \in Stored /\ new.row /\ new.owner = c.owner /\ new.photo = c.photo
  <2>1. size \in 1..MaxSize
    BY <1>2, MediaAssumption DEF Created
  <2> QED
    BY <1>2, <2>1 DEF Created, Stored
<1>5. /\ asset'[a] = new
      /\ \A b \in Assets \ {a} : asset'[b] = asset[b] /\ creation'[b] = creation[b]
      /\ creation'[a] = Over
  BY <1>0, <1>1, <1>3 DEF MediaTypeOK
<1>6. /\ history' \in HistoryType
      /\ history'.faulty = history.faulty /\ history'.emptied = history.emptied
      /\ history.doubled \subseteq history'.doubled
      /\ c.photo # Device => twins \subseteq history'.doubled
  BY <1>0, <1>1 DEF MediaTypeOK, HistoryType
<1>7. MediaTypeOK'
  BY <1>0, <1>1, <1>3, <1>4, <1>6 DEF MediaTypeOK, AssetType, Stored, CreationType
<1>8. a \in bytes /\ removal[a] = "none"
  BY <1>0, <1>1, <1>2 DEF Progress, Creating
<1>9. Over.at = "over" /\ Fresh # Over
  BY <1>0, CreationCases
<1>10. Progress(a)'
  BY <1>1, <1>5, <1>8, <1>9 DEF Progress
<1>11. asset'[a].row
  BY <1>4, <1>5, Zenon
<1>12. ImportsMarked'
  <2> SUFFICES ASSUME NEW x \in Assets, NEW b \in Assets, Creating(x)', asset'[b].row,
                      SameImport(asset'[b], creation'[x])
               PROVE  x \in history'.doubled
    BY DEF ImportsMarked
  <2>1. x # a
    BY <1>5 DEF Creating
  <2>2. Creating(x) /\ creation'[x] = creation[x]
    BY <1>5, <2>1 DEF Creating
  <2>3. CASE b = a
    BY <1>4, <1>5, <1>6, <2>1, <2>2, <2>3 DEF SameImport
  <2>4. CASE b # a
    BY <1>0, <1>5, <1>6, <2>2, <2>4 DEF ImportsMarked
  <2> QED
    BY <2>3, <2>4
<1>13. OnePhotoOneRow'
  <2>1. ASSUME NEW b \in Assets \ {a}, asset[b].row,
               asset[b].owner = c.owner, asset[b].photo = c.photo, c.photo # Device
        PROVE  a \in history'.doubled
    BY <1>0, <1>2, <1>6, <2>1 DEF ImportsMarked, SameImport
  <2> SUFFICES ASSUME NEW x \in Assets, NEW b \in Assets, x # b, asset'[x].row, asset'[b].row,
                      asset'[x].owner = asset'[b].owner,
                      asset'[x].photo = asset'[b].photo, asset'[x].photo # Device
               PROVE  history'.doubled \cap {x, b} # {}
    BY DEF OnePhotoOneRow
  <2>2. CASE x = a
    BY <1>4, <1>5, <2>1, <2>2
  <2>3. CASE b = a
    BY <1>4, <1>5, <2>1, <2>3
  <2>4. CASE x # a /\ b # a
    BY <1>0, <1>5, <1>6, <2>4 DEF OnePhotoOneRow
  <2> QED
    BY <2>2, <2>3, <2>4
<1> QED
  BY <1>1, <1>5, <1>6, <1>7, <1>8, <1>10, <1>11, <1>12, <1>13, OneAsset

LEMMA DieStep ==
  ASSUME MediaInv, NEW a \in Assets, Die(a)
  PROVE  MediaInv'
<1>0. MediaTypeOK /\ Progress(a)
  BY DEF MediaInv
<1>1. /\ Creating(a)
      /\ creation' = [creation EXCEPT ![a] = Over]
      /\ bytes' = bytes \/ (creation[a].at = "put" /\ bytes' = bytes \cup {a})
      /\ history' = IF creation[a].at \in {"put", "insert"}
                    THEN [history EXCEPT !.faulty = @ \cup {a}] ELSE history
      /\ UNCHANGED <<asset, removal, results>>
  BY DEF Die
<1>2. creation[a].at \in {"download", "quota", "put", "insert"} /\ Over.at = "over" /\ Fresh # Over
  BY <1>0, <1>1, CreationCases
<1>3. /\ history' \in HistoryType
      /\ history'.doubled = history.doubled /\ history'.emptied = history.emptied
      /\ history.faulty \subseteq history'.faulty
      /\ creation[a].at \in {"put", "insert"} => a \in history'.faulty
  BY <1>0, <1>1 DEF MediaTypeOK, HistoryType
<1>4. creation'[a] = Over /\ \A b \in Assets \ {a} : creation'[b] = creation[b]
  BY <1>0, <1>1 DEF MediaTypeOK
<1>5. MediaTypeOK'
  BY <1>0, <1>1, <1>3 DEF MediaTypeOK, CreationType
<1>6. ~asset[a].row /\ removal[a] = "none"
  BY <1>0, <1>1 DEF Progress, Creating
<1>7. Progress(a)'
  BY <1>1, <1>2, <1>4, <1>6 DEF Progress
<1>8. a \in bytes' => a \in history'.faulty
  BY <1>0, <1>1, <1>2, <1>3 DEF Progress
<1>9. ImportsMarked' /\ OnePhotoOneRow'
  BY <1>1, <1>3, <1>4, <1>5, NoNewRow
<1> QED
  BY <1>1, <1>3, <1>4, <1>5, <1>6, <1>7, <1>8, <1>9, OneAsset

\* The steps of a removal: what each may do to the bytes, the row and the record.
LEMMA RemovalStep ==
  ASSUME MediaInv, NEW a \in Assets, NEW to \in {"none", "bytes", "row"},
         creation[a] = Over,
         removal' = [removal EXCEPT ![a] = to],
         UNCHANGED <<creation, results>>,
         asset' = asset \/ asset' = [asset EXCEPT ![a] = NoRow],
         bytes' = bytes \/ bytes' = bytes \ {a},
         history' \in HistoryType, history'.doubled = history.doubled,
         history.faulty \subseteq history'.faulty, history.emptied \subseteq history'.emptied,
         a \notin bytes' => a \notin bytes \/ a \in history'.emptied,
         to = "row" \/ (asset' # asset) => (a \in bytes' => a \in history'.faulty)
  PROVE  MediaInv'
<1>0. MediaTypeOK /\ Progress(a) /\ StorageAgrees
  BY DEF MediaInv
<1>1. NoRow \in AssetType
  BY DEF AssetType
<1>2. /\ asset' \in [Assets -> AssetType]
      /\ asset'[a] = asset[a] \/ asset'[a] = NoRow
      /\ \A b \in Assets \ {a} : asset'[b] = asset[b]
  BY <1>0, <1>1 DEF MediaTypeOK
<1>3. MediaTypeOK'
  BY <1>0, <1>2 DEF MediaTypeOK
<1>4. removal'[a] = to /\ \A b \in Assets \ {a} : removal'[b] = removal[b]
  BY <1>0 DEF MediaTypeOK
<1>5. Fresh # Over /\ Over.at = "over"
  BY <1>0, CreationCases
<1>6. Progress(a)'
  BY <1>4, <1>5 DEF Progress
<1>7. asset'[a].row => asset[a].row
  <2>1. ~NoRow.row
    BY DEF NoRow
  <2> QED
    BY <1>2, <2>1, Zenon
<1>8. asset'[a].row => a \in bytes' \cup history'.emptied
  BY <1>0, <1>7 DEF StorageAgrees
<1>9. a \in bytes' /\ ~asset'[a].row => a \in history'.faulty
  <2>1. CASE asset' = asset
    BY <1>0, <2>1 DEF StorageAgrees, Creating
  <2> QED
    BY <2>1
<1>10. ImportsMarked' /\ OnePhotoOneRow'
  BY <1>2, <1>3, NoNewRow
<1> QED
  BY <1>2, <1>3, <1>4, <1>6, <1>8, <1>9, <1>10, OneAsset

LEMMA MediaStep == MediaInv /\ [MediaNext]_mediaVars => MediaInv'
<1> SUFFICES ASSUME MediaInv, [MediaNext]_mediaVars PROVE MediaInv'
  OBVIOUS
<1>0. MediaTypeOK /\ StorageAgrees /\ \A a \in Assets : Progress(a)
  BY DEF MediaInv
<1>1. CASE Search
  BY <1>1 DEF Search, MediaInv, MediaTypeOK, Progress, StorageAgrees, ImportsMarked,
     OnePhotoOneRow, Creating
<1>2. ASSUME NEW a \in Assets, NEW o \in Owners, Upload(a, o) \/ Attach(a, o) PROVE MediaInv'
  BY <1>0, <1>2, BeginStep DEF Upload, Attach, MediaTypeOK
<1>3. ASSUME NEW a \in Assets, Download(a) \/ QuotaRead(a) \/ Put(a) PROVE MediaInv'
  BY <1>3, GoesStep DEF Download, QuotaRead, Put
<1>4. ASSUME NEW a \in Assets, Insert(a) \/ Die(a) PROVE MediaInv'
  BY <1>4, InsertStep, DieStep
<1>5. ASSUME NEW a \in Assets, RemovalRead(a) \/ DeleteBytes(a) \/ DeleteRow(a) \/ RemovalDies(a)
      PROVE  MediaInv'
  <2>1. creation[a] = Over
    BY <1>0, <1>5 DEF Progress, RemovalRead, DeleteBytes, DeleteRow, RemovalDies
  <2>2. history \in HistoryType
    BY <1>0 DEF MediaTypeOK
  <2>3. CASE RemovalRead(a)
    BY <2>1, <2>2, <2>3, RemovalStep DEF RemovalRead
  <2>4. CASE DeleteBytes(a)
    <3> DEFINE emptied == [history EXCEPT !.emptied = @ \cup {a}]
               faulty == [history EXCEPT !.faulty = @ \cup {a}]
    <3>1. /\ emptied \in HistoryType /\ faulty \in HistoryType
          /\ emptied.doubled = history.doubled /\ faulty.doubled = history.doubled
          /\ emptied.faulty = history.faulty /\ faulty.faulty = history.faulty \cup {a}
          /\ faulty.emptied = history.emptied /\ emptied.emptied = history.emptied \cup {a}
      BY <2>2 DEF HistoryType
    <3>2. \/ bytes' = bytes \ {a} /\ history' = emptied
          \/ bytes' = bytes /\ history' = faulty
      BY <2>4 DEF DeleteBytes
    <3>3. removal' = [removal EXCEPT ![a] = "row"] /\ UNCHANGED <<asset, creation, results>>
      BY <2>4 DEF DeleteBytes
    <3> HIDE DEF emptied, faulty
    <3> QED
      BY <2>1, <3>1, <3>2, <3>3, RemovalStep
  <2>5. CASE DeleteRow(a)
    <3>1. a \in bytes => a \in history.faulty
      BY <1>0, <2>5 DEF Progress, DeleteRow
    <3> QED
      BY <2>1, <2>2, <2>5, <3>1, RemovalStep DEF DeleteRow
  <2>6. CASE RemovalDies(a)
    <3> DEFINE emptied == [history EXCEPT !.emptied = @ \cup {a}]
    <3>1. /\ emptied \in HistoryType
          /\ emptied.doubled = history.doubled /\ emptied.faulty = history.faulty
          /\ emptied.emptied = history.emptied \cup {a}
      BY <2>2 DEF HistoryType
    <3>2. \/ bytes' = bytes /\ history' = history
          \/ bytes' = bytes \ {a} /\ history' = emptied
      BY <2>6 DEF RemovalDies
    <3>3. removal' = [removal EXCEPT ![a] = "none"] /\ UNCHANGED <<asset, creation, results>>
      BY <2>6 DEF RemovalDies
    <3> HIDE DEF emptied
    <3> QED
      BY <2>1, <2>2, <3>1, <3>2, <3>3, RemovalStep
  <2> QED
    BY <1>5, <2>3, <2>4, <2>5, <2>6
<1>6. CASE UNCHANGED mediaVars
  BY <1>6 DEF mediaVars, MediaInv, MediaTypeOK, Progress, StorageAgrees, ImportsMarked,
     OnePhotoOneRow, Creating
<1> QED
  BY <1>1, <1>2, <1>3, <1>4, <1>5, <1>6 DEF MediaNext

\* Rows, stored objects, cached results and the calls under way keep their types.
THEOREM MediaTypes == MediaSpec => []MediaTypeOK
<1>1. MediaInv => MediaTypeOK
  BY DEF MediaInv
<1> QED
  BY <1>1, MediaStarts, MediaStep, PTL DEF MediaSpec

\* A row has its bytes and bytes have a row, but for requests that broke off.
THEOREM MediaStorageAgrees == MediaSpec => []StorageAgrees
<1>1. MediaInv => StorageAgrees
  BY DEF MediaInv
<1> QED
  BY <1>1, MediaStarts, MediaStep, PTL DEF MediaSpec

\* A photo is imported twice only by requests that overlapped.
THEOREM MediaOnePhotoOneRow == MediaSpec => []OnePhotoOneRow
<1>1. MediaInv => OnePhotoOneRow
  BY DEF MediaInv
<1> QED
  BY <1>1, MediaStarts, MediaStep, PTL DEF MediaSpec

-----------------------------------------------------------------------------
(* Media: the quota.                                                         *)

\* What asset a takes, or is about to take, of o's quota: the size of its row, or
\* the size that passed the quota's reading.
Taken(a, o) ==
  IF asset[a].row THEN IF asset[a].owner = o THEN asset[a].size ELSE 0
  ELSE IF creation[a].at \in {"put", "insert"}
       THEN IF creation[a].owner = o THEN creation[a].size ELSE 0
  ELSE 0

TakenOf(o) == [a \in Assets |-> Taken(a, o)]
UnderWay == {a \in Assets : Creating(a)}

\* The quota counts what is about to be stored, and so few requests are under way.
QuotaInv ==
  /\ Cardinality(UnderWay) <= Calls
  /\ \A o \in Owners : Sum(TakenOf(o), Assets) <= Quota + (Calls - 1) * MaxSize

LEMMA TakenTypes ==
  ASSUME MediaTypeOK, NEW o \in Owners
  PROVE  /\ \A a \in Assets : Taken(a, o) \in 0..MaxSize
         /\ Ints(TakenOf(o), Assets)
         /\ Sum(TakenOf(o), Assets) \in Int
<1>1. ASSUME NEW a \in Assets PROVE Taken(a, o) \in 0..MaxSize
  <2>1. asset[a].row => asset[a].size \in 1..MaxSize
    BY AssetCases DEF Stored
  <2>2. creation[a].at \in {"put", "insert"} => creation[a].size \in 1..MaxSize
    BY CreationCases DEF Created
  <2> QED
    BY <2>1, <2>2, MediaAssumption DEF Taken
<1>2. Ints(TakenOf(o), Assets)
  BY <1>1, MediaAssumption DEF Ints, TakenOf
<1> QED
  BY <1>1, <1>2, SumIsPartial, MediaAssumption

\* The same, in the state after a step.
TakenTyped == \A o \in Owners : Ints(TakenOf(o), Assets)

LEMMA TakenTypesNext == MediaTypeOK' => TakenTyped'
<1>1. MediaTypeOK => TakenTyped
  BY TakenTypes DEF TakenTyped
<1> QED
  BY <1>1, PTL

\* The bound of the overrun is a number.
LEMMA BoundType == Quota + (Calls - 1) * MaxSize \in Int
BY MediaAssumption

\* A step after which no asset takes more, and few requests are under way.
LEMMA TakesNoMore ==
  ASSUME MediaTypeOK, MediaTypeOK', QuotaInv, Cardinality(UnderWay)' <= Calls,
         \A b \in Assets, o \in Owners : Taken(b, o)' <= Taken(b, o)
  PROVE  QuotaInv'
<1>4. ASSUME NEW o \in Owners
      PROVE  Sum(TakenOf(o)', Assets) <= Quota + (Calls - 1) * MaxSize
  <2>1. /\ Ints(TakenOf(o), Assets) /\ Sum(TakenOf(o), Assets) \in Int
        /\ Ints(TakenOf(o)', Assets)
    BY TakenTypes, TakenTypesNext DEF TakenTyped, Ints
  <2>4. Sum(TakenOf(o)', Assets) \in Int
    BY <2>1, SumIsPartial, MediaAssumption
  <2>2. \A b \in Assets : TakenOf(o)'[b] <= TakenOf(o)[b]
    BY DEF TakenOf
  <2>3. Sum(TakenOf(o)', Assets) <= Sum(TakenOf(o), Assets)
    BY <2>1, <2>2, SumAtMost, MediaAssumption
  <2> QED
    BY <2>1, <2>3, <2>4, BoundType DEF QuotaInv
<1> QED
  BY <1>4 DEF QuotaInv, Sum

\* Whoever is under way after a step was before it.
LEMMA NoneBegun ==
  ASSUME QuotaInv, \A b \in Assets : Creating(b)' => Creating(b)
  PROVE  Cardinality(UnderWay)' <= Calls
<1>1. UnderWay' \subseteq UnderWay /\ IsFiniteSet(UnderWay)
  BY MediaAssumption, FS_Subset DEF UnderWay
<1>2. Cardinality(UnderWay') <= Cardinality(UnderWay)
      /\ Cardinality(UnderWay') \in Nat /\ Cardinality(UnderWay) \in Nat
  BY <1>1, FS_Subset, FS_CardinalityType
<1> QED
  BY <1>2, MediaAssumption DEF QuotaInv

\* What the rows of an owner take.
LEMMA UsedSums ==
  ASSUME MediaTypeOK, NEW o \in Owners, NEW f, Ints(f, Assets), NEW T \in SUBSET Assets,
         \A a \in OwnedBy(o) : a \in T /\ f[a] = asset[a].size,
         \A a \in T \ OwnedBy(o) : f[a] = 0
  PROVE  Used(o) = Sum(f, T)
<1> DEFINE g == [a \in OwnedBy(o) |-> asset[a].size]
<1>1. IsFiniteSet(T) /\ IsFiniteSet(OwnedBy(o)) /\ OwnedBy(o) \in SUBSET T /\ Ints(f, T)
  BY MediaAssumption, FS_Subset DEF OwnedBy, Ints
<1>2. Used(o) = Sum(g, OwnedBy(o))
  BY DEF Used, Sum, SumFunction
<1>3. Ints(f, OwnedBy(o)) /\ \A a \in OwnedBy(o) : f[a] = g[a]
  BY <1>1 DEF Ints
<1> HIDE DEF g
<1>4. Sum(f, OwnedBy(o)) = Sum(g, OwnedBy(o))
  BY <1>1, <1>3, SumSame
<1>5. Sum(f, T) = Sum(f, OwnedBy(o))
  BY <1>1, SumZeros
<1> QED
  BY <1>2, <1>4, <1>5

LEMMA UsedTaken ==
  ASSUME MediaTypeOK, NEW o \in Owners
  PROVE  Used(o) <= Sum(TakenOf(o), Assets) /\ Used(o) \in Int
<1> DEFINE f == [a \in Assets |-> IF a \in OwnedBy(o) THEN asset[a].size ELSE 0]
<1>1. \A a \in Assets : f[a] \in Int /\ f[a] <= TakenOf(o)[a]
  <2>1. ASSUME NEW a \in Assets PROVE f[a] \in Int /\ f[a] <= TakenOf(o)[a]
    <3>1. Taken(a, o) \in 0..MaxSize
      BY TakenTypes
    <3>2. CASE a \in OwnedBy(o)
      <4>1. Taken(a, o) = asset[a].size
        BY <3>2 DEF OwnedBy, Taken
      <4> QED
        BY <3>1, <3>2, <4>1, MediaAssumption DEF TakenOf
    <3>3. CASE a \notin OwnedBy(o)
      BY <3>1, <3>3, MediaAssumption DEF TakenOf
    <3> QED
      BY <3>2, <3>3
  <2> QED
    BY <2>1
<1>2. Ints(f, Assets) /\ IsFiniteSet(Assets) /\ Assets \in SUBSET Assets
  BY <1>1, MediaAssumption DEF Ints
<1>3. (\A a \in OwnedBy(o) : a \in Assets /\ f[a] = asset[a].size)
      /\ \A a \in Assets \ OwnedBy(o) : f[a] = 0
  BY DEF OwnedBy
<1> HIDE DEF f
<1>4. Used(o) = Sum(f, Assets)
  BY <1>2, <1>3, UsedSums
<1>5. Sum(f, Assets) <= Sum(TakenOf(o), Assets)
  BY <1>1, <1>2, TakenTypes, SumAtMost
<1>6. Sum(f, Assets) \in Int
  BY <1>2, SumIsPartial
<1> QED
  BY <1>4, <1>5, <1>6

\* Requests under way beside a, at most Calls - 1, take at most MaxSize each.
LEMMA OthersTake ==
  ASSUME QuotaInv, NEW a \in UnderWay, NEW f, NEW T \in SUBSET Assets,
         \A b \in T : f[b] \in 0..MaxSize,
         \A b \in T : f[b] # 0 => b \in UnderWay \ {a}
  PROVE  Sum(f, T) <= (Calls - 1) * MaxSize
<1> DEFINE others == T \cap (UnderWay \ {a})
<1>1. IsFiniteSet(UnderWay) /\ IsFiniteSet(T) /\ others \in SUBSET T /\ others \subseteq UnderWay \ {a}
  BY MediaAssumption, FS_Subset DEF UnderWay
<1>2. IsFiniteSet(UnderWay \ {a}) /\ Cardinality(UnderWay \ {a}) = Cardinality(UnderWay) - 1
      /\ Cardinality(UnderWay) \in Nat
  BY <1>1, FS_RemoveElement, FS_CardinalityType
<1>3. /\ IsFiniteSet(others) /\ Cardinality(others) \in Nat
      /\ Cardinality(others) <= Cardinality(UnderWay \ {a})
  BY <1>1, <1>2, FS_Subset, FS_CardinalityType
<1>4. Ints(f, T) /\ Ints(f, others) /\ \A b \in others : f[b] <= MaxSize
  BY MediaAssumption DEF Ints
<1>5. \A b \in T \ others : f[b] = 0
  OBVIOUS
<1>6. Sum(f, T) = Sum(f, others)
  BY <1>1, <1>4, <1>5, SumZeros
<1>7. Sum(f, others) <= Cardinality(others) * MaxSize /\ Sum(f, others) \in Int
  BY <1>3, <1>4, SumBound, SumIsPartial, MediaAssumption
<1>8. Cardinality(others) <= Calls - 1
  BY <1>2, <1>3, MediaAssumption DEF QuotaInv
<1>9. \A n, i, m \in Int : n <= i /\ 0 <= m => n * m <= i * m
  OBVIOUS
<1>10. Cardinality(others) * MaxSize <= (Calls - 1) * MaxSize
  BY <1>3, <1>8, <1>9, MediaAssumption
<1>11. Cardinality(others) * MaxSize \in Int /\ (Calls - 1) * MaxSize \in Int
  BY <1>3, MediaAssumption
<1> QED
  BY <1>6, <1>7, <1>10, <1>11

\* The reading of the quota: what the others under way take comes on top of the
\* rows that were counted and the size that was let in.
LEMMA QuotaReadStep ==
  ASSUME MediaInv, QuotaInv, MediaTypeOK', NEW a \in Assets, QuotaRead(a)
  PROVE  QuotaInv'
<1>0. MediaTypeOK /\ Progress(a) /\ IsFiniteSet(Assets)
  BY MediaAssumption DEF MediaInv
<1>1. /\ creation[a].at = "quota" /\ creation' = [creation EXCEPT ![a] = [creation[a] EXCEPT !.at = "put"]]
      /\ Used(creation[a].owner) + creation[a].size <= Quota
      /\ UNCHANGED asset
  BY DEF QuotaRead, Goes
<1>2. creation[a] \in Created /\ a \in UnderWay
  BY <1>0, <1>1, CreationCases DEF UnderWay
<1>3. /\ creation'[a].at = "put" /\ creation'[a].owner = creation[a].owner
      /\ creation'[a].size = creation[a].size
      /\ \A b \in Assets \ {a} : creation'[b] = creation[b]
  BY <1>0, <1>1, <1>2 DEF MediaTypeOK, Created
<1>4. ~asset[a].row
  BY <1>0, <1>2 DEF Progress, UnderWay, Creating
<1>5. \A b \in Assets \ {a}, o \in Owners : Taken(b, o)' = Taken(b, o)
  BY <1>1, <1>3 DEF Taken
<1>6. UnderWay' = UnderWay
  BY <1>2, <1>3 DEF UnderWay, Creating, Fresh, Over
<1>7. ASSUME NEW o \in Owners
      PROVE  Sum(TakenOf(o)', Assets) <= Quota + (Calls - 1) * MaxSize
  <2>1. CASE o # creation[a].owner
    <3>1. Taken(a, o)' = Taken(a, o)
      BY <1>1, <1>3, <1>4, <2>1 DEF Taken
    <3>2. TakenOf(o)' = TakenOf(o)
      BY <1>5, <3>1 DEF TakenOf
    <3> QED
      BY <3>2 DEF QuotaInv
  <2>2. CASE o = creation[a].owner
    <3> DEFINE rest == Assets \ {a}
               used == [b \in Assets |-> IF b \in OwnedBy(o) THEN asset[b].size ELSE 0]
               pending == [b \in Assets |-> IF b \in OwnedBy(o) THEN 0 ELSE Taken(b, o)]
               after == TakenOf(o)'
    <3>1. Ints(after, Assets) /\ after[a] = creation[a].size /\ creation[a].size \in Int
      <4>1. Ints(after, Assets)
        BY TakenTypesNext DEF TakenTyped, Ints
      <4> QED
        BY <1>1, <1>2, <1>3, <1>4, <2>2, <4>1, MediaAssumption DEF TakenOf, Taken, Created
    <3>2. ASSUME NEW b \in rest
          PROVE  /\ after[b] = used[b] + pending[b]
                 /\ used[b] \in Int /\ pending[b] \in 0..MaxSize
                 /\ pending[b] # 0 => b \in UnderWay \ {a}
      <4>1. after[b] = Taken(b, o) /\ Taken(b, o) \in 0..MaxSize
        BY <1>0, <1>5, TakenTypes DEF TakenOf
      <4>2. CASE b \in OwnedBy(o)
        <5>1. Taken(b, o) = asset[b].size
          BY <4>2 DEF OwnedBy, Taken
        <5> QED
          BY <4>1, <4>2, <5>1, MediaAssumption
      <4>3. CASE b \notin OwnedBy(o)
        <5>1. Taken(b, o) # 0 => creation[b].at \in {"put", "insert"}
          BY <4>3 DEF OwnedBy, Taken
        <5>2. Taken(b, o) # 0 => b \in UnderWay \ {a}
          BY <1>0, <5>1, CreationCases DEF UnderWay
        <5> QED
          BY <4>1, <4>3, <5>2, MediaAssumption
      <4> QED
        BY <4>2, <4>3
    <3>3. (\A b \in OwnedBy(o) : b \in rest /\ used[b] = asset[b].size)
          /\ \A b \in rest \ OwnedBy(o) : used[b] = 0
      BY <1>4 DEF OwnedBy
    <3>4. used[a] \in Int
      BY <1>4 DEF OwnedBy
    <3>5. IsFiniteSet(rest) /\ rest \in SUBSET Assets
      BY <1>0, FS_Subset
    <3> HIDE DEF used, pending, after
    <3>6. Sum(after, Assets) = after[a] + Sum(after, rest)
      BY <1>0, <3>1, SumSplit
    <3>7. Ints(used, rest) /\ Ints(pending, rest) /\ Ints(used, Assets)
      BY <3>2, <3>4, MediaAssumption DEF Ints
    <3>8. Sum(after, rest) = Sum(used, rest) + Sum(pending, rest)
      BY <3>2, <3>5, <3>7, SumPlus
    <3>9. Used(o) = Sum(used, rest)
      BY <1>0, <3>3, <3>5, <3>7, UsedSums
    <3>10. Sum(pending, rest) <= (Calls - 1) * MaxSize
      BY <1>2, <3>2, <3>5, OthersTake
    <3>11. Sum(used, rest) \in Int /\ Sum(pending, rest) \in Int /\ (Calls - 1) * MaxSize \in Int
      BY <3>5, <3>7, SumIsPartial, MediaAssumption
    <3>12. Sum(used, rest) + creation[a].size <= Quota
      BY <1>1, <2>2, <3>9
    <3>13. Sum(after, Assets) <= Quota + (Calls - 1) * MaxSize
      BY <3>1, <3>6, <3>8, <3>10, <3>11, <3>12, MediaAssumption
    <3> QED
      BY <3>13 DEF after
  <2> QED
    BY <2>1, <2>2
<1> QED
  BY <1>6, <1>7 DEF QuotaInv, Sum

\* A step of one request, that begins none and lets its asset take no more.
LEMMA OneTakesNoMore ==
  ASSUME MediaTypeOK, MediaTypeOK', QuotaInv, NEW a \in Assets,
         \A b \in Assets \ {a} : asset'[b] = asset[b] /\ creation'[b] = creation[b],
         Creating(a)' => Creating(a),
         \A o \in Owners : Taken(a, o)' <= Taken(a, o)
  PROVE  QuotaInv'
<1>1. \A b \in Assets : Creating(b)' => Creating(b)
  BY DEF Creating
<1>2. \A b \in Assets, o \in Owners : Taken(b, o) \in Int
  BY TakenTypes, MediaAssumption
<1>3. \A b \in Assets \ {a}, o \in Owners : Taken(b, o)' = Taken(b, o)
  BY DEF Taken
<1>4. \A b \in Assets, o \in Owners : Taken(b, o)' <= Taken(b, o)
  BY <1>2, <1>3
<1> QED
  BY <1>1, <1>4, NoneBegun, TakesNoMore

LEMMA QuotaBeginStep ==
  ASSUME MediaInv, QuotaInv, MediaTypeOK', NEW a \in Assets, NEW o \in Owners, NEW photo,
         NEW at \in {"download", "quota"}, Begin(a, o, photo, at)
  PROVE  QuotaInv'
<1>0. MediaTypeOK /\ Progress(a)
  BY DEF MediaInv
<1>1. PICK size \in 1..MaxSize :
        creation' = [creation EXCEPT ![a] = [at |-> at, owner |-> o, photo |-> photo, size |-> size]]
  BY DEF Begin
<1>2. creation[a] = Fresh /\ UNCHANGED asset /\ Cardinality(UnderWay) < Calls
  BY DEF Begin, UnderWay
<1>3. creation'[a].at = at /\ \A b \in Assets \ {a} : creation'[b] = creation[b]
  BY <1>0, <1>1 DEF MediaTypeOK
<1>4. Cardinality(UnderWay)' <= Calls
  <2>1. UnderWay' \subseteq UnderWay \cup {a} /\ IsFiniteSet(UnderWay)
    BY <1>3, MediaAssumption, FS_Subset DEF UnderWay, Creating
  <2>2. /\ IsFiniteSet(UnderWay \cup {a})
        /\ Cardinality(UnderWay \cup {a}) <= Cardinality(UnderWay) + 1
        /\ Cardinality(UnderWay) \in Nat
    <3>1. IsFiniteSet(UnderWay) /\ Cardinality(UnderWay) \in Nat
      BY <2>1, FS_CardinalityType
    <3>2. /\ IsFiniteSet(UnderWay \cup {a})
          /\ \/ Cardinality(UnderWay \cup {a}) = Cardinality(UnderWay)
             \/ Cardinality(UnderWay \cup {a}) = Cardinality(UnderWay) + 1
      BY <3>1, FS_AddElement
    <3> QED
      BY <3>1, <3>2
  <2>3. /\ Cardinality(UnderWay') <= Cardinality(UnderWay \cup {a})
        /\ Cardinality(UnderWay') \in Nat /\ Cardinality(UnderWay \cup {a}) \in Nat
    BY <2>1, <2>2, FS_Subset, FS_CardinalityType
  <2> QED
    BY <1>2, <2>2, <2>3, MediaAssumption
<1>5. ~asset[a].row /\ creation[a].at = "fresh"
  BY <1>0, <1>2, CreationCases DEF Progress
<1>6. \A b \in Assets, x \in Owners : Taken(b, x)' = Taken(b, x)
  BY <1>2, <1>3, <1>5 DEF Taken
<1>7. \A b \in Assets, x \in Owners : Taken(b, x) \in Int
  BY <1>0, TakenTypes, MediaAssumption
<1> QED
  BY <1>0, <1>4, <1>6, <1>7, TakesNoMore

LEMMA QuotaInsertStep ==
  ASSUME MediaInv, QuotaInv, MediaTypeOK', NEW a \in Assets, Insert(a)
  PROVE  QuotaInv'
<1>0. MediaTypeOK /\ Progress(a)
  BY DEF MediaInv
<1> DEFINE c == creation[a]
<1>1. c.at = "insert" /\ creation' = [creation EXCEPT ![a] = Over]
  BY DEF Insert
<1>2. c \in Created /\ ~asset[a].row
  BY <1>0, <1>1, CreationCases DEF Progress, Creating
<1>3. PICK size \in IF c.photo = Device THEN 1..c.size ELSE {c.size} :
        asset' = [asset EXCEPT ![a] =
          [row |-> TRUE, owner |-> c.owner, photo |-> c.photo, size |-> size]]
  BY DEF Insert
<1>4. c.size \in Int /\ size \in Int /\ size <= c.size
  BY <1>2, MediaAssumption DEF Created
<1>5. /\ asset'[a].row /\ asset'[a].owner = c.owner /\ asset'[a].size = size
      /\ creation'[a] = Over
      /\ \A b \in Assets \ {a} : asset'[b] = asset[b] /\ creation'[b] = creation[b]
  BY <1>0, <1>1, <1>3 DEF MediaTypeOK
<1>6. \A o \in Owners : Taken(a, o)' <= Taken(a, o)
  BY <1>1, <1>2, <1>4, <1>5 DEF Taken
<1> QED
  BY <1>0, <1>5, <1>6, OneTakesNoMore DEF Creating

LEMMA QuotaStep == MediaInv /\ MediaInv' /\ QuotaInv /\ [MediaNext]_mediaVars => QuotaInv'
<1> SUFFICES ASSUME MediaInv, MediaInv', QuotaInv, [MediaNext]_mediaVars PROVE QuotaInv'
  OBVIOUS
<1>0. MediaTypeOK /\ MediaTypeOK' /\ \A a \in Assets : Progress(a)
  BY DEF MediaInv
<1>1. CASE UNCHANGED <<asset, creation>>
  BY <1>1 DEF QuotaInv, UnderWay, Creating, TakenOf, Taken
<1>2. ASSUME NEW a \in Assets, NEW o \in Owners, Upload(a, o) \/ Attach(a, o) PROVE QuotaInv'
  BY <1>0, <1>2, QuotaBeginStep DEF Upload, Attach
<1>3. ASSUME NEW a \in Assets, Download(a) \/ Put(a) PROVE QuotaInv'
  <2>1. PICK to \in {"quota", "insert"} :
          /\ creation[a].at = IF to = "quota" THEN "download" ELSE "put"
          /\ creation' = [creation EXCEPT ![a] = [creation[a] EXCEPT !.at = to]]
          /\ UNCHANGED asset
    BY <1>3 DEF Download, Put, Goes
  <2>2. creation[a] \in Created /\ Creating(a)
    BY <1>0, <2>1, CreationCases
  <2>3. /\ creation'[a].at = to /\ creation'[a].owner = creation[a].owner
        /\ creation'[a].size = creation[a].size
        /\ \A b \in Assets \ {a} : creation'[b] = creation[b]
    BY <1>0, <2>1, <2>2 DEF MediaTypeOK, Created
  <2>4. ~asset[a].row
    BY <1>0, <2>2 DEF Progress, Creating
  <2>5. \A o \in Owners : Taken(a, o)' = Taken(a, o)
    BY <2>1, <2>3, <2>4 DEF Taken
  <2>6. \A o \in Owners : Taken(a, o) \in Int
    BY <1>0, TakenTypes, MediaAssumption
  <2> QED
    BY <1>0, <2>1, <2>2, <2>3, <2>5, <2>6, OneTakesNoMore
<1>4. ASSUME NEW a \in Assets, QuotaRead(a) PROVE QuotaInv'
  BY <1>0, <1>4, QuotaReadStep
<1>5. ASSUME NEW a \in Assets, Insert(a) PROVE QuotaInv'
  BY <1>0, <1>5, QuotaInsertStep
<1>6. ASSUME NEW a \in Assets, Die(a) \/ DeleteRow(a) PROVE QuotaInv'
  <2>1. /\ creation'[a].at = "over" /\ ~Creating(a)'
        /\ \A b \in Assets \ {a} : asset'[b] = asset[b] /\ creation'[b] = creation[b]
        /\ ~asset'[a].row
    <3>1. CASE Die(a)
      <4>1. ~asset[a].row /\ Over.at = "over"
        BY <1>0, <3>1, CreationCases DEF Die, Progress, Creating
      <4> QED
        BY <1>0, <3>1, <4>1 DEF Die, Creating, MediaTypeOK
    <3>2. CASE DeleteRow(a)
      <4>1. creation[a] = Over /\ Over.at = "over" /\ ~NoRow.row
        BY <1>0, <3>2, CreationCases DEF DeleteRow, Progress, NoRow
      <4>2. asset' = [asset EXCEPT ![a] = NoRow] /\ UNCHANGED creation
        BY <3>2 DEF DeleteRow
      <4>3. asset'[a] = NoRow /\ \A b \in Assets \ {a} : asset'[b] = asset[b]
        BY <1>0, <4>2 DEF MediaTypeOK
      <4>4. ~asset'[a].row
        BY <4>1, <4>3, Zenon
      <4> QED
        BY <4>1, <4>2, <4>3, <4>4 DEF Creating
    <3> QED
      BY <1>6, <3>1, <3>2
  <2>2. \A o \in Owners : Taken(a, o)' = 0 /\ 0 <= Taken(a, o)
    <3>1. \A o \in Owners : Taken(a, o) \in 0..MaxSize
      BY <1>0, TakenTypes
    <3> QED
      BY <2>1, <3>1, MediaAssumption DEF Taken
  <2> QED
    BY <1>0, <2>1, <2>2, OneTakesNoMore
<1>7. CASE \/ Search \/ UNCHANGED mediaVars
           \/ \E a \in Assets : RemovalRead(a) \/ DeleteBytes(a) \/ RemovalDies(a)
  BY <1>1, <1>7 DEF Search, mediaVars, RemovalRead, DeleteBytes, RemovalDies
<1> QED
  BY <1>2, <1>3, <1>4, <1>5, <1>6, <1>7 DEF MediaNext

LEMMA QuotaStarts == MediaInit => QuotaInv
<1> SUFFICES ASSUME MediaInit PROVE QuotaInv
  OBVIOUS
<1>1. Fresh.at = "fresh" /\ ~NoRow.row
  BY DEF Fresh, NoRow
<1>2. \A a \in Assets : creation[a] = Fresh /\ ~asset[a].row
  <2>1. \A a \in Assets : creation[a] = Fresh /\ asset[a] = NoRow
    BY DEF MediaInit
  <2> QED
    BY <1>1, <2>1, Zenon
<1>3. Cardinality(UnderWay) = 0
  <2>1. UnderWay = {}
    BY <1>2 DEF UnderWay, Creating
  <2> QED
    BY <2>1, FS_EmptySet
<1>4. ASSUME NEW o \in Owners PROVE Sum(TakenOf(o), Assets) = 0
  <2>1. \A a \in Assets : TakenOf(o)[a] = 0
    BY <1>1, <1>2 DEF TakenOf, Taken
  <2>2. Ints(TakenOf(o), Assets) /\ IsFiniteSet(Assets) /\ {} \in SUBSET Assets
    BY <2>1, MediaAssumption DEF Ints
  <2>3. Sum(TakenOf(o), Assets) = Sum(TakenOf(o), {})
    BY <2>1, <2>2, SumZeros
  <2> QED
    BY <2>3, SumEmpty
<1>5. 0 <= (Calls - 1) * MaxSize /\ (Calls - 1) * MaxSize \in Int
  BY MediaAssumption
<1> QED
  BY <1>3, <1>4, <1>5, MediaAssumption DEF QuotaInv

\* However the requests of an account interleave, its rows exceed the quota by
\* less than the other requests under way could bring: assertQuota reads without
\* a lock, and a size that was let in stays counted until its row is there.
THEOREM MediaQuota == MediaSpec => []QuotaOverrunBounded
<1>1. MediaInv /\ QuotaInv => QuotaOverrunBounded
  <2> SUFFICES ASSUME MediaTypeOK, QuotaInv, NEW o \in Owners
               PROVE  Used(o) <= Quota + (Calls - 1) * MaxSize
    BY DEF MediaInv, QuotaOverrunBounded
  <2>1. Used(o) <= Sum(TakenOf(o), Assets) /\ Used(o) \in Int
    BY UsedTaken
  <2>2. Sum(TakenOf(o), Assets) \in Int
    BY TakenTypes
  <2> QED
    BY <2>1, <2>2, BoundType DEF QuotaInv
<1> QED
  BY <1>1, MediaStarts, MediaStep, QuotaStarts, QuotaStep, PTL DEF MediaSpec

-----------------------------------------------------------------------------
(* Shelf.                                                                    *)

TourRow ==
  [row : {TRUE}, owner : People, archived : BOOLEAN, deleted : BOOLEAN,
   folder : Folders \cup {Unfiled}]
FilingType ==
  [does : {"create", "update", "move"}, by : People, tour : Tours, at : {"trip", "write"},
   folder : Folders \cup {Unfiled}, overtaken : BOOLEAN]
CopyType ==
  [does : {"duplicate"}, by : People, tour : Tours, folder : Folders \cup {Unfiled}]
LookType ==
  [does : {"look"}, by : People, tour : Tours, overtaken : BOOLEAN,
   at : {"dashboard", "archive", "shared", "missing"}]

\* What a request still knows when it writes or looks: its folder is the
\* caller's or gone, the trip the owner files is still the owner's, and a trip
\* looked up is where the views that are left will find it.
KnowsFolder(r) ==
  r.does \in {"create", "update", "move"} /\ r.folder \in Folders =>
    cabinet[r.folder] \in {r.by, Dropped}
KnowsOwner(r) ==
  r.does = "move" /\ r.at = "write" /\ ~r.overtaken =>
    tour[r.tour].row /\ tour[r.tour].owner = r.by
KnowsPlace(r) ==
  r.does = "look" /\ ~r.overtaken =>
    /\ tour[r.tour].row /\ ~tour[r.tour].deleted
    /\ r.at = "dashboard" \/ (r.at = "archive" /\ tour[r.tour].archived)

ShelfInv ==
  /\ ShelfTypeOK
  /\ FiledWithOwner
  /\ \A c \in Clients : KnowsFolder(client[c]) /\ KnowsOwner(client[c]) /\ KnowsPlace(client[c])

LEMMA TourCases ==
  ASSUME ShelfTypeOK, NEW t \in Tours
  PROVE  /\ tour[t].row <=> tour[t] # NoTour
         /\ tour[t].row => tour[t] \in TourRow
<1>1. tour[t] \in {NoTour} \cup TourRow
  BY DEF ShelfTypeOK, TourType, TourRow
<1>2. ~NoTour.row
  BY DEF NoTour
<1>3. tour[t] \in TourRow => tour[t].row
  BY DEF TourRow
<1>4. tour[t] = NoTour => ~tour[t].row
  BY <1>2, Zenon
<1> QED
  BY <1>1, <1>3, <1>4

LEMMA ClientCases ==
  ASSUME ShelfTypeOK, NEW c \in Clients
  PROVE  /\ client[c].does \in {"nothing", "create", "update", "move", "duplicate", "look"}
         /\ client[c].does \in {"create", "update", "move"} => client[c] \in FilingType
         /\ client[c].does = "duplicate" => client[c] \in CopyType
         /\ client[c].does = "look" => client[c] \in LookType
         /\ client[c].does = "nothing" <=> client[c] = Ready
<1>1. client[c] \in {Ready} \cup FilingType \cup CopyType \cup LookType
  BY DEF ShelfTypeOK, ClientType, FilingType, CopyType, LookType
<1>2. Ready.does = "nothing"
  BY DEF Ready
<1>3. /\ client[c] \in FilingType => client[c].does \in {"create", "update", "move"}
      /\ client[c] \in CopyType => client[c].does = "duplicate"
      /\ client[c] \in LookType => client[c].does = "look"
  BY DEF FilingType, CopyType, LookType
<1> QED
  BY <1>1, <1>2, <1>3

LEMMA ClientTypes ==
  /\ Ready \in ClientType /\ FilingType \subseteq ClientType
  /\ CopyType \subseteq ClientType /\ LookType \subseteq ClientType
BY DEF ClientType, FilingType, CopyType, LookType

LEMMA ShelfStarts == ShelfInit => ShelfInv
<1> SUFFICES ASSUME ShelfInit PROVE ShelfInv
  OBVIOUS
<1>1. PICK p \in People :
        tour = [t \in Tours |->
          IF t = FirstTour THEN [row |-> TRUE, owner |-> p, archived |-> FALSE,
                                 deleted |-> FALSE, folder |-> Unfiled]
          ELSE NoTour]
  BY DEF ShelfInit
<1>2. ShelfTypeOK
  BY <1>1 DEF ShelfInit, ShelfTypeOK, TourType, ClientType, Ways
<1>3. \A t \in Tours : tour[t].row => tour[t].folder = Unfiled
  <2>1. ~NoTour.row
    BY DEF NoTour
  <2> QED
    BY <1>1, <2>1, <1>2, TourCases
<1>4. \A c \in Clients : client[c].does = "nothing"
  BY DEF ShelfInit, Ready
<1> QED
  BY <1>2, <1>3, <1>4 DEF ShelfInv, FiledWithOwner, KnowsFolder, KnowsOwner, KnowsPlace

\* A step of one request that leaves the tables alone.
LEMMA ClientStep ==
  ASSUME ShelfInv, UNCHANGED <<tour, cabinet, astray>>, NEW c \in Clients, NEW r \in ClientType,
         client' = [client EXCEPT ![c] = r],
         KnowsFolder(r), KnowsOwner(r), KnowsPlace(r)
  PROVE  ShelfInv'
<1>1. ShelfTypeOK'
  BY DEF ShelfInv, ShelfTypeOK
<1>2. client'[c] = r /\ \A d \in Clients \ {c} : client'[d] = client[d]
  BY DEF ShelfInv, ShelfTypeOK
<1> QED
  BY <1>1, <1>2 DEF ShelfInv, FiledWithOwner, KnowsFolder, KnowsOwner, KnowsPlace

LEMMA ReadyKnows == KnowsFolder(Ready) /\ KnowsOwner(Ready) /\ KnowsPlace(Ready)
BY DEF KnowsFolder, KnowsOwner, KnowsPlace, Ready

LEMMA FileStep ==
  ASSUME ShelfInv, NEW c \in Clients, Create(c) \/ Update(c) \/ Move(c)
  PROVE  ShelfInv'
<1>1. PICK kind \in {"create", "update", "move"}, p \in People, t \in Tours,
           f \in Folders \cup {Unfiled} : File(c, kind, p, t, f)
  BY DEF Create, Update, Move
<1> DEFINE r == [does |-> kind, by |-> p, tour |-> t, folder |-> f, overtaken |-> FALSE,
                 at |-> IF kind = "move" THEN "trip" ELSE "write"]
<1>2. r \in FilingType /\ r.does = kind /\ r.folder = f /\ r.by = p
      /\ (r.does = "move" => r.at = "trip")
  BY DEF FilingType
<1>3. BelongsTo(f, p) /\ client' = [client EXCEPT ![c] = r] /\ UNCHANGED <<tour, cabinet, astray>>
  BY <1>1 DEF File, Starts
<1>4. KnowsFolder(r) /\ KnowsOwner(r) /\ KnowsPlace(r)
  BY <1>2, <1>3 DEF KnowsFolder, KnowsOwner, KnowsPlace, BelongsTo
<1> HIDE DEF r
<1> QED
  BY <1>2, <1>3, <1>4, ClientStep, ClientTypes

LEMMA CheckStep ==
  ASSUME ShelfInv, NEW c \in Clients, CheckTrip(c)
  PROVE  ShelfInv'
<1>0. ShelfTypeOK /\ KnowsFolder(client[c])
  BY DEF ShelfInv
<1> DEFINE r == [client[c] EXCEPT !.at = "write"]
           t == client[c].tour
<1>1. client[c].does = "move" /\ UNCHANGED <<tour, cabinet, astray>>
  BY DEF CheckTrip
<1>2. client[c] \in FilingType
  BY <1>0, <1>1, ClientCases
<1>3. CASE Shown(t) /\ tour[t].owner = client[c].by
  <2>1. client' = [client EXCEPT ![c] = r]
    BY <1>3 DEF CheckTrip
  <2>2. /\ r \in FilingType /\ r.does = "move" /\ r.by = client[c].by
        /\ r.tour = t /\ r.folder = client[c].folder
    BY <1>1, <1>2 DEF FilingType
  <2>3. KnowsFolder(r) /\ KnowsOwner(r) /\ KnowsPlace(r)
    BY <1>0, <1>1, <1>3, <2>2 DEF KnowsFolder, KnowsOwner, KnowsPlace, Shown
  <2> HIDE DEF r
  <2> QED
    BY <1>1, <2>1, <2>2, <2>3, ClientStep, ClientTypes
<1>4. CASE ~(Shown(t) /\ tour[t].owner = client[c].by)
  <2>1. client' = [client EXCEPT ![c] = Ready]
    BY <1>4 DEF CheckTrip, Ends
  <2> QED
    BY <1>1, <2>1, ClientStep, ClientTypes, ReadyKnows
<1> QED
  BY <1>3, <1>4

LEMMA CopyReadStep ==
  ASSUME ShelfInv, NEW c \in Clients, CopyRead(c)
  PROVE  ShelfInv'
<1>1. PICK p \in People, t \in Tours :
        Shown(t) /\ Starts(c, [does |-> "duplicate", by |-> p, tour |-> t, folder |-> tour[t].folder])
  BY DEF CopyRead
<1> DEFINE r == [does |-> "duplicate", by |-> p, tour |-> t, folder |-> tour[t].folder]
<1>2. tour[t] \in TourRow
  BY <1>1, TourCases DEF ShelfInv, Shown
<1>3. r \in CopyType /\ r.does = "duplicate"
  BY <1>2 DEF CopyType, TourRow
<1>4. client' = [client EXCEPT ![c] = r] /\ UNCHANGED <<tour, cabinet, astray>>
  BY <1>1 DEF Starts
<1>5. KnowsFolder(r) /\ KnowsOwner(r) /\ KnowsPlace(r)
  BY <1>3 DEF KnowsFolder, KnowsOwner, KnowsPlace
<1> HIDE DEF r
<1> QED
  BY <1>3, <1>4, <1>5, ClientStep, ClientTypes

LEMMA LookStep ==
  ASSUME ShelfInv, NEW c \in Clients, LookUp(c) \/ Look(c) \/ Answer(c)
  PROVE  ShelfInv'
<1>0. ShelfTypeOK /\ KnowsPlace(client[c])
  BY DEF ShelfInv
<1>1. CASE LookUp(c)
  <2>1. PICK p \in People, t \in Tours :
          Shown(t) /\ Starts(c, [does |-> "look", by |-> p, tour |-> t, at |-> "dashboard",
                                 overtaken |-> FALSE])
    BY <1>1 DEF LookUp
  <2> DEFINE r == [does |-> "look", by |-> p, tour |-> t, at |-> "dashboard", overtaken |-> FALSE]
  <2>2. r \in LookType /\ r.does = "look" /\ r.tour = t /\ r.at = "dashboard"
    BY DEF LookType
  <2>3. client' = [client EXCEPT ![c] = r] /\ UNCHANGED <<tour, cabinet, astray>>
    BY <2>1 DEF Starts
  <2>4. KnowsFolder(r) /\ KnowsOwner(r) /\ KnowsPlace(r)
    BY <2>1, <2>2 DEF KnowsFolder, KnowsOwner, KnowsPlace, Shown
  <2> HIDE DEF r
  <2> QED
    BY <2>2, <2>3, <2>4, ClientStep, ClientTypes
<1>2. CASE Look(c)
  <2> DEFINE q == client[c]
             r == [q EXCEPT !.at = NextView[q.at]]
  <2>1. q.does = "look" /\ q.at # "missing" /\ UNCHANGED <<tour, cabinet, astray>>
    BY <1>2 DEF Look
  <2>2. q \in LookType
    BY <1>0, <2>1, ClientCases
  <2>3. CASE InView(q.at, q.by, q.tour)
    <3>1. client' = [client EXCEPT ![c] = Ready]
      BY <1>2, <2>3 DEF Look, Ends
    <3> QED
      BY <2>1, <3>1, ClientStep, ClientTypes, ReadyKnows
  <2>4. CASE ~InView(q.at, q.by, q.tour)
    <3>1. client' = [client EXCEPT ![c] = r]
      BY <1>2, <2>4 DEF Look
    <3>2. q.at \in {"dashboard", "archive", "shared"}
      BY <2>1, <2>2 DEF LookType
    <3>3. /\ r \in LookType /\ r.does = "look" /\ r.tour = q.tour
          /\ r.overtaken = q.overtaken
          /\ q.at = "dashboard" => r.at = "archive"
      BY <2>2, <3>2 DEF LookType, NextView
    <3>4. KnowsPlace(r)
      BY <1>0, <2>1, <2>4, <3>2, <3>3 DEF KnowsPlace, InView, Shown
    <3>5. KnowsFolder(r) /\ KnowsOwner(r)
      BY <3>3 DEF KnowsFolder, KnowsOwner
    <3> HIDE DEF r
    <3> QED
      BY <2>1, <3>1, <3>3, <3>4, <3>5, ClientStep, ClientTypes
  <2> QED
    BY <2>3, <2>4
<1>3. CASE Answer(c)
  <2>1. client' = [client EXCEPT ![c] = Ready] /\ UNCHANGED <<tour, cabinet, astray>>
    BY <1>3 DEF Answer, Ends
  <2> QED
    BY <2>1, ClientStep, ClientTypes, ReadyKnows
<1> QED
  BY <1>1, <1>2, <1>3

\* The clients that are marked as overtaken know no less.
LEMMA MarkedKnow ==
  ASSUME ShelfInv, NEW S \in SUBSET Clients,
         \A c \in S : client[c] \in FilingType \cup LookType,
         client' = [c \in Clients |->
           IF c \in S THEN [client[c] EXCEPT !.overtaken = TRUE] ELSE client[c]]
  PROVE  /\ client' \in [Clients -> ClientType]
         /\ \A c \in Clients :
              /\ client'[c].does = client[c].does
              /\ client[c].does \in {"create", "update", "move"} =>
                   /\ client'[c].folder = client[c].folder /\ client'[c].by = client[c].by
              /\ c \notin S => client'[c] = client[c]
              /\ c \in S => client'[c].overtaken
<1>1. ASSUME NEW c \in Clients
      PROVE  /\ client'[c] \in ClientType
             /\ client'[c].does = client[c].does
             /\ client[c].does \in {"create", "update", "move"} =>
                  /\ client'[c].folder = client[c].folder /\ client'[c].by = client[c].by
             /\ c \notin S => client'[c] = client[c]
             /\ c \in S => client'[c].overtaken
  <2>1. CASE c \notin S
    BY <2>1 DEF ShelfInv, ShelfTypeOK
  <2>2. CASE c \in S /\ client[c] \in FilingType
    BY <2>2, ClientTypes DEF FilingType
  <2>3. CASE c \in S /\ client[c] \in LookType
    BY <2>3, ClientTypes DEF LookType
  <2> QED
    BY <2>1, <2>2, <2>3
<1> QED
  BY <1>1

LEMMA FolderSteps ==
  ASSUME ShelfInv, CreateFolder \/ DeleteFolder
  PROVE  ShelfInv'
<1>0. /\ ShelfTypeOK /\ FiledWithOwner
      /\ \A c \in Clients : KnowsFolder(client[c]) /\ KnowsOwner(client[c]) /\ KnowsPlace(client[c])
  BY DEF ShelfInv
<1>1. CASE CreateFolder
  <2>1. PICK f \in Folders, p \in People : cabinet[f] = Undrawn /\ cabinet' = [cabinet EXCEPT ![f] = p]
    BY <1>1 DEF CreateFolder
  <2>2. UNCHANGED <<tour, client, astray>>
    BY <1>1 DEF CreateFolder
  <2>3. ShelfTypeOK'
    BY <1>0, <2>1, <2>2 DEF ShelfTypeOK
  <2>4. \A g \in Folders : cabinet[g] \in People \cup {Dropped} => cabinet'[g] = cabinet[g]
    BY <1>0, <2>1, SentinelAssumption DEF ShelfTypeOK, Undrawn, Dropped
  <2>5. FiledWithOwner'
    BY <1>0, <2>2, <2>4, TourCases DEF FiledWithOwner, TourRow
  <2>6. \A c \in Clients : KnowsFolder(client[c])'
    <3> SUFFICES ASSUME NEW c \in Clients, client[c].does \in {"create", "update", "move"},
                        client[c].folder \in Folders
                 PROVE  cabinet'[client[c].folder] \in {client[c].by, Dropped}
      BY <2>2 DEF KnowsFolder
    <3>1. client[c].by \in People
      BY <1>0, ClientCases DEF FilingType
    <3> QED
      BY <1>0, <2>4, <3>1 DEF KnowsFolder
  <2> QED
    BY <1>0, <2>2, <2>3, <2>5, <2>6 DEF ShelfInv, KnowsOwner, KnowsPlace
<1>2. CASE DeleteFolder
  <2>1. PICK f \in Folders :
          LET in == {t \in Tours : tour[t].row /\ tour[t].folder = f} IN
          /\ cabinet[f] \in People
          /\ cabinet' = [cabinet EXCEPT ![f] = Dropped]
          /\ tour' = [t \in Tours |-> IF t \in in THEN [tour[t] EXCEPT !.folder = Unfiled] ELSE tour[t]]
          /\ astray' = [t \in Tours |-> IF t \in in THEN "no" ELSE astray[t]]
    BY <1>2 DEF DeleteFolder
  <2>2. client' = client
    BY <1>2 DEF DeleteFolder
  <2>3. /\ cabinet'[f] = Dropped
        /\ \A g \in Folders \ {f} : cabinet'[g] = cabinet[g]
    BY <1>0, <2>1 DEF ShelfTypeOK
  <2>4. ASSUME NEW t \in Tours
        PROVE  /\ tour'[t] \in TourType /\ astray'[t] \in Ways
               /\ tour'[t].row => tour'[t].folder # f
               /\ (tour'[t] = tour[t] /\ astray'[t] = astray[t])
                  \/ /\ tour[t].row /\ tour'[t].row /\ tour'[t].folder = Unfiled
                     /\ tour'[t].owner = tour[t].owner
                     /\ tour'[t].archived = tour[t].archived
                     /\ tour'[t].deleted = tour[t].deleted
    <3>1. CASE tour[t].row /\ tour[t].folder = f
      <4>1. tour'[t] = [tour[t] EXCEPT !.folder = Unfiled] /\ astray'[t] = "no"
        BY <2>1, <3>1
      <4>2. tour[t] \in TourRow
        BY <1>0, <3>1, TourCases
      <4>3. /\ tour'[t] \in TourRow /\ tour'[t].folder = Unfiled
            /\ tour'[t].owner = tour[t].owner
            /\ tour'[t].archived = tour[t].archived
            /\ tour'[t].deleted = tour[t].deleted
        BY <4>1, <4>2 DEF TourRow
      <4>4. tour'[t].row
        BY <4>3 DEF TourRow
      <4>5. tour'[t] \in TourType /\ astray'[t] \in Ways
        BY <4>1, <4>3 DEF TourRow, TourType, Ways
      <4> QED
        BY <3>1, <4>3, <4>4, <4>5, SentinelAssumption
    <3>2. CASE ~(tour[t].row /\ tour[t].folder = f)
      BY <1>0, <2>1, <3>2 DEF ShelfTypeOK
    <3> QED
      BY <3>1, <3>2
  <2>5. ShelfTypeOK'
    BY <1>0, <2>1, <2>2, <2>4 DEF ShelfTypeOK
  <2>6. FiledWithOwner'
    <3> SUFFICES ASSUME NEW t \in Tours, tour'[t].row, tour'[t].folder # Unfiled
                 PROVE  /\ cabinet'[tour'[t].folder] \in People
                        /\ cabinet'[tour'[t].folder] = tour'[t].owner \/ astray'[t] # "no"
      BY DEF FiledWithOwner
    <3>1. tour'[t] = tour[t] /\ astray'[t] = astray[t] /\ tour[t].folder # f
      BY <2>4
    <3>2. tour[t].folder \in Folders
      BY <1>0, <3>1, TourCases DEF TourRow
    <3> QED
      BY <1>0, <2>3, <3>1, <3>2 DEF FiledWithOwner
  <2>7. \A c \in Clients : KnowsFolder(client[c])'
    BY <1>0, <2>2, <2>3 DEF KnowsFolder
  <2>8. \A c \in Clients : KnowsOwner(client[c])' /\ KnowsPlace(client[c])'
    <3> SUFFICES ASSUME NEW c \in Clients PROVE KnowsOwner(client[c])' /\ KnowsPlace(client[c])'
      OBVIOUS
    <3>1. client[c].does \in {"move", "look"} => client[c].tour \in Tours
      BY <1>0, ClientCases DEF FilingType, LookType
    <3> QED
      BY <1>0, <2>2, <2>4, <3>1 DEF KnowsOwner, KnowsPlace
  <2> QED
    BY <2>5, <2>6, <2>7, <2>8 DEF ShelfInv
<1> QED
  BY <1>1, <1>2

\* A step that changes one trip's row, and not the folder it lies in, and marks
\* the requests in S as overtaken.
ChangesTour(t, new, S) ==
  /\ tour[t].row
  /\ new.folder = tour[t].folder
  /\ tour' = [tour EXCEPT ![t] = new]
  /\ cabinet' = cabinet
  /\ astray' \in [Tours -> Ways]
  /\ \A u \in Tours \ {t} : astray'[u] = astray[u]
  /\ new.folder \in Folders =>
       \/ astray'[t] # "no"
       \/ cabinet[new.folder] = new.owner
       \/ astray'[t] = astray[t] /\ new.owner = tour[t].owner
  /\ \A c \in S : client[c] \in FilingType \cup LookType
  /\ client' = [c \in Clients |->
       IF c \in S THEN [client[c] EXCEPT !.overtaken = TRUE] ELSE client[c]]
  /\ \A c \in Clients \ S :
       /\ client[c].does = "move" /\ client[c].tour = t => new.owner = tour[t].owner
       /\ client[c].does = "look" /\ client[c].tour = t =>
            /\ new.deleted => tour[t].deleted
            /\ tour[t].archived => new.archived

LEMMA TourStep ==
  ASSUME ShelfInv, NEW t \in Tours, NEW new \in TourRow, NEW S \in SUBSET Clients,
         ChangesTour(t, new, S)
  PROVE  ShelfInv'
<1> USE DEF ChangesTour
<1>0. /\ ShelfTypeOK /\ FiledWithOwner
      /\ \A c \in Clients : KnowsFolder(client[c]) /\ KnowsOwner(client[c]) /\ KnowsPlace(client[c])
  BY DEF ShelfInv
<1>1. tour'[t] = new /\ new.row /\ \A u \in Tours \ {t} : tour'[u] = tour[u]
  BY <1>0 DEF ShelfTypeOK, TourRow
<1>2. client' \in [Clients -> ClientType]
  BY MarkedKnow
<1>3. ShelfTypeOK'
  BY <1>0, <1>2 DEF ShelfTypeOK, TourType, TourRow
<1>4. FiledWithOwner'
  <2> SUFFICES ASSUME NEW u \in Tours, tour'[u].row, tour'[u].folder # Unfiled
               PROVE  /\ cabinet'[tour'[u].folder] \in People
                      /\ cabinet'[tour'[u].folder] = tour'[u].owner \/ astray'[u] # "no"
    BY DEF FiledWithOwner
  <2>1. CASE u = t
    <3>1. new.folder \in Folders
      BY <1>1, <2>1 DEF TourRow
    <3> QED
      BY <1>0, <1>1, <2>1, <3>1 DEF FiledWithOwner
  <2>2. CASE u # t
    BY <1>0, <1>1, <2>2 DEF FiledWithOwner
  <2> QED
    BY <2>1, <2>2
<1>5. ASSUME NEW c \in Clients
      PROVE  KnowsFolder(client[c])' /\ KnowsOwner(client[c])' /\ KnowsPlace(client[c])'
  <2>1. /\ client'[c].does = client[c].does
        /\ client[c].does \in {"create", "update", "move"} =>
             /\ client'[c].folder = client[c].folder /\ client'[c].by = client[c].by
        /\ c \notin S => client'[c] = client[c]
        /\ c \in S => client'[c].overtaken
    BY MarkedKnow
  <2>2. KnowsFolder(client[c])'
    BY <1>0, <2>1 DEF KnowsFolder
  <2>3. KnowsOwner(client[c])'
    BY <1>0, <1>1, <2>1 DEF KnowsOwner
  <2>4. KnowsPlace(client[c])'
    BY <1>0, <1>1, <2>1 DEF KnowsPlace
  <2> QED
    BY <2>2, <2>3, <2>4
<1> QED
  BY <1>3, <1>4, <1>5 DEF ShelfInv

LEMMA TourSteps ==
  ASSUME ShelfInv, HandOver \/ Archive \/ Unarchive \/ RemoveTour \/ RestoreTour
  PROVE  ShelfInv'
<1>0. ShelfTypeOK
  BY DEF ShelfInv
<1>1. CASE HandOver
  <2>1. PICK t \in Tours, p \in People :
          /\ Mutable(t)
          /\ tour' = [tour EXCEPT ![t].owner = p]
          /\ astray' = [astray EXCEPT ![t] =
               IF BelongsTo(tour[t].folder, p) THEN "no" ELSE "handed over"]
          /\ client' = [c \in Clients |->
               IF client[c].does \in {"update", "move"} /\ client[c].tour = t
               THEN [client[c] EXCEPT !.overtaken = TRUE] ELSE client[c]]
    BY <1>1 DEF HandOver
  <2> DEFINE new == [tour[t] EXCEPT !.owner = p]
             S == {c \in Clients : client[c].does \in {"update", "move"} /\ client[c].tour = t}
  <2>2. tour[t].row /\ cabinet' = cabinet
    BY <1>1, <2>1 DEF HandOver, Mutable, Shown
  <2>3. tour[t] \in TourRow
    BY <1>0, <2>2, TourCases
  <2>4. /\ new \in TourRow /\ new.folder = tour[t].folder /\ new.owner = p
        /\ new.archived = tour[t].archived /\ new.deleted = tour[t].deleted
    BY <2>3 DEF TourRow
  <2>5. tour' = [tour EXCEPT ![t] = new]
    BY <2>1
  <2>6. /\ astray' \in [Tours -> Ways] /\ \A u \in Tours \ {t} : astray'[u] = astray[u]
        /\ new.folder \in Folders => astray'[t] # "no" \/ cabinet[new.folder] = new.owner
    BY <1>0, <2>1, <2>4 DEF ShelfTypeOK, Ways, BelongsTo
  <2>7. \A c \in S : client[c] \in FilingType \cup LookType
    BY <1>0, ClientCases
  <2>8. client' = [c \in Clients |->
          IF c \in S THEN [client[c] EXCEPT !.overtaken = TRUE] ELSE client[c]]
    BY <2>1
  <2>9. \A c \in Clients \ S :
          /\ client[c].does = "move" /\ client[c].tour = t => new.owner = tour[t].owner
          /\ client[c].does = "look" /\ client[c].tour = t =>
               /\ new.deleted => tour[t].deleted
               /\ tour[t].archived => new.archived
    BY <2>4
  <2> HIDE DEF new, S
  <2>10. S \in SUBSET Clients
    BY DEF S
  <2> QED
    <3>1. ChangesTour(t, new, S)
      BY <2>2, <2>4, <2>5, <2>6, <2>7, <2>8, <2>9 DEF ChangesTour
    <3> QED
      BY <2>4, <2>10, <3>1, TourStep
<1>2. CASE Archive \/ RestoreTour
  <2>1. PICK t \in Tours :
          /\ tour[t].row
          /\ \/ tour' = [tour EXCEPT ![t].archived = TRUE]
             \/ tour' = [tour EXCEPT ![t].deleted = FALSE]
    BY <1>2 DEF Archive, RestoreTour, Mutable, Shown
  <2>2. UNCHANGED <<cabinet, client, astray>>
    BY <1>2 DEF Archive, RestoreTour
  <2>3. tour[t] \in TourRow
    BY <1>0, <2>1, TourCases
  <2>4. PICK new \in TourRow :
          /\ tour' = [tour EXCEPT ![t] = new]
          /\ new.folder = tour[t].folder /\ new.owner = tour[t].owner
          /\ new.deleted => tour[t].deleted
          /\ tour[t].archived => new.archived
    <3>1. CASE tour' = [tour EXCEPT ![t].archived = TRUE]
      <4> DEFINE n == [tour[t] EXCEPT !.archived = TRUE]
      <4>1. n \in TourRow /\ n.folder = tour[t].folder /\ n.owner = tour[t].owner
            /\ n.deleted = tour[t].deleted /\ n.archived = TRUE
        BY <2>3 DEF TourRow
      <4>2. tour' = [tour EXCEPT ![t] = n]
        BY <3>1
      <4> HIDE DEF n
      <4> QED
        BY <4>1, <4>2
    <3>2. CASE tour' = [tour EXCEPT ![t].deleted = FALSE]
      <4> DEFINE n == [tour[t] EXCEPT !.deleted = FALSE]
      <4>1. n \in TourRow /\ n.folder = tour[t].folder /\ n.owner = tour[t].owner
            /\ n.archived = tour[t].archived /\ n.deleted = FALSE
        BY <2>3 DEF TourRow
      <4>2. tour' = [tour EXCEPT ![t] = n]
        BY <3>2
      <4> HIDE DEF n
      <4> QED
        BY <4>1, <4>2
    <3> QED
      BY <2>1, <3>1, <3>2
  <2>5. client' = [c \in Clients |->
          IF c \in {} THEN [client[c] EXCEPT !.overtaken = TRUE] ELSE client[c]]
    BY <1>0, <2>2 DEF ShelfTypeOK
  <2>6. astray' \in [Tours -> Ways]
    BY <1>0, <2>2 DEF ShelfTypeOK
  <2> QED
    <3>1. ChangesTour(t, new, {})
      BY <2>1, <2>2, <2>4, <2>5, <2>6 DEF ChangesTour
    <3> QED
      BY <3>1, TourStep
<1>3. CASE Unarchive \/ RemoveTour
  <2>1. PICK t \in Tours :
          /\ tour[t].row /\ Overtaken(t)
          /\ \/ tour' = [tour EXCEPT ![t].archived = FALSE]
             \/ tour' = [tour EXCEPT ![t].deleted = TRUE]
    BY <1>3 DEF Unarchive, RemoveTour, Mutable, Shown
  <2> DEFINE S == {c \in Clients :
                     client[c].does \in {"update", "move", "look"} /\ client[c].tour = t}
  <2>2. UNCHANGED <<cabinet, astray>>
    BY <1>3 DEF Unarchive, RemoveTour
  <2>3. tour[t] \in TourRow
    BY <1>0, <2>1, TourCases
  <2>4. PICK new \in TourRow :
          /\ tour' = [tour EXCEPT ![t] = new]
          /\ new.folder = tour[t].folder /\ new.owner = tour[t].owner
    <3>1. CASE tour' = [tour EXCEPT ![t].archived = FALSE]
      <4> DEFINE n == [tour[t] EXCEPT !.archived = FALSE]
      <4>1. n \in TourRow /\ n.folder = tour[t].folder /\ n.owner = tour[t].owner
        BY <2>3 DEF TourRow
      <4>2. tour' = [tour EXCEPT ![t] = n]
        BY <3>1
      <4> HIDE DEF n
      <4> QED
        BY <4>1, <4>2
    <3>2. CASE tour' = [tour EXCEPT ![t].deleted = TRUE]
      <4> DEFINE n == [tour[t] EXCEPT !.deleted = TRUE]
      <4>1. n \in TourRow /\ n.folder = tour[t].folder /\ n.owner = tour[t].owner
        BY <2>3 DEF TourRow
      <4>2. tour' = [tour EXCEPT ![t] = n]
        BY <3>2
      <4> HIDE DEF n
      <4> QED
        BY <4>1, <4>2
    <3> QED
      BY <2>1, <3>1, <3>2
  <2>5. \A c \in S : client[c] \in FilingType \cup LookType
    BY <1>0, ClientCases
  <2>6. client' = [c \in Clients |->
          IF c \in S THEN [client[c] EXCEPT !.overtaken = TRUE] ELSE client[c]]
    BY <2>1 DEF Overtaken
  <2>7. \A c \in Clients \ S : ~(client[c].does \in {"move", "look"} /\ client[c].tour = t)
    OBVIOUS
  <2>8. astray' \in [Tours -> Ways]
    BY <1>0, <2>2 DEF ShelfTypeOK
  <2>9. S \in SUBSET Clients
    OBVIOUS
  <2> HIDE DEF S
  <2> QED
    <3>1. ChangesTour(t, new, S)
      BY <2>1, <2>2, <2>4, <2>5, <2>6, <2>7, <2>8 DEF ChangesTour
    <3> QED
      BY <2>9, <3>1, TourStep
<1> QED
  BY <1>1, <1>2, <1>3

\* A step that writes one trip's row and ends a request.
LEMMA WriteStep ==
  ASSUME ShelfInv, NEW c \in Clients, client' = [client EXCEPT ![c] = Ready], cabinet' = cabinet,
         NEW t \in Tours, NEW new \in TourRow, NEW way \in Ways,
         tour' = [tour EXCEPT ![t] = new], astray' = [astray EXCEPT ![t] = way],
         tour[t].row => /\ new.owner = tour[t].owner
                        /\ new.archived = tour[t].archived
                        /\ new.deleted = tour[t].deleted,
         new.folder \in Folders =>
           /\ cabinet[new.folder] \in People
           /\ cabinet[new.folder] = new.owner \/ way # "no"
  PROVE  ShelfInv'
<1>0. /\ ShelfTypeOK /\ FiledWithOwner
      /\ \A d \in Clients : KnowsFolder(client[d]) /\ KnowsOwner(client[d]) /\ KnowsPlace(client[d])
  BY DEF ShelfInv
<1>1. /\ tour'[t] = new /\ new.row /\ astray'[t] = way
      /\ \A u \in Tours \ {t} : tour'[u] = tour[u] /\ astray'[u] = astray[u]
  BY <1>0 DEF ShelfTypeOK, TourRow
<1>2. client'[c] = Ready /\ \A d \in Clients \ {c} : client'[d] = client[d]
  BY <1>0 DEF ShelfTypeOK
<1>3. ShelfTypeOK'
  BY <1>0, ClientTypes DEF ShelfTypeOK, TourType, TourRow
<1>4. FiledWithOwner'
  <2> SUFFICES ASSUME NEW u \in Tours, tour'[u].row, tour'[u].folder # Unfiled
               PROVE  /\ cabinet'[tour'[u].folder] \in People
                      /\ cabinet'[tour'[u].folder] = tour'[u].owner \/ astray'[u] # "no"
    BY DEF FiledWithOwner
  <2>1. CASE u = t
    <3>1. new.folder \in Folders
      BY <1>1, <2>1 DEF TourRow
    <3> QED
      BY <1>1, <2>1, <3>1
  <2>2. CASE u # t
    BY <1>0, <1>1, <2>2 DEF FiledWithOwner
  <2> QED
    BY <2>1, <2>2
<1>5. ASSUME NEW d \in Clients
      PROVE  KnowsFolder(client[d])' /\ KnowsOwner(client[d])' /\ KnowsPlace(client[d])'
  <2>1. CASE d = c
    BY <1>2, <2>1 DEF Ready, KnowsFolder, KnowsOwner, KnowsPlace
  <2>2. CASE d # c
    <3>1. KnowsFolder(client[d])'
      BY <1>0, <1>2, <2>2 DEF KnowsFolder
    <3>2. KnowsOwner(client[d])'
      BY <1>0, <1>1, <1>2, <2>2 DEF KnowsOwner
    <3>3. KnowsPlace(client[d])'
      BY <1>0, <1>1, <1>2, <2>2 DEF KnowsPlace
    <3> QED
      BY <3>1, <3>2, <3>3
  <2> QED
    BY <2>1, <2>2
<1> QED
  BY <1>3, <1>4, <1>5 DEF ShelfInv

LEMMA FileWriteStep ==
  ASSUME ShelfInv, NEW c \in Clients, FileWrite(c)
  PROVE  ShelfInv'
<1>0. ShelfTypeOK /\ KnowsFolder(client[c]) /\ KnowsOwner(client[c])
  BY DEF ShelfInv
<1> DEFINE r == client[c]
           t == r.tour
           owner == IF r.does = "create" THEN r.by ELSE tour[t].owner
           new == IF r.does = "create"
                  THEN [row |-> TRUE, owner |-> r.by, archived |-> FALSE, deleted |-> FALSE,
                        folder |-> r.folder]
                  ELSE [tour[t] EXCEPT !.folder = r.folder]
<1>1. /\ r.does \in {"create", "update", "move"} /\ r.at = "write"
      /\ client' = [client EXCEPT ![c] = Ready] /\ cabinet' = cabinet
  BY DEF FileWrite, Ends
<1>2. r \in FilingType
  BY <1>0, <1>1, ClientCases
<1>3. r.by \in People /\ t \in Tours /\ r.folder \in Folders \cup {Unfiled} /\ r.overtaken \in BOOLEAN
  BY <1>2 DEF FilingType
<1>4. CASE UNCHANGED <<tour, astray>>
  BY <1>1, <1>4, ClientStep, ClientTypes, ReadyKnows
<1>5. CASE /\ Referable(r.folder)
           /\ CASE r.does = "create" -> ~tour[t].row
                [] r.does = "update" -> Shown(t)
                [] r.does = "move"   -> tour[t].row
           /\ tour' = [tour EXCEPT ![t] =
                IF r.does = "create"
                THEN [row |-> TRUE, owner |-> r.by, archived |-> FALSE, deleted |-> FALSE,
                      folder |-> r.folder]
                ELSE [@ EXCEPT !.folder = r.folder]]
           /\ astray' = [astray EXCEPT ![t] = Way(r, owner)]
  <2>1. tour' = [tour EXCEPT ![t] = new]
    BY <1>5
  <2>2. r.does = "create" <=> ~tour[t].row
    BY <1>1, <1>5 DEF Shown
  <2>3. /\ new \in TourRow /\ new.folder = r.folder /\ new.owner = owner
        /\ tour[t].row => /\ new.owner = tour[t].owner
                          /\ new.archived = tour[t].archived
                          /\ new.deleted = tour[t].deleted
    <3>1. CASE r.does = "create"
      BY <1>3, <2>2, <3>1 DEF TourRow
    <3>2. CASE r.does # "create"
      <4>1. tour[t] \in TourRow
        BY <1>0, <1>3, <2>2, <3>2, TourCases
      <4> QED
        BY <1>3, <3>2, <4>1 DEF TourRow
    <3> QED
      BY <3>1, <3>2
  <2>4. Way(r, owner) \in Ways
    BY DEF Way, Ways
  <2>5. ASSUME new.folder \in Folders
        PROVE  /\ cabinet[new.folder] \in People
               /\ cabinet[new.folder] = new.owner \/ Way(r, owner) # "no"
    <3>1. cabinet[r.folder] \in People
      BY <1>5, <2>3, <2>5 DEF Referable
    <3>2. cabinet[r.folder] = r.by
      BY <1>0, <1>1, <2>3, <2>5, <3>1, SentinelAssumption DEF KnowsFolder
    <3>3. CASE owner = r.by
      BY <2>3, <3>1, <3>2, <3>3
    <3>4. CASE owner # r.by
      <4>1. r.folder # Unfiled
        BY <2>3, <2>5, SentinelAssumption
      <4>2. r.does # "create"
        BY <3>4
      <4>3. r.does = "move" => r.overtaken
        BY <1>0, <1>1, <3>4, <4>2 DEF KnowsOwner
      <4>4. Way(r, owner) # "no"
        BY <1>1, <3>4, <4>1, <4>2, <4>3 DEF Way
      <4> QED
        BY <2>3, <3>1, <4>4
    <3> QED
      BY <3>3, <3>4
  <2>6. astray' = [astray EXCEPT ![t] = Way(r, owner)]
    BY <1>5
  <2>7. t \in Tours
    BY <1>3
  <2> HIDE DEF new, owner, t
  <2> QED
    BY <1>1, <2>1, <2>3, <2>4, <2>5, <2>6, <2>7, WriteStep
<1> QED
  BY <1>4, <1>5 DEF FileWrite

LEMMA CopyWriteStep ==
  ASSUME ShelfInv, NEW c \in Clients, CopyWrite(c)
  PROVE  ShelfInv'
<1>0. ShelfTypeOK
  BY DEF ShelfInv
<1> DEFINE r == client[c]
           new == [row |-> TRUE, owner |-> r.by, archived |-> FALSE, deleted |-> FALSE,
                   folder |-> r.folder]
           way == IF BelongsTo(r.folder, r.by) THEN "no" ELSE "copied"
<1>1. r.does = "duplicate" /\ client' = [client EXCEPT ![c] = Ready] /\ cabinet' = cabinet
  BY DEF CopyWrite, Ends
<1>2. r \in CopyType
  BY <1>0, <1>1, ClientCases
<1>3. CASE UNCHANGED <<tour, astray>>
  BY <1>1, <1>3, ClientStep, ClientTypes, ReadyKnows
<1>4. ASSUME NEW t \in Tours, ~tour[t].row, Referable(r.folder),
             tour' = [tour EXCEPT ![t] = new], astray' = [astray EXCEPT ![t] = way]
      PROVE  ShelfInv'
  <2>1. new \in TourRow /\ new.folder = r.folder /\ new.owner = r.by
    BY <1>2 DEF CopyType, TourRow
  <2>2. way \in Ways
    BY DEF Ways
  <2>3. new.folder \in Folders =>
          /\ cabinet[new.folder] \in People
          /\ cabinet[new.folder] = new.owner \/ way # "no"
    BY <1>4, <2>1 DEF Referable, BelongsTo
  <2> HIDE DEF new, way
  <2> QED
    BY <1>1, <1>4, <2>1, <2>2, <2>3, WriteStep
<1> QED
  BY <1>3, <1>4 DEF CopyWrite

LEMMA ShelfStep == ShelfInv /\ [ShelfNext]_shelfVars => ShelfInv'
<1> SUFFICES ASSUME ShelfInv, [ShelfNext]_shelfVars PROVE ShelfInv'
  OBVIOUS
<1>1. CASE FilingNext
  <2>1. CASE CreateFolder \/ DeleteFolder
    BY <2>1, FolderSteps
  <2>2. CASE HandOver \/ RemoveTour \/ RestoreTour
    BY <2>2, TourSteps
  <2>3. CASE \E c \in Clients : Create(c) \/ Update(c) \/ Move(c)
    BY <2>3, FileStep
  <2>4. CASE \E c \in Clients : CheckTrip(c) \/ FileWrite(c)
    BY <2>4, CheckStep, FileWriteStep
  <2>5. CASE \E c \in Clients : CopyRead(c) \/ CopyWrite(c)
    BY <2>5, CopyReadStep, CopyWriteStep
  <2> QED
    BY <1>1, <2>1, <2>2, <2>3, <2>4, <2>5 DEF FilingNext
<1>2. CASE FindingNext
  <2>1. CASE HandOver \/ Archive \/ Unarchive \/ RemoveTour \/ RestoreTour
    BY <2>1, TourSteps
  <2>2. CASE \E c \in Clients : LookUp(c) \/ Look(c) \/ Answer(c)
    BY <2>2, LookStep
  <2> QED
    BY <1>2, <2>1, <2>2 DEF FindingNext
<1>3. CASE UNCHANGED shelfVars
  BY <1>3 DEF shelfVars, ShelfInv, ShelfTypeOK, FiledWithOwner, KnowsFolder, KnowsOwner, KnowsPlace
<1> QED
  BY <1>1, <1>2, <1>3 DEF ShelfNext

\* Rows, folders and requests stay what the tables and the handlers allow.
THEOREM ShelfTypes == ShelfSpec => []ShelfTypeOK
<1>1. ShelfInv => ShelfTypeOK
  BY DEF ShelfInv
<1> QED
  BY <1>1, ShelfStarts, ShelfStep, PTL DEF ShelfSpec

\* A trip lies in a folder of its owner, but for the ways astray names: the
\* folder check of a request holds until its write, since whose a folder is
\* never changes and a folder deleted meanwhile fails the foreign key.
THEOREM ShelfFiledWithOwner == ShelfSpec => []FiledWithOwner
<1>1. ShelfInv => FiledWithOwner
  BY DEF ShelfInv
<1> QED
  BY <1>1, ShelfStarts, ShelfStep, PTL DEF ShelfSpec

\* The three queries of a look-up miss a trip only when it changes its view
\* against their order.
THEOREM ShelfFound == ShelfSpec => []FoundUnlessOvertaken
<1>1. ShelfInv => FoundUnlessOvertaken
  BY ClientCases DEF ShelfInv, FoundUnlessOvertaken, KnowsPlace, LookType
<1> QED
  BY <1>1, ShelfStarts, ShelfStep, PTL DEF ShelfSpec

-----------------------------------------------------------------------------
(* Trips.                                                                    *)

CopyJob ==
  [do : {"fork", "duplicate"}, selected : SUBSET Days, left : SUBSET Days,
   copies : [Blocks -> 0..Cardinality(Days)],
   there : SUBSET Blocks, still : SUBSET Blocks]

\* How far a copy j can be: a block is read at most once for every day that is
\* no longer left; a block that never moved sits on one day; a fork has read
\* nothing, and sees all that is there, or it has read everything.
CopySound(j) ==
  /\ j.left \subseteq j.selected
  /\ \A b \in Blocks : j.copies[b] + Cardinality(j.left) <= Cardinality(j.selected)
  /\ \A b \in j.still :
       /\ Live(b) /\ place[b] \in j.selected
       /\ b \in j.there
       /\ j.copies[b] = IF place[b] \in j.left THEN 0 ELSE 1
  /\ j.do = "fork" =>
       \/ /\ j.left = j.selected
          /\ j.there \subseteq On(j.selected)
          /\ \A b \in Blocks : j.copies[b] = 0
       \/ /\ j.left = {}
          /\ \A b \in Blocks : j.copies[b] <= 1 /\ (b \in j.there => j.copies[b] = 1)

TripsInv ==
  /\ TypeOK
  /\ \A r \in Requests : Copying(r) => CopySound(job[r])

LEMMA JobCases ==
  ASSUME TypeOK, NEW r \in Requests
  PROVE  /\ Copying(r) <=> job[r] \in CopyJob
         /\ job[r] = Idle => ~Copying(r)
         /\ job[r].do = "restore" => ~Copying(r)
<1>1. job[r] \in {Idle} \cup [do : {"restore"}] \cup CopyJob
  BY DEF TypeOK, JobType, CopyJob
<1>2. Idle.do = "nothing"
  BY DEF Idle
<1>3. \A j \in CopyJob : j.do \in {"fork", "duplicate"}
  BY DEF CopyJob
<1>4. \A j \in [do : {"restore"}] : j.do = "restore"
  OBVIOUS
<1> QED
  BY <1>1, <1>2, <1>3, <1>4 DEF Copying

LEMMA JobTypes ==
  Idle \in JobType /\ [do |-> "restore"] \in JobType /\ CopyJob \subseteq JobType
BY DEF JobType, CopyJob

LEMMA TripsStarts == Init => TripsInv
<1> SUFFICES ASSUME Init PROVE TripsInv
  OBVIOUS
<1>1. TypeOK
  BY ConstantsAssumption DEF Init, TypeOK, RowStates, JobType
<1>2. \A r \in Requests : ~Copying(r)
  BY DEF Init, Copying, Idle
<1> QED
  BY <1>1, <1>2 DEF TripsInv

\* A step of one request, which leaves the rows alone.
LEMMA JobStep ==
  ASSUME TripsInv, NEW r \in Requests, NEW j \in JobType,
         UNCHANGED <<present, block, place, purge>>, trip' \in RowStates,
         job' = [job EXCEPT ![r] = j],
         j.do \in {"fork", "duplicate"} => CopySound(j)
  PROVE  TripsInv'
<1>1. job'[r] = j /\ \A q \in Requests \ {r} : job'[q] = job[q]
  BY DEF TripsInv, TypeOK
<1>2. TypeOK'
  BY DEF TripsInv, TypeOK
<1>3. ASSUME NEW q \in Requests, Copying(q)' PROVE CopySound(job[q])'
  <2>1. CASE q = r
    <3>1. CopySound(j) /\ job'[q] = j
      BY <1>1, <1>3, <2>1 DEF Copying
    <3> QED
      BY <3>1 DEF CopySound, On, Live
  <2>2. CASE q # r
    <3>1. CopySound(job[q]) /\ job'[q] = job[q]
      BY <1>1, <1>3, <2>2 DEF Copying, TripsInv
    <3> QED
      BY <3>1 DEF CopySound, On, Live
  <2> QED
    BY <2>1, <2>2
<1> QED
  BY <1>2, <1>3 DEF TripsInv

LEMMA StartStep ==
  ASSUME TripsInv, NEW r \in Requests, NEW kind \in {"fork", "duplicate"}, StartCopy(r, kind)
  PROVE  TripsInv'
<1> DEFINE j == [do |-> kind, selected |-> present, left |-> present,
                 copies |-> [b \in Blocks |-> 0],
                 there |-> On(present), still |-> On(present)]
<1>0. TypeOK
  BY DEF TripsInv
<1>1. IsFiniteSet(present) /\ Cardinality(present) \in Nat /\ Cardinality(Days) \in Nat
  BY <1>0, ConstantsAssumption, FS_Subset, FS_CardinalityType DEF TypeOK
<1>2. j \in CopyJob
  BY <1>0, <1>1 DEF TypeOK, CopyJob, On
<1>3. CopySound(j)
  BY <1>1 DEF CopySound, On
<1>4. /\ job' = [job EXCEPT ![r] = j]
      /\ UNCHANGED <<present, block, place, purge>> /\ trip' \in RowStates
  BY <1>0 DEF StartCopy, TypeOK
<1> HIDE DEF j
<1> QED
  BY <1>2, <1>3, <1>4, JobStep, JobTypes

\* A statement of a copy that reads days which are left.
LEMMA CopyStep ==
  ASSUME TripsInv, NEW r \in Requests, NEW days \in SUBSET job[r].left, days # {}, Copying(r),
         job[r].do = "fork" => days = job[r].left,
         CopyOf(r, days)
  PROVE  TripsInv'
<1> DEFINE q == job[r]
           j == [q EXCEPT !.left = @ \ days,
                          !.copies = [b \in Blocks |-> IF b \in On(days) THEN @[b] + 1 ELSE @[b]]]
<1>0. TypeOK /\ CopySound(q)
  BY DEF TripsInv
<1>1. q \in CopyJob
  BY <1>0, JobCases
<1>2. /\ j.do = q.do /\ j.selected = q.selected /\ j.left = q.left \ days
      /\ j.there = q.there /\ j.still = q.still
      /\ \A b \in Blocks : j.copies[b] = IF b \in On(days) THEN q.copies[b] + 1 ELSE q.copies[b]
  BY <1>1 DEF CopyJob
<1>3. /\ Cardinality(Days) \in Nat /\ Cardinality(q.selected) \in Nat
      /\ Cardinality(q.left) \in Nat /\ Cardinality(j.left) \in Nat
      /\ Cardinality(q.selected) <= Cardinality(Days)
      /\ Cardinality(j.left) + 1 <= Cardinality(q.left)
  <2>1. IsFiniteSet(q.selected) /\ IsFiniteSet(q.left) /\ Cardinality(q.selected) <= Cardinality(Days)
    BY <1>1, ConstantsAssumption, FS_Subset DEF CopyJob
  <2>2. PICK d \in days : TRUE
    OBVIOUS
  <2>3. /\ IsFiniteSet(q.left \ {d})
        /\ Cardinality(q.left \ {d}) = Cardinality(q.left) - 1
    BY <2>1, <2>2, FS_RemoveElement
  <2>4. j.left \subseteq q.left \ {d}
    BY <1>2, <2>2
  <2>5. IsFiniteSet(j.left) /\ Cardinality(j.left) <= Cardinality(q.left \ {d})
    BY <2>3, <2>4, FS_Subset
  <2>6. Cardinality(q.left) \in Nat /\ Cardinality(j.left) \in Nat
    BY <2>1, <2>5, FS_CardinalityType
  <2> QED
    BY <2>1, <2>3, <2>5, <2>6, ConstantsAssumption, FS_CardinalityType
<1>4. \A b \in Blocks : q.copies[b] \in Nat /\ q.copies[b] + Cardinality(q.left) <= Cardinality(q.selected)
  BY <1>0, <1>1, <1>3 DEF CopyJob, CopySound
<1>5. \A b \in Blocks : j.copies[b] + Cardinality(j.left) <= Cardinality(j.selected)
  BY <1>2, <1>3, <1>4
<1>6. j \in CopyJob
  <2>1. j.copies \in [Blocks -> 0..Cardinality(Days)]
    <3>1. j.copies = [b \in Blocks |-> IF b \in On(days) THEN q.copies[b] + 1 ELSE q.copies[b]]
      BY <1>1 DEF CopyJob
    <3>2. \A b \in Blocks : j.copies[b] \in 0..Cardinality(Days)
      BY <1>2, <1>3, <1>4, <1>5
    <3> QED
      BY <3>1, <3>2
  <2> QED
    BY <1>1, <2>1 DEF CopyJob
<1>7. CopySound(j)
  <2>1. j.left \subseteq j.selected
    BY <1>0, <1>2 DEF CopySound
  <2>2. ASSUME NEW b \in j.still
        PROVE  /\ Live(b) /\ place[b] \in j.selected
               /\ b \in j.there
               /\ j.copies[b] = IF place[b] \in j.left THEN 0 ELSE 1
    <3>1. /\ Live(b) /\ place[b] \in q.selected /\ b \in q.there
          /\ q.copies[b] = IF place[b] \in q.left THEN 0 ELSE 1
      BY <1>0, <1>2 DEF CopySound
    <3>2. b \in Blocks
      BY <1>1, <1>2 DEF CopyJob
    <3>3. b \in On(days) <=> place[b] \in days
      BY <3>1, <3>2 DEF On
    <3> QED
      BY <1>2, <3>1, <3>2, <3>3
  <2>3. ASSUME j.do = "fork"
        PROVE  /\ j.left = {}
               /\ \A b \in Blocks : j.copies[b] <= 1 /\ (b \in j.there => j.copies[b] = 1)
    <3>1. days = q.left /\ j.left = {} /\ q.left # {}
      BY <1>2, <2>3
    <3>2. /\ q.left = q.selected /\ q.there \subseteq On(q.selected)
          /\ \A b \in Blocks : q.copies[b] = 0
      BY <1>0, <1>2, <2>3, <3>1 DEF CopySound
    <3> QED
      BY <1>2, <3>1, <3>2
  <2> QED
    BY <1>5, <2>1, <2>2, <2>3 DEF CopySound
<1>8. /\ job' = [job EXCEPT ![r] = j]
      /\ UNCHANGED <<present, block, place, purge>> /\ trip' \in RowStates
  BY <1>0 DEF CopyOf, TypeOK
<1> HIDE DEF j
<1> QED
  BY <1>6, <1>7, <1>8, JobStep, JobTypes

\* A step of the rows that takes no live block away.
LEMMA RowStep ==
  ASSUME TripsInv, UNCHANGED <<place, job>>, TypeOK',
         \A b \in Blocks : block[b] = "live" => block'[b] = "live"
  PROVE  TripsInv'
<1>1. ASSUME NEW r \in Requests, Copying(r)' PROVE CopySound(job[r])'
  <2>1. CopySound(job[r]) /\ job[r] \in CopyJob
    BY <1>1, JobCases DEF TripsInv, Copying
  <2>2. job[r].still \subseteq Blocks /\ job[r].there \subseteq Blocks
    BY <2>1 DEF CopyJob
  <2> QED
    BY <2>1, <2>2 DEF CopySound, On, Live
<1> QED
  BY <1>1 DEF TripsInv

\* What the history makes of a copy when block b is edited.
LEMMA WatchedJobs ==
  ASSUME TypeOK, NEW b \in Blocks, NEW keeps, NEW stays, Watched(b, keeps, stays)
  PROVE  /\ job' \in [Requests -> JobType]
         /\ \A r \in Requests :
              /\ Copying(r)' <=> Copying(r)
              /\ Copying(r) =>
                   /\ job'[r].do = job[r].do /\ job'[r].selected = job[r].selected
                   /\ job'[r].left = job[r].left /\ job'[r].copies = job[r].copies
                   /\ job'[r].there = IF keeps[r] THEN job[r].there ELSE job[r].there \ {b}
                   /\ job'[r].still = IF stays THEN job[r].still ELSE job[r].still \ {b}
<1>1. ASSUME NEW r \in Requests
      PROVE  /\ job'[r] \in JobType
             /\ Copying(r)' <=> Copying(r)
             /\ Copying(r) =>
                  /\ job'[r].do = job[r].do /\ job'[r].selected = job[r].selected
                  /\ job'[r].left = job[r].left /\ job'[r].copies = job[r].copies
                  /\ job'[r].there = IF keeps[r] THEN job[r].there ELSE job[r].there \ {b}
                  /\ job'[r].still = IF stays THEN job[r].still ELSE job[r].still \ {b}
  <2>1. CASE Copying(r)
    <3>1. job[r] \in CopyJob
      BY <2>1, JobCases
    <3>2. job'[r] = [job[r] EXCEPT !.there = IF keeps[r] THEN @ ELSE @ \ {b},
                                   !.still = IF stays THEN @ ELSE @ \ {b}]
      BY <2>1 DEF Watched
    <3>3. /\ job'[r] \in CopyJob
          /\ job'[r].do = job[r].do /\ job'[r].selected = job[r].selected
          /\ job'[r].left = job[r].left /\ job'[r].copies = job[r].copies
          /\ job'[r].there = IF keeps[r] THEN job[r].there ELSE job[r].there \ {b}
          /\ job'[r].still = IF stays THEN job[r].still ELSE job[r].still \ {b}
      <4> DEFINE there == IF keeps[r] THEN job[r].there ELSE job[r].there \ {b}
                 still == IF stays THEN job[r].still ELSE job[r].still \ {b}
      <4>1. there \subseteq job[r].there /\ still \subseteq job[r].still
        OBVIOUS
      <4>2. job'[r] = [job[r] EXCEPT !.there = there, !.still = still]
        BY <3>1, <3>2 DEF CopyJob
      <4> HIDE DEF there, still
      <4>3. /\ job'[r] \in CopyJob
            /\ job'[r].do = job[r].do /\ job'[r].selected = job[r].selected
            /\ job'[r].left = job[r].left /\ job'[r].copies = job[r].copies
            /\ job'[r].there = there /\ job'[r].still = still
        BY <3>1, <4>1, <4>2 DEF CopyJob
      <4> QED
        BY <4>3 DEF there, still
    <3> QED
      BY <2>1, <3>3, JobTypes DEF Copying
  <2>2. CASE ~Copying(r)
    <3>1. job'[r] = job[r]
      BY <2>2 DEF Watched
    <3> QED
      BY <2>2, <3>1 DEF Copying, TypeOK
  <2> QED
    BY <2>1, <2>2
<1>2. job' = [r \in Requests |-> job'[r]]
  BY DEF Watched
<1> QED
  BY <1>1, <1>2

LEMMA MoveStep ==
  ASSUME TripsInv, MoveBlock
  PROVE  TripsInv'
<1>0. TypeOK
  BY DEF TripsInv
<1>1. PICK b \in Blocks, d \in present :
        /\ Live(b)
        /\ place' = [place EXCEPT ![b] = d]
        /\ Watched(b, [r \in Requests |-> Copying(r) /\ d \in job[r].selected], d = place[b])
  BY DEF MoveBlock
<1> DEFINE keeps == [r \in Requests |-> Copying(r) /\ d \in job[r].selected]
<1>2. UNCHANGED <<trip, present, block, purge>>
  BY DEF MoveBlock
<1>3. /\ job' \in [Requests -> JobType]
      /\ \A r \in Requests :
           /\ Copying(r)' <=> Copying(r)
           /\ Copying(r) =>
                /\ job'[r].do = job[r].do /\ job'[r].selected = job[r].selected
                /\ job'[r].left = job[r].left /\ job'[r].copies = job[r].copies
                /\ job'[r].there = IF keeps[r] THEN job[r].there ELSE job[r].there \ {b}
                /\ job'[r].still = IF d = place[b] THEN job[r].still ELSE job[r].still \ {b}
  <2> HIDE DEF keeps
  <2>1. Watched(b, keeps, d = place[b])
    BY <1>1 DEF keeps
  <2> QED
    BY <1>0, <2>1, WatchedJobs
<1>4. TypeOK'
  BY <1>0, <1>1, <1>2, <1>3 DEF TypeOK
<1>5. place'[b] = d /\ \A a \in Blocks \ {b} : place'[a] = place[a]
  BY <1>0, <1>1 DEF TypeOK
<1>6. ASSUME NEW r \in Requests, Copying(r)' PROVE CopySound(job[r])'
  <2>0. CopySound(job[r]) /\ job[r] \in CopyJob
    BY <1>0, <1>3, <1>6, JobCases DEF TripsInv
  <2>1. job[r].still \subseteq Blocks /\ job[r].there \subseteq Blocks
    BY <2>0 DEF CopyJob
  <2>2. /\ job'[r].do = job[r].do /\ job'[r].selected = job[r].selected
        /\ job'[r].left = job[r].left /\ job'[r].copies = job[r].copies
        /\ job'[r].there = IF d \in job[r].selected THEN job[r].there ELSE job[r].there \ {b}
        /\ job'[r].still = IF d = place[b] THEN job[r].still ELSE job[r].still \ {b}
    BY <1>3, <1>6
  <2>3. ASSUME NEW a \in job'[r].still
        PROVE  /\ block'[a] = "live" /\ place'[a] \in job'[r].selected
               /\ a \in job'[r].there
               /\ job'[r].copies[a] = IF place'[a] \in job'[r].left THEN 0 ELSE 1
    <3>1. /\ Live(a) /\ place[a] \in job[r].selected /\ a \in job[r].there
          /\ job[r].copies[a] = IF place[a] \in job[r].left THEN 0 ELSE 1
      BY <2>0, <2>2 DEF CopySound
    <3>2. a \in Blocks /\ place'[a] = place[a]
      BY <1>5, <2>1, <2>2
    <3> QED
      BY <1>2, <1>5, <2>2, <3>1, <3>2 DEF Live
  <2>4. ASSUME NEW a \in job'[r].there, job[r].there \subseteq On(job[r].selected)
        PROVE  a \in Blocks /\ block'[a] = "live" /\ place'[a] \in job[r].selected
    BY <1>2, <1>5, <2>1, <2>2, <2>4 DEF On, Live
  <2> QED
    BY <2>0, <2>2, <2>3, <2>4 DEF CopySound, On, Live
<1> QED
  BY <1>4, <1>6 DEF TripsInv

LEMMA DeleteStep ==
  ASSUME TripsInv, DeleteBlock
  PROVE  TripsInv'
<1>0. TypeOK
  BY DEF TripsInv
<1>1. PICK b \in Blocks :
        /\ Live(b)
        /\ block' = [block EXCEPT ![b] = "deleted"]
        /\ Watched(b, [r \in Requests |-> FALSE], FALSE)
  BY DEF DeleteBlock
<1>2. UNCHANGED <<trip, present, place, purge>>
  BY DEF DeleteBlock
<1>3. /\ job' \in [Requests -> JobType]
      /\ \A r \in Requests :
           /\ Copying(r)' <=> Copying(r)
           /\ Copying(r) =>
                /\ job'[r].do = job[r].do /\ job'[r].selected = job[r].selected
                /\ job'[r].left = job[r].left /\ job'[r].copies = job[r].copies
                /\ job'[r].there = job[r].there \ {b}
                /\ job'[r].still = job[r].still \ {b}
  <2> DEFINE keeps == [r \in Requests |-> FALSE]
  <2>1. \A r \in Requests : ~keeps[r]
    OBVIOUS
  <2>2. Watched(b, keeps, FALSE)
    BY <1>1
  <2> HIDE DEF keeps
  <2>3. /\ job' \in [Requests -> JobType]
        /\ \A r \in Requests :
             /\ Copying(r)' <=> Copying(r)
             /\ Copying(r) =>
                  /\ job'[r].do = job[r].do /\ job'[r].selected = job[r].selected
                  /\ job'[r].left = job[r].left /\ job'[r].copies = job[r].copies
                  /\ job'[r].there = IF keeps[r] THEN job[r].there ELSE job[r].there \ {b}
                  /\ job'[r].still = IF FALSE THEN job[r].still ELSE job[r].still \ {b}
    BY <1>0, <2>2, WatchedJobs
  <2> QED
    BY <2>1, <2>3
<1>4. TypeOK'
  BY <1>0, <1>1, <1>2, <1>3 DEF TypeOK, RowStates
<1>5. \A a \in Blocks \ {b} : block'[a] = block[a]
  BY <1>0, <1>1 DEF TypeOK
<1>6. ASSUME NEW r \in Requests, Copying(r)' PROVE CopySound(job[r])'
  <2>0. CopySound(job[r]) /\ job[r] \in CopyJob
    BY <1>0, <1>3, <1>6, JobCases DEF TripsInv
  <2>1. job[r].still \subseteq Blocks /\ job[r].there \subseteq Blocks
    BY <2>0 DEF CopyJob
  <2>2. /\ job'[r].do = job[r].do /\ job'[r].selected = job[r].selected
        /\ job'[r].left = job[r].left /\ job'[r].copies = job[r].copies
        /\ job'[r].there = job[r].there \ {b}
        /\ job'[r].still = job[r].still \ {b}
    BY <1>3, <1>6
  <2> QED
    BY <1>2, <1>5, <2>0, <2>1, <2>2 DEF CopySound, On, Live
<1> QED
  BY <1>4, <1>6 DEF TripsInv

LEMMA TripsStep == TripsInv /\ [Next]_vars => TripsInv'
<1> SUFFICES ASSUME TripsInv, [Next]_vars PROVE TripsInv'
  OBVIOUS
<1>0. TypeOK
  BY DEF TripsInv
<1>1. CASE MoveBlock
  BY <1>1, MoveStep
<1>2. CASE DeleteBlock
  BY <1>2, DeleteStep
<1>3. CASE AddDay
  <2>1. TypeOK'
    BY <1>0, <1>3 DEF AddDay, TypeOK
  <2> QED
    BY <1>3, <2>1, RowStep DEF AddDay
<1>4. CASE RestoreBlock
  <2>1. PICK b \in Blocks : block' = [block EXCEPT ![b] = "live"]
    BY <1>4 DEF RestoreBlock
  <2>2. UNCHANGED <<trip, present, place, purge, job>>
    BY <1>4 DEF RestoreBlock
  <2>3. TypeOK' /\ \A a \in Blocks : block[a] = "live" => block'[a] = "live"
    BY <1>0, <2>1, <2>2 DEF TypeOK, RowStates
  <2> QED
    BY <2>2, <2>3, RowStep
<1>5. CASE Remove
  <2>1. TypeOK'
    BY <1>0, <1>5 DEF Remove, TypeOK, RowStates
  <2> QED
    BY <1>5, <2>1, RowStep DEF Remove
<1>6. CASE Expire
  <2>1. TypeOK' /\ \A a \in Blocks : block[a] = "live" => block'[a] = "live"
    BY <1>0, <1>6 DEF Expire, TypeOK, RowStates
  <2> QED
    BY <1>6, <2>1, RowStep DEF Expire
<1>7. CASE PurgeRead
  <2>1. TypeOK'
    BY <1>0, <1>7 DEF PurgeRead, TypeOK
  <2> QED
    BY <1>7, <2>1, RowStep DEF PurgeRead
<1>8. CASE PurgeWrite
  <2>1. /\ block' \in [Blocks -> RowStates]
        /\ \A a \in Blocks : block[a] = "live" => block'[a] = "live"
    BY <1>0, <1>8 DEF PurgeWrite, TypeOK, RowStates
  <2>2. TypeOK'
    BY <1>0, <1>8, <2>1 DEF PurgeWrite, TypeOK
  <2> QED
    BY <1>8, <2>1, <2>2, RowStep DEF PurgeWrite
<1>9. ASSUME NEW r \in Requests, Fork(r) \/ Duplicate(r) PROVE TripsInv'
  BY <1>9, StartStep DEF Fork, Duplicate
<1>10. ASSUME NEW r \in Requests, ForkBlocks(r) PROVE TripsInv'
  BY <1>10, CopyStep DEF ForkBlocks, Copying
<1>11. ASSUME NEW r \in Requests, DuplicateDay(r) PROVE TripsInv'
  <2>1. PICK d \in job[r].left : CopyOf(r, {d})
    BY <1>11 DEF DuplicateDay
  <2> QED
    BY <1>11, <2>1, CopyStep DEF DuplicateDay, Copying
<1>12. ASSUME NEW r \in Requests, FinishCopy(r) \/ RestoreWrite(r) PROVE TripsInv'
  <2>1. /\ job' = [job EXCEPT ![r] = Idle]
        /\ UNCHANGED <<present, block, place, purge>> /\ trip' \in RowStates
    BY <1>0, <1>12 DEF FinishCopy, RestoreWrite, TypeOK, RowStates
  <2>2. Idle.do = "nothing"
    BY DEF Idle
  <2> QED
    BY <2>1, <2>2, JobStep, JobTypes
<1>13. ASSUME NEW r \in Requests, RestoreRead(r) PROVE TripsInv'
  <2> DEFINE j == [do |-> "restore"]
  <2>1. /\ job' = [job EXCEPT ![r] = j]
        /\ UNCHANGED <<present, block, place, purge>> /\ trip' \in RowStates
    BY <1>0, <1>13 DEF RestoreRead, TypeOK
  <2>2. j.do = "restore" /\ j \in JobType
    BY JobTypes
  <2> HIDE DEF j
  <2> QED
    BY <2>1, <2>2, JobStep
<1>14. CASE UNCHANGED vars
  <2>1. TypeOK'
    BY <1>0, <1>14 DEF vars, TypeOK
  <2> QED
    BY <1>14, <2>1, RowStep DEF vars
<1> QED
  BY <1>1, <1>2, <1>3, <1>4, <1>5, <1>6, <1>7, <1>8, <1>9, <1>10, <1>11, <1>12, <1>13, <1>14 DEF Next

\* The rows of a trip, of its blocks and of what is being copied stay typed; a
\* block is read at most once for every day of the plan.
THEOREM TripsTypes == Spec => []TypeOK
<1>1. TripsInv => TypeOK
  BY DEF TripsInv
<1> QED
  BY <1>1, TripsStarts, TripsStep, PTL DEF Spec

\* A copy has every block once that stayed where its reads could see it,
\* whatever is moved, deleted, restored or purged between its statements.
THEOREM TripsCopiesExact == Spec => []CopiesExact
<1>1. TripsInv => CopiesExact
  <2> SUFFICES ASSUME TripsInv, NEW r \in Requests, Copied(r)
               PROVE  /\ job[r].do = "fork" =>
                           \A b \in Blocks : job[r].copies[b] <= 1
                                             /\ (b \in job[r].there => job[r].copies[b] = 1)
                      /\ \A b \in job[r].still : job[r].copies[b] = 1
    BY DEF CopiesExact
  <2>1. CopySound(job[r]) /\ job[r].left = {} /\ job[r] \in CopyJob
    BY JobCases DEF TripsInv, Copied
  <2>2. \A b \in job[r].still : job[r].copies[b] = 1
    BY <2>1 DEF CopySound
  <2>3. ASSUME job[r].do = "fork", job[r].left = job[r].selected,
               job[r].there \subseteq On(job[r].selected), NEW b \in Blocks, job[r].copies[b] = 0
        PROVE  job[r].copies[b] <= 1 /\ b \notin job[r].there
    BY <2>1, <2>3 DEF On
  <2> QED
    BY <2>1, <2>2, <2>3 DEF CopySound
<1> QED
  BY <1>1, TripsStarts, TripsStep, PTL DEF Spec
=============================================================================
