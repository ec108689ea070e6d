------------------------------- MODULE Canvas -------------------------------
(***************************************************************************)
(* The blocks of one plan, their order within the days, the suggestions    *)
(* that become blocks and the expenses that point at blocks                *)
(* (modules/canvas: blocks; modules/collab: suggestions; the block link of *)
(* modules/ledger).                                                        *)
(*                                                                         *)
(* No handler here takes a lock.  Each reads in one step and commits its   *)
(* writes in a later one, and their UPDATEs name rows by id alone; only    *)
(* updateBlock compares a version.  Two transactions that rewrite the      *)
(* order of the same rows meet on the row locks and commit one after the   *)
(* other (or one is aborted).  A deletion is seen at work: between its     *)
(* statements and its commit it holds the row of the block.                *)
(*                                                                         *)
(* Left out: the fields of a block other than one text, roles (Policy),    *)
(* the numbers of the days (DayNumbers), the refusal to move a block       *)
(* between plans, as there is one here.                                    *)
(***************************************************************************)
EXTENDS Integers, FiniteSets, Sequences

CONSTANTS
  Blocks,       \* ids of blocks
  Days,         \* days of the plan
  Suggestions,  \* ids of suggestions
  Expenses,     \* ids of expenses
  Texts,        \* what the fields of a block hold
  Requests,     \* requests under way at one time
  BlockLimit,   \* limits.blocksPerDay
  MaxVersion,   \* a block is edited up to this version: a bound
  MaxSort,      \* places are given up to this one: a bound
  None          \* null

ASSUME ConstantsAssumption ==
  /\ None \notin Blocks \cup Days \cup Suggestions
  /\ Texts # {} /\ \A t \in Texts : Texts # {t}
  /\ BlockLimit \in Nat \ {0} /\ MaxVersion \in Nat \ {0}
  /\ MaxSort \in Nat \ {0} /\ MaxSort >= Cardinality(Blocks)

ASSUME FiniteAssumption == IsFiniteSet(Blocks) /\ IsFiniteSet(Days)

VARIABLES
  present,     \* the days that have a row
  row,         \* the rows of blocks
  suggestion,  \* the rows of suggestions
  expense,     \* expenses.block_id; None also where there is no expense
  job          \* what each request is doing and what it has read

vars == <<present, row, suggestion, expense, job>>
rows == <<present, row, suggestion, expense>>

\* of: the suggestion a block was made from (history: the code keeps only the
\* pointer the other way). sort is sort_order in units of SORT_STEP.
BlockType ==
  [day : Days, sort : 1..MaxSort, deleted : BOOLEAN, version : 1..MaxVersion,
   text : Texts, of : Suggestions \cup {None}]
NoBlock == [deleted |-> TRUE, version |-> 0, text |-> None]

SuggestionType ==
  [status : {"PENDING", "ACCEPTED", "REJECTED", "WITHDRAWN"}, block : Blocks \cup {None}]
NoSuggestion == [status |-> "none"]

Ordering == UNION {[1..n -> Blocks] : n \in 0..Cardinality(Blocks)}

Idle == [do |-> "nothing", overtaken |-> FALSE]
JobType ==
  {Idle} \cup
  [do : {"add"}, day : Days, sort : 1..MaxSort, overtaken : BOOLEAN] \cup
  [do : {"edit"}, block : Blocks, version : 1..MaxVersion, text : Texts,
   overtaken : BOOLEAN] \cup
  [do : {"delete"}, block : Blocks, unlinked : SUBSET Expenses, overtaken : BOOLEAN] \cup
  [do : {"expense"}, block : Blocks, overtaken : BOOLEAN] \cup
  [do : {"move"}, block : Blocks, day : Days, order : Ordering, overtaken : BOOLEAN] \cup
  [do : {"reorder"}, day : Days, order : Ordering, overtaken : BOOLEAN] \cup
  [do : {"review"}, suggestion : Suggestions, day : Days \cup {None},
   sort : 1..MaxSort, overtaken : BOOLEAN]

TypeOK ==
  /\ present \subseteq Days
  /\ row \in [Blocks -> BlockType \cup {NoBlock}]
  /\ suggestion \in [Suggestions -> SuggestionType \cup {NoSuggestion}]
  /\ expense \in [Expenses -> Blocks \cup {None}]
  /\ job \in [Requests -> JobType]

Exists(b) == row[b] # NoBlock
Live(b) == ~row[b].deleted
On(d) == {b \in Blocks : Live(b) /\ row[b].day = d}

\* (mutant) the next place is counted off the live blocks.
SortByCount(d) == Cardinality(On(d)) + 1

\* maxSortOrder, one step on.
NextSort(d) ==
  CHOOSE n \in 1..(MaxSort + 1) :
    /\ \A b \in On(d) : row[b].sort < n
    /\ n = 1 \/ \E b \in On(d) : row[b].sort = n - 1

\* What ORDER BY sort_order may return of some blocks: ties come in any order.
Listings(bs) ==
  {list \in [1..Cardinality(bs) -> bs] :
     /\ {list[i] : i \in DOMAIN list} = bs
     /\ \A i, j \in DOMAIN list : i < j => row[list[i]].sort <= row[list[j]].sort}

\* Two writes of one loop to the same row: the later one stays.
LastAt(order, b) ==
  CHOOSE i \in DOMAIN order : order[i] = b /\ \A j \in DOMAIN order : order[j] = b => j <= i

Sorted(blocks, order) ==
  [b \in Blocks |->
     IF blocks[b] # NoBlock /\ \E i \in DOMAIN order : order[i] = b
     THEN [blocks[b] EXCEPT !.sort = LastAt(order, b)] ELSE blocks[b]]

Init ==
  /\ present = Days
  /\ row = [b \in Blocks |-> NoBlock]
  /\ suggestion = [s \in Suggestions |-> NoSuggestion]
  /\ expense = [e \in Expenses |-> None]
  /\ job = [r \in Requests |-> Idle]

Begins(r, ask) == job[r] = Idle /\ job' = [job EXCEPT ![r] = ask] /\ UNCHANGED rows

\* r is done and the requests that have read are overtaken.
Commits(r) ==
  job' = [q \in Requests |->
            IF q = r \/ job[q] = Idle THEN Idle ELSE [job[q] EXCEPT !.overtaken = TRUE]]

Fails(r) == job' = [job EXCEPT ![r] = Idle] /\ UNCHANGED rows

\* A deletion that has written but not committed holds the row: other writers
\* of it wait, whoever reads it sees it as it was, and so does the foreign key of
\* an expense, which asks for a weaker lock.
Held(b) == \E r \in Requests : job[r].do = "delete" /\ job[r].block = b

-----------------------------------------------------------------------------
(* Blocks.                                                                   *)

NewBlock(d, sort, s) ==
  [day |-> d, sort |-> sort, deleted |-> FALSE, version |-> 1,
   text |-> CHOOSE t \in Texts : TRUE, of |-> s]

\* The blocks a request under way has read: nobody is given their ids again.
Names(j) ==
  (IF j.do \in {"edit", "expense", "move"} THEN {j.block} ELSE {})
    \cup (IF j.do \in {"move", "reorder"} THEN {j.order[i] : i \in DOMAIN j.order} ELSE {})

\* A block is made only while an id and a place are free: bounds.
FreeIds == {b \in Blocks : ~Exists(b) /\ \A r \in Requests : b \notin Names(job[r])}
Insert(d, sort, s, b) == row' = [row EXCEPT ![b] = NewBlock(d, sort, s)]

AddRead(r) ==
  \E d \in present :
    /\ Cardinality(On(d)) < BlockLimit
    /\ FreeIds # {} /\ NextSort(d) <= MaxSort
    /\ Begins(r, [do |-> "add", day |-> d, sort |-> NextSort(d), overtaken |-> FALSE])

AddWrite(r) ==
  /\ job[r].do = "add"
  /\ IF job[r].day \in present /\ FreeIds # {}
     THEN /\ \E b \in FreeIds : Insert(job[r].day, job[r].sort, None, b)
          /\ Commits(r)
          /\ UNCHANGED <<present, suggestion, expense>>
     ELSE Fails(r)

\* The client edits what it has loaded.
EditLoad(r) ==
  \E b \in Blocks :
    /\ Live(b)
    /\ row[b].version < MaxVersion
    /\ Begins(r, [do |-> "edit", block |-> b, version |-> row[b].version,
                  text |-> row[b].text, overtaken |-> FALSE])

\* An edit changes the text.
Edited(b, t) == [row EXCEPT ![b].text = t, ![b].version = @ + 1]

\* (mutant) the version is not moved on.
EditUnversioned(r) ==
  /\ job[r].do = "edit"
  /\ LET b == job[r].block IN
     \/ /\ ~Live(b) \/ row[b].version # job[r].version
        /\ Fails(r)
     \/ /\ Exists(b) /\ row[b].version = job[r].version /\ ~Held(b)
        /\ \E t \in Texts \ {row[b].text} : row' = [row EXCEPT ![b].text = t]
        /\ Commits(r)
        /\ UNCHANGED <<present, suggestion, expense>>

\* requireBlock refuses a deleted block, the UPDATE would not; a block can be
\* deleted between the two.
EditWrite(r) ==
  /\ job[r].do = "edit"
  /\ LET b == job[r].block IN
     \/ /\ ~Live(b) \/ row[b].version # job[r].version
        /\ Fails(r)
     \/ /\ Exists(b) /\ row[b].version = job[r].version /\ ~Held(b)
        /\ \E t \in Texts \ {row[b].text} : row' = Edited(b, t)
        /\ Commits(r)
        /\ UNCHANGED <<present, suggestion, expense>>

\* requireBlock wants a block that is live, as this one once was; the UPDATE
\* does not. So a read of any age allows the write. The second UPDATE settles
\* which expenses it unlinks; both show when they commit.
DeleteUnlink(r) ==
  \E b \in Blocks :
    /\ Exists(b) /\ ~Held(b)
    /\ Begins(r, [do |-> "delete", block |-> b,
                  unlinked |-> {e \in Expenses : expense[e] = b}, overtaken |-> FALSE])

\* (mutant) the expenses keep their link.
DeleteOnly(r) ==
  /\ job[r].do = "delete"
  /\ row' = [row EXCEPT ![job[r].block].deleted = TRUE]
  /\ Commits(r)
  /\ UNCHANGED <<present, suggestion, expense>>

DeleteCommit(r) ==
  /\ job[r].do = "delete"
  /\ row' = [row EXCEPT ![job[r].block].deleted = TRUE]
  /\ expense' = [e \in Expenses |-> IF e \in job[r].unlinked THEN None ELSE expense[e]]
  /\ Commits(r)
  /\ UNCHANGED <<present, suggestion>>

\* Neither the limit nor the order of the day is looked at.
RestoreBlock(r) ==
  /\ job[r] = Idle
  /\ \E b \in Blocks : Exists(b) /\ ~Held(b) /\ row' = [row EXCEPT ![b].deleted = FALSE]
  /\ Commits(r)
  /\ UNCHANGED <<present, suggestion, expense>>

\* The others of the target day, with the block put in at an index.
PutIn(others, b, index) ==
  LET i == IF index < Len(others) THEN index ELSE Len(others)
  IN SubSeq(others, 1, i) \o <<b>> \o SubSeq(others, i + 1, Len(others))

MoveRead(r) ==
  \E b \in Blocks, d \in present, index \in 0..BlockLimit :
    /\ Live(b)
    /\ \E others \in Listings(On(d) \ {b}) :
         Begins(r, [do |-> "move", block |-> b, day |-> d, order |-> PutIn(others, b, index),
                    overtaken |-> FALSE])

MoveWrite(r) ==
  /\ job[r].do = "move"
  /\ \A b \in Names(job[r]) : ~Held(b)
  /\ LET b == job[r].block IN
     IF ~Exists(b) \/ job[r].day \in present
     THEN /\ row' = Sorted(IF Exists(b) THEN [row EXCEPT ![b].day = job[r].day] ELSE row,
                           job[r].order)
          /\ Commits(r)
          /\ UNCHANGED <<present, suggestion, expense>>
     ELSE Fails(r)

\* The list must be as long as the day and name only its blocks: it may name
\* one of them twice.
ReorderRead(r) ==
  \E d \in present : \E order \in [1..Cardinality(On(d)) -> On(d)] :
    /\ order # <<>>
    /\ Begins(r, [do |-> "reorder", day |-> d, order |-> order, overtaken |-> FALSE])

ReorderWrite(r) ==
  /\ job[r].do = "reorder"
  /\ \A b \in Names(job[r]) : ~Held(b)
  /\ row' = Sorted(row, job[r].order)
  /\ Commits(r)
  /\ UNCHANGED <<present, suggestion, expense>>

\* deleteDay and a truncated trip, as the blocks see them: the rows cascade.
\* One day stays: a bound.
DropDay ==
  /\ Cardinality(present) > 1
  /\ \E d \in present :
       LET gone == {b \in Blocks : Exists(b) /\ row[b].day = d} IN
       /\ \A b \in gone : ~Held(b)
       /\ present' = present \ {d}
       /\ row' = [b \in Blocks |-> IF b \in gone THEN NoBlock ELSE row[b]]
       /\ expense' = [e \in Expenses |-> IF expense[e] \in gone THEN None ELSE expense[e]]
       /\ suggestion' = [s \in Suggestions |->
            IF suggestion[s] # NoSuggestion /\ suggestion[s].block \in gone
            THEN [suggestion[s] EXCEPT !.block = None] ELSE suggestion[s]]
  /\ job' = [q \in Requests |->
               IF job[q] = Idle THEN Idle ELSE [job[q] EXCEPT !.overtaken = TRUE]]

-----------------------------------------------------------------------------
(* Expenses: createExpense, as far as its block goes.                        *)

ExpenseRead(r) ==
  \E b \in Blocks :
    Live(b) /\ Begins(r, [do |-> "expense", block |-> b, overtaken |-> FALSE])

ExpenseWrite(r) ==
  /\ job[r].do = "expense"
  /\ \/ /\ Exists(job[r].block)
        /\ \E e \in Expenses :
             expense[e] = None /\ expense' = [expense EXCEPT ![e] = job[r].block]
        /\ Commits(r)
        /\ UNCHANGED <<present, row, suggestion>>
     \/ /\ ~Exists(job[r].block) \/ \A e \in Expenses : expense[e] # None
        /\ Fails(r)

-----------------------------------------------------------------------------
(* Suggestions.                                                              *)

CreateSuggestion(r) ==
  /\ job[r] = Idle
  /\ \E s \in Suggestions :
       /\ suggestion[s] = NoSuggestion
       /\ suggestion' = [suggestion EXCEPT ![s] = [status |-> "PENDING", block |-> None]]
  /\ Commits(r)
  /\ UNCHANGED <<present, row, expense>>

\* (mutant) a settled suggestion may be reviewed again.
ReviewAgain(r) ==
  \E s \in Suggestions :
    /\ suggestion[s] # NoSuggestion
    /\ \/ \E d \in present :
            Begins(r, [do |-> "review", suggestion |-> s, day |-> d, sort |-> NextSort(d),
                       overtaken |-> FALSE])
       \/ Begins(r, [do |-> "review", suggestion |-> s, day |-> None, sort |-> 1,
                     overtaken |-> FALSE])

\* An acceptance names a day (the reviewer's or the suggestion's), a rejection
\* does not.
ReviewRead(r) ==
  \E s \in Suggestions :
    /\ suggestion[s].status = "PENDING"
    /\ \/ \E d \in present :
            /\ FreeIds # {} /\ NextSort(d) <= MaxSort
            /\ Begins(r, [do |-> "review", suggestion |-> s, day |-> d, sort |-> NextSort(d),
                          overtaken |-> FALSE])
       \/ Begins(r, [do |-> "review", suggestion |-> s, day |-> None, sort |-> 1,
                     overtaken |-> FALSE])

Settled(s, status, b) ==
  suggestion' = [suggestion EXCEPT ![s] = [status |-> status, block |-> b]]

\* The limit of blocks is not looked at; the status is not looked at again.
ReviewWrite(r) ==
  /\ job[r].do = "review"
  /\ LET s == job[r].suggestion IN
     \/ /\ job[r].day = None
        /\ Settled(s, "REJECTED", None)
        /\ Commits(r)
        /\ UNCHANGED <<present, row, expense>>
     \/ /\ job[r].day \in present
        /\ \E b \in FreeIds :
             Insert(job[r].day, job[r].sort, s, b) /\ Settled(s, "ACCEPTED", b)
        /\ Commits(r)
        /\ UNCHANGED <<present, expense>>
     \/ /\ job[r].day # None
        /\ job[r].day \notin present \/ FreeIds = {}
        /\ Fails(r)

\* The proposer withdraws, whatever became of the suggestion.
Withdraw(r) ==
  /\ job[r] = Idle
  /\ \E s \in Suggestions :
       /\ suggestion[s].status # "none"
       /\ suggestion' = [suggestion EXCEPT ![s].status = "WITHDRAWN"]
  /\ Commits(r)
  /\ UNCHANGED <<present, row, expense>>

-----------------------------------------------------------------------------
Step(r) ==
  \/ AddRead(r) \/ AddWrite(r)
  \/ EditLoad(r) \/ EditWrite(r)
  \/ DeleteUnlink(r) \/ DeleteCommit(r) \/ RestoreBlock(r)
  \/ MoveRead(r) \/ MoveWrite(r)
  \/ ReorderRead(r) \/ ReorderWrite(r)
  \/ ExpenseRead(r) \/ ExpenseWrite(r)
  \/ CreateSuggestion(r) \/ ReviewRead(r) \/ ReviewWrite(r) \/ Withdraw(r)

Next == DropDay \/ \E r \in Requests : Step(r)

Spec == Init /\ [][Next]_vars

-----------------------------------------------------------------------------
Finishes(r) == job[r] # Idle /\ job'[r] = Idle

\* An edit is only ever made to the text its author had loaded, whatever
\* moves, deletes, restores and other edits came between (the version
\* updateBlock compares; the other writers leave it alone).
NoEditLost ==
  [][\A r \in Requests :
       Finishes(r) /\ job[r].do = "edit" /\ row' # row =>
         row[job[r].block].text = job[r].text]_vars

\* An expense comes to point at a deleted block only if the request that wrote
\* it was overtaken after it had seen the block, or the deletion was overtaken
\* after it had unlinked the expenses it could see (FR-SPLIT-09).
LinksLive(e) == expense[e] # None => Live(expense[e])
DeadLinkOnlyWhenOvertaken ==
  [][\A e \in Expenses : LinksLive(e) /\ ~LinksLive(e)' =>
       \E r \in Requests :
         Finishes(r) /\ job[r].do \in {"expense", "delete"} /\ job[r].overtaken]_vars

\* The pointer of a suggestion is to a block made from it. What decides one is a
\* review, which makes nothing or makes exactly the block it points to, and one
\* that nobody overtook finds the suggestion pending with nothing made from it;
\* a withdrawal keeps the pointer and makes nothing (reviewSuggestion reads the
\* status without a lock, withdrawSuggestion does not read it).
MadeFrom(s) == {b \in Blocks : Exists(b) /\ row[b].of = s}
Pointed(s) == IF suggestion[s] = NoSuggestion THEN None ELSE suggestion[s].block
Made(s) == MadeFrom(s)' \ MadeFrom(s)
Reviewed(r, s) ==
  /\ Finishes(r) /\ job[r].do = "review" /\ job[r].suggestion = s
  /\ \/ suggestion'[s].status = "REJECTED" /\ Made(s) = {} /\ Pointed(s)' = None
     \/ suggestion'[s].status = "ACCEPTED" /\ Made(s) = {Pointed(s)'}
  /\ ~job[r].overtaken => suggestion[s].status = "PENDING" /\ MadeFrom(s) = {}
DecidedOnce ==
  [][\A s \in Suggestions :
       /\ Pointed(s)' # None => Pointed(s)' \in MadeFrom(s)'
       /\ suggestion'[s].status # suggestion[s].status \/ Made(s) # {} =>
            \/ /\ suggestion[s] = NoSuggestion /\ suggestion'[s].status = "PENDING"
               /\ Made(s) = {} /\ Pointed(s)' = None
            \/ /\ suggestion'[s].status = "WITHDRAWN"
               /\ Made(s) = {} /\ Pointed(s)' = Pointed(s)
            \/ \E r \in Requests : Reviewed(r, s)]_vars

\* Two blocks of a day get the same place only by a restore, by a reordering
\* that names a block twice, or by a request another one overtook: otherwise
\* the order of a day is settled (sort_order, which nothing keeps unique).
Tied(d) == \E b, c \in On(d) : b # c /\ row[b].sort = row[c].sort
RepeatsBlock(order) == \E i, j \in DOMAIN order : i # j /\ order[i] = order[j]
OrderSettled ==
  [][\A d \in Days : ~Tied(d) /\ Tied(d)' =>
       \/ \E b \in Blocks : Exists(b) /\ ~Live(b) /\ Live(b)'
       \/ \E r \in Requests :
            /\ Finishes(r)
            /\ job[r].overtaken \/ (job[r].do = "reorder" /\ RepeatsBlock(job[r].order))]_vars
=============================================================================
