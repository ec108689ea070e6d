------------------------------ MODULE Variants ------------------------------
(***************************************************************************)
(* The plans of one trip, which of them is the main one, and the public    *)
(* link that shows one of them to strangers (modules/canvas: variants;     *)
(* modules/sharing: the link and the page).                                *)
(*                                                                         *)
(* The main plan is kept twice, as variants.is_main and as                 *)
(* trips.main_variant_id: the editor reads the first and the public page   *)
(* the second.  A request reads in one step and commits its writes in a    *)
(* later one.  In between others commit; a request that one of them        *)
(* overtook decides on rows that have changed.                             *)
(*                                                                         *)
(* TripsService.duplicate copies the pointer and the marks in two          *)
(* statements, so a copy may start with the two in disagreement.  The      *)
(* module follows one trip; when it is duplicated it goes on with either   *)
(* the original or the copy.                                               *)
(*                                                                         *)
(* Left out: names, the copy a fork makes (module Canvas), the password,   *)
(* the view counter and the audit rows, which no decision here reads.      *)
(***************************************************************************)
EXTENDS Integers, FiniteSets

CONSTANTS
  Variants,      \* ids of plans
  Slugs,         \* random slugs: none is drawn twice
  Requests,      \* requests under way at one time
  VariantLimit,  \* limits.variantsPerTrip
  None           \* null

ASSUME ConstantsAssumption ==
  /\ None \notin Variants \cup Slugs
  /\ VariantLimit \in Nat \ {0}

ASSUME FiniteAssumption == IsFiniteSet(Variants) /\ IsFiniteSet(Requests)

VARIABLES
  variant,  \* "none": no row; otherwise is_main of the row as "plain" or "main"
  pointer,  \* trips.main_variant_id
  link,     \* share_links: a row, Unused, or Revoked once deleted
  job,      \* what each request is doing and what it has read
  torn      \* history: duplicated while the pointer changed, not promoted since

variantsVars == <<variant, pointer, link, job, torn>>

Expiries == {"never", "later", "past"}
LinkType ==
  [enabled : {"on", "off"}, expires : Expiries, variant : Variants \cup {None}]
Unused == [deleted |-> FALSE]
Revoked == [deleted |-> TRUE]

\* ShareSettings: a field that is not sent keeps its value. A request changes
\* one field: a bound.
Keep == [enabled |-> "keep", expires |-> "keep", variant |-> None]
Settings ==
  {Keep} \cup
  {[Keep EXCEPT !.enabled = e] : e \in {"on", "off"}} \cup
  {[Keep EXCEPT !.expires = e] : e \in {"never", "later"}} \cup
  {[Keep EXCEPT !.variant = v] : v \in Variants}

\* overtaken: another request committed since this one read.
Idle == [do |-> "nothing", overtaken |-> FALSE]
JobType ==
  {Idle} \cup
  [do : {"create"}, fork : Variants \cup {None}, overtaken : BOOLEAN] \cup
  [do : {"promote"}, variant : Variants, mains : SUBSET Variants, overtaken : BOOLEAN] \cup
  [do : {"delete"}, variant : Variants, overtaken : BOOLEAN] \cup
  [do : {"upsert"}, slug : Slugs \cup {None}, asked : Settings, patch : LinkType,
   overtaken : BOOLEAN] \cup
  [do : {"revoke"}, slug : Slugs, overtaken : BOOLEAN] \cup
  [do : {"duplicate"}, named : Variants \cup {None}, overtaken : BOOLEAN]

VariantsTypeOK ==
  /\ variant \in [Variants -> {"none", "plain", "main"}]
  /\ pointer \in Variants \cup {None}
  /\ link \in [Slugs -> LinkType \cup {Unused, Revoked}]
  /\ job \in [Requests -> JobType]
  /\ torn \in BOOLEAN

Exists(v) == variant[v] # "none"
Plans == {v \in Variants : Exists(v)}
Mains(rows) == {v \in Variants : rows[v] = "main"}
IsRow(l) == l \notin {Unused, Revoked}
Links(rows) == {s \in Slugs : IsRow(rows[s])}

\* (mutant) no unique indexes.
NoIndex(set) == TRUE

\* one_main_per_trip and one_link_per_trip, on what a transaction would commit.
AtMostOne(set) == Cardinality(set) <= 1

\* trips.create: the first plan is the main one, in both places.
VariantsInit ==
  /\ \E first \in Variants :
       /\ variant = [v \in Variants |-> IF v = first THEN "main" ELSE "none"]
       /\ pointer = first
  /\ link = [s \in Slugs |-> Unused]
  /\ job = [r \in Requests |-> Idle]
  /\ torn = FALSE

Begins(r, ask) == job[r] = Idle /\ job' = [job EXCEPT ![r] = ask]

Commits(r) ==
  job' = [q \in Requests |->
            IF q = r \/ job[q] = Idle THEN Idle ELSE [job[q] EXCEPT !.overtaken = TRUE]]

Fails(r) == job' = [job EXCEPT ![r] = Idle] /\ UNCHANGED <<variant, pointer, link, torn>>

-----------------------------------------------------------------------------
(* Plans.                                                                    *)

CreateRead(r) ==
  /\ Cardinality(Plans) < VariantLimit
  /\ \E source \in Plans \cup {None} :
       Begins(r, [do |-> "create", fork |-> source, overtaken |-> FALSE])
  /\ UNCHANGED <<variant, pointer, link, torn>>

\* A fork whose source is gone by now is refused.
CreateInsert(r) ==
  /\ job[r].do = "create"
  /\ IF job[r].fork \in Plans \cup {None}
     THEN /\ \E v \in Variants \ Plans : variant' = [variant EXCEPT ![v] = "plain"]
          /\ Commits(r)
          /\ UNCHANGED <<pointer, link, torn>>
     ELSE Fails(r)

\* Which rows the statement that clears the old main matches is settled when
\* it starts; it then waits for the locks of other transactions.
PromoteRead(r) ==
  /\ \E v \in Plans :
       Begins(r, [do |-> "promote", variant |-> v, mains |-> Mains(variant),
                  overtaken |-> FALSE])
  /\ UNCHANGED <<variant, pointer, link, torn>>

\* The rows once the old main is cleared and the new one set; setting the
\* flag of a deleted plan matches no row.
Promoted(promotion) ==
  [v \in Variants |->
     IF ~Exists(v) THEN "none"
     ELSE IF v = promotion.variant THEN "main"
     ELSE IF v \in promotion.mains THEN "plain"
     ELSE variant[v]]

\* The commit checks the index and that the plan trips now names exists.
PromoteWrite(r) ==
  /\ job[r].do = "promote"
  /\ IF AtMostOne(Mains(Promoted(job[r]))) /\ Exists(job[r].variant)
     THEN /\ variant' = Promoted(job[r])
          /\ pointer' = job[r].variant
          /\ torn' = FALSE
          /\ Commits(r)
          /\ UNCHANGED link
     ELSE Fails(r)

\* (mutant) the main plan may be deleted like any other.
DeleteAnyRead(r) ==
  /\ \E v \in Plans : Begins(r, [do |-> "delete", variant |-> v, overtaken |-> FALSE])
  /\ UNCHANGED <<variant, pointer, link, torn>>

DeleteRead(r) ==
  /\ \E v \in Plans \ Mains(variant) :
       Begins(r, [do |-> "delete", variant |-> v, overtaken |-> FALSE])
  /\ UNCHANGED <<variant, pointer, link, torn>>

\* ON DELETE SET NULL, in trips and in share_links.
Unlinked(l, v) == IF IsRow(l) /\ l.variant = v THEN [l EXCEPT !.variant = None] ELSE l

DeleteWrite(r) ==
  /\ job[r].do = "delete"
  /\ LET v == job[r].variant IN
       /\ variant' = [variant EXCEPT ![v] = "none"]
       /\ pointer' = IF pointer = v THEN None ELSE pointer
       /\ link' = [s \in Slugs |-> Unlinked(link[s], v)]
  /\ Commits(r)
  /\ UNCHANGED torn

-----------------------------------------------------------------------------
(* A duplicate of the trip.                                                  *)

\* `findById` reads the pointer of the source.
DuplicateRead(r) ==
  /\ Begins(r, [do |-> "duplicate", named |-> pointer, overtaken |-> FALSE])
  /\ UNCHANGED <<variant, pointer, link, torn>>

\* The next statement reads the plans with their marks. The copy has them all,
\* under ids of its own that keep their names here, and none of the links; its
\* pointer goes through `variantIdMap`. Other requests remain with the source.
DuplicateWrite(r) ==
  /\ job[r].do = "duplicate"
  /\ \/ Fails(r)
     \/ /\ pointer' = IF job[r].named \in Plans THEN job[r].named ELSE None
        /\ torn' = (torn \/ job[r].named # pointer)
        /\ link' = [s \in Slugs |-> IF link[s] = Unused THEN Unused ELSE Revoked]
        /\ job' = [q \in Requests |-> Idle]
        /\ UNCHANGED variant

-----------------------------------------------------------------------------
(* The public link.                                                          *)

Default == [enabled |-> "on", expires |-> "never", variant |-> None]

\* Every field of the row, from the request or else from the row as read.
Patch(asked, existing) ==
  [enabled |-> IF asked.enabled = "keep" THEN existing.enabled ELSE asked.enabled,
   expires |-> IF asked.expires = "keep" THEN existing.expires ELSE asked.expires,
   variant |-> IF asked.variant = None THEN existing.variant ELSE asked.variant]

UpsertRead(r) ==
  /\ \E asked \in Settings :
       /\ asked.variant \in Plans \cup {None}
       /\ IF Links(link) = {}
          THEN Begins(r, [do |-> "upsert", slug |-> None, asked |-> asked,
                          patch |-> Patch(asked, Default), overtaken |-> FALSE])
          ELSE \E s \in Links(link) :
                 Begins(r, [do |-> "upsert", slug |-> s, asked |-> asked,
                            patch |-> Patch(asked, link[s]), overtaken |-> FALSE])
  /\ UNCHANGED <<variant, pointer, link, torn>>

\* (mutant) the row is written whether or not it is still there.
UpsertAnyRow(r) ==
  /\ job[r].do = "upsert"
  /\ job[r].slug # None
  /\ IF job[r].patch.variant \in Plans \cup {None}
     THEN /\ link' = [link EXCEPT ![job[r].slug] = job[r].patch]
          /\ Commits(r)
          /\ UNCHANGED <<variant, pointer, torn>>
     ELSE Fails(r)

\* The row the request read may be gone: then nothing is written.
UpsertUpdate(r) ==
  /\ job[r].do = "upsert"
  /\ job[r].slug # None
  /\ IF IsRow(link[job[r].slug]) /\ job[r].patch.variant \in Plans \cup {None}
     THEN /\ link' = [link EXCEPT ![job[r].slug] = job[r].patch]
          /\ Commits(r)
          /\ UNCHANGED <<variant, pointer, torn>>
     ELSE Fails(r)

\* Once the slugs of the instance are used up an insert fails: a bound.
UpsertInsert(r) ==
  /\ job[r].do = "upsert"
  /\ job[r].slug = None
  /\ \/ Fails(r)
        /\ \/ Links(link) # {} \/ \A s \in Slugs : link[s] # Unused
           \/ job[r].patch.variant \notin Plans \cup {None}
     \/ \E s \in Slugs :
          LET rows == [link EXCEPT ![s] = job[r].patch] IN
          /\ link[s] = Unused
          /\ AtMostOne(Links(rows)) /\ job[r].patch.variant \in Plans \cup {None}
          /\ link' = rows /\ Commits(r) /\ UNCHANGED <<variant, pointer, torn>>

RevokeRead(r) ==
  /\ \E s \in Links(link) : Begins(r, [do |-> "revoke", slug |-> s, overtaken |-> FALSE])
  /\ UNCHANGED <<variant, pointer, link, torn>>

RevokeWrite(r) ==
  /\ job[r].do = "revoke"
  /\ link' = [link EXCEPT ![job[r].slug] = Revoked]
  /\ Commits(r)
  /\ UNCHANGED <<variant, pointer, torn>>

\* Time passes the deadline, in the row and in what requests have read.
Lapsed(l) == IF l.expires = "later" THEN [l EXCEPT !.expires = "past"] ELSE l

Lapse ==
  /\ \E s \in Links(link) : link[s].expires = "later"
  /\ link' = [s \in Slugs |-> IF IsRow(link[s]) THEN Lapsed(link[s]) ELSE link[s]]
  /\ job' = [r \in Requests |->
               IF job[r].do = "upsert" THEN [job[r] EXCEPT !.patch = Lapsed(@)] ELSE job[r]]
  /\ UNCHANGED <<variant, pointer, torn>>

-----------------------------------------------------------------------------
Step(r) ==
  \/ CreateRead(r) \/ CreateInsert(r)
  \/ PromoteRead(r) \/ PromoteWrite(r)
  \/ DeleteRead(r) \/ DeleteWrite(r)
  \/ DuplicateRead(r) \/ DuplicateWrite(r)
  \/ UpsertRead(r) \/ UpsertUpdate(r) \/ UpsertInsert(r)
  \/ RevokeRead(r) \/ RevokeWrite(r)

VariantsNext == Lapse \/ \E r \in Requests : Step(r)

VariantsSpec == VariantsInit /\ [][VariantsNext]_variantsVars

-----------------------------------------------------------------------------
(* What the two readers of the trip see.                                     *)

\* getCanvas without a variant: the main plan, else the oldest one (any, here).
EditorPlans == IF Mains(variant) # {} THEN Mains(variant) ELSE Plans

IsOpen(l) == IsRow(l) /\ l.enabled = "on" /\ l.expires # "past"

\* resolve: the plan a page shows, None for "no longer available".
PagePlan(s) ==
  IF ~IsOpen(link[s]) THEN None
  ELSE IF link[s].variant # None THEN link[s].variant ELSE pointer

\* There is one main plan at most, and the page always shows a plan that
\* exists. Unless the trip is a copy torn by a promotion between the two reads of
\* duplicate, trips names exactly the main plan, and so a page nobody pinned to a
\* plan shows what the editor opens (the two copies of the main plan, under
\* concurrent promotions, deletions and duplicates).
MainAgrees ==
  /\ AtMostOne(Mains(variant))
  /\ ~torn /\ pointer # None => Mains(variant) = {pointer}
  /\ \A s \in Slugs : PagePlan(s) # None =>
       /\ Exists(PagePlan(s))
       /\ ~torn /\ link[s].variant = None => PagePlan(s) \in EditorPlans

OvertakenDelete(v) == \E r \in Requests :
  job[r].do = "delete" /\ job[r].variant = v /\ job[r].overtaken

\* The editor's main plan disappears only in a deletion that another request
\* overtook after it had checked, on a torn copy too (deleteVariant reads is_main
\* without a lock). The plan trips names goes in such a deletion as well, or on a
\* torn copy, where nothing marks it.
MainLostOnlyWhenOvertaken ==
  [][/\ \A v \in Variants : variant[v] = "main" /\ variant'[v] = "none" => OvertakenDelete(v)
     /\ pointer # None /\ pointer' = None => torn' \/ OvertakenDelete(pointer)]_variantsVars

\* A revoked link never comes back; a link that was off or expired opens only
\* to a request that asked for it or that was overtaken after its read
\* (upsertLink writes back every field it read).
ClosedLinksStayClosed ==
  [][\A s \in Slugs :
       /\ link[s] = Revoked => link'[s] = Revoked
       /\ IsRow(link[s]) /\ ~IsOpen(link[s]) /\ IsOpen(link'[s]) =>
            \E r \in Requests :
              /\ job[r].do = "upsert"
              /\ job[r].overtaken \/ job[r].asked.enabled = "on"
                 \/ job[r].asked.expires \in {"never", "later"}]_variantsVars
=============================================================================
