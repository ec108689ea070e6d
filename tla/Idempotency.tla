----------------------------- MODULE Idempotency -----------------------------
(***************************************************************************)
(* The idempotency middleware around a mutating handler                    *)
(* (platform/http/idempotency.ts), several requests at a time.             *)
(*                                                                         *)
(* The middleware's statements (claim, look up, store, release) are each a *)
(* step of the request, the handler's transaction is one step, and any of  *)
(* them may fail the way a database connection fails.  `applied`, `exposed`*)
(* and the holder of an entry are history: no code reads them.             *)
(*                                                                         *)
(* A body stands for the hash of route and body, and a key for the pair    *)
(* userId:key.  A request without the header takes no part in this.        *)
(***************************************************************************)
EXTENDS Integers, FiniteSets, Functions

CONSTANTS
  Calls,     \* HTTP requests, retries included: this bounds them
  Keys,      \* scoped keys
  Bodies,    \* request hashes
  NoAsk,     \* a request not sent yet
  NoOne,     \* nobody holds the entry
  Faults     \* whether a connection may break and an instance may die

ASSUME CallsAssumption ==
  /\ NoOne \notin Calls
  /\ NoAsk \notin [key : Keys, body : Bodies]
  /\ Faults \in BOOLEAN

VARIABLES
  entry,    \* idempotency_keys: [state, body, holder] by key
  stage,    \* where each request is
  ask,      \* the key and body each request carries
  applied,  \* committed mutations, by key and body, since the key was last purged
  exposed,  \* keys under which a mutation ran without its claim, or committed
            \* without the handler learning so
  reply     \* what each request was told

callsVars == <<entry, stage, ask, applied, exposed, reply>>

Free == [state |-> "free", body |-> NoAsk, holder |-> NoOne]

InFlight == {"claim", "lookup", "run", "runBare", "store", "release", "send", "sendBare", "fail"}
Moving(r) == stage[r] \in InFlight

KeyOf(r) == ask[r].key
BodyOf(r) == ask[r].body

CallsTypeOK ==
  /\ entry \in [Keys -> [state : {"free", "claimed", "answered"}, body : Bodies \cup {NoAsk},
                         holder : Calls \cup {NoOne}]]
  /\ stage \in [Calls -> InFlight \cup {"idle", "done"}]
  /\ ask \in [Calls -> [key : Keys, body : Bodies] \cup {NoAsk}]
  /\ applied \in [Keys -> [Bodies -> Nat]]
  /\ exposed \subseteq Keys
  /\ reply \in [Calls -> {"none", "created", "unstored", "replayed",
                             "conflict", "mismatch", "failed", "lost"}]
  /\ \A r \in Calls : (stage[r] = "idle") <=> (ask[r] = NoAsk)
  /\ \A r \in Calls : (stage[r] = "done") <=> (reply[r] # "none")

CallsInit ==
  /\ entry = [k \in Keys |-> Free]
  /\ stage = [r \in Calls |-> "idle"]
  /\ ask = [r \in Calls |-> NoAsk]
  /\ applied = [k \in Keys |-> [b \in Bodies |-> 0]]
  /\ exposed = {}
  /\ reply = [r \in Calls |-> "none"]

Goto(r, step) == stage' = [stage EXCEPT ![r] = step]

Answer(r, what) ==
  /\ Goto(r, "done")
  /\ reply' = [reply EXCEPT ![r] = what]

Receive(r, k, b) ==
  /\ stage[r] = "idle"
  /\ ask' = [ask EXCEPT ![r] = [key |-> k, body |-> b]]
  /\ Goto(r, "claim")
  /\ UNCHANGED <<entry, applied, exposed, reply>>

\* (mutant) insert ... on conflict do update: the last request wins.
ClaimOverwrites(r) ==
  /\ stage[r] = "claim"
  /\ entry' = [entry EXCEPT ![KeyOf(r)] =
       [state |-> "claimed", body |-> BodyOf(r), holder |-> r]]
  /\ Goto(r, "run")
  /\ UNCHANGED <<ask, applied, exposed, reply>>

\* insert ... on conflict do nothing: one of the concurrent requests wins.
Claim(r) ==
  /\ stage[r] = "claim"
  /\ \/ /\ entry[KeyOf(r)].state = "free"
        /\ entry' = [entry EXCEPT ![KeyOf(r)] =
             [state |-> "claimed", body |-> BodyOf(r), holder |-> r]]
        /\ Goto(r, "run")
     \/ /\ entry[KeyOf(r)].state # "free"
        /\ Goto(r, "lookup")
        /\ UNCHANGED entry
  /\ UNCHANGED <<ask, applied, exposed, reply>>

\* The insert throws, landed or not: the handler runs without a claim.
ClaimFails(r) ==
  /\ Faults
  /\ stage[r] = "claim"
  /\ Goto(r, "runBare")
  /\ exposed' = exposed \cup {KeyOf(r)}
  /\ \/ UNCHANGED entry
     \/ /\ entry[KeyOf(r)].state = "free"
        /\ entry' = [entry EXCEPT ![KeyOf(r)] =
             [state |-> "claimed", body |-> BodyOf(r), holder |-> NoOne]]
  /\ UNCHANGED <<ask, applied, reply>>

\* (mutant) an entry without an answer is taken for a fresh request.
LookupRunsAgain(r) ==
  /\ stage[r] = "lookup"
  /\ LET found == entry[KeyOf(r)] IN
     \/ found.state # "answered" /\ Goto(r, "run") /\ UNCHANGED reply
     \/ found.state = "answered" /\ found.body # BodyOf(r) /\ Answer(r, "mismatch")
     \/ found.state = "answered" /\ found.body = BodyOf(r) /\ Answer(r, "replayed")
  /\ UNCHANGED <<entry, ask, applied, exposed>>

\* replayOrReject: no entry any more, another body, no answer yet, or a replay.
Lookup(r) ==
  /\ stage[r] = "lookup"
  /\ LET found == entry[KeyOf(r)] IN
     \/ /\ found.state = "free"
        /\ Goto(r, "runBare")
        /\ exposed' = exposed \cup {KeyOf(r)}
        /\ UNCHANGED reply
     \/ /\ found.state # "free" /\ found.body # BodyOf(r)
        /\ Answer(r, "mismatch")
        /\ UNCHANGED exposed
     \/ /\ found.state = "claimed" /\ found.body = BodyOf(r)
        /\ Answer(r, "conflict")
        /\ UNCHANGED exposed
     \/ /\ found.state = "answered" /\ found.body = BodyOf(r)
        /\ Answer(r, "replayed")
        /\ UNCHANGED exposed
  /\ UNCHANGED <<entry, ask, applied>>

\* The select throws inside the same try block: the handler runs without a claim.
LookupFails(r) ==
  /\ Faults
  /\ stage[r] = "lookup"
  /\ Goto(r, "runBare")
  /\ exposed' = exposed \cup {KeyOf(r)}
  /\ UNCHANGED <<entry, ask, applied, reply>>

Effect(r) == applied' = [applied EXCEPT ![KeyOf(r)][BodyOf(r)] = @ + 1]

\* (mutant) the response goes out while background() stores it.
CommitAnswersFirst(r) ==
  /\ stage[r] \in {"run", "runBare"}
  /\ Effect(r)
  /\ IF stage[r] = "run" THEN Answer(r, "created") ELSE Goto(r, "sendBare") /\ UNCHANGED reply
  /\ UNCHANGED <<entry, ask, exposed>>

\* The handler's transaction commits and it answers 2xx.
Commit(r) ==
  /\ stage[r] \in {"run", "runBare"}
  /\ Effect(r)
  /\ Goto(r, IF stage[r] = "run" THEN "store" ELSE "sendBare")
  /\ UNCHANGED <<entry, ask, exposed, reply>>

\* The transaction commits but its acknowledgement is lost: the handler answers 500.
CommitUnacknowledged(r) ==
  /\ Faults
  /\ stage[r] \in {"run", "runBare"}
  /\ Effect(r)
  /\ exposed' = exposed \cup {KeyOf(r)}
  /\ Goto(r, IF stage[r] = "run" THEN "release" ELSE "fail")
  /\ UNCHANGED <<entry, ask, reply>>

\* A validation error, a domain rule, a constraint or a fault: nothing is committed.
RollBack(r) ==
  /\ stage[r] \in {"run", "runBare"}
  /\ Goto(r, IF stage[r] = "run" THEN "release" ELSE "fail")
  /\ UNCHANGED <<entry, ask, applied, exposed, reply>>

\* captureResponse: the patched end() stores a 2xx under the key, or fails to ...
Store(r) ==
  /\ stage[r] = "store"
  /\ entry' = IF entry[KeyOf(r)].state = "free" THEN entry
              ELSE [entry EXCEPT ![KeyOf(r)].state = "answered"]
  /\ Goto(r, "send")
  /\ UNCHANGED <<ask, applied, exposed, reply>>

StoreFails(r) ==
  /\ Faults
  /\ stage[r] = "store"
  /\ Goto(r, "sendBare")
  /\ UNCHANGED <<entry, ask, applied, exposed, reply>>

\* ... or deletes the unanswered claim of anything else, or fails to ...
Release(r) ==
  /\ stage[r] = "release"
  /\ entry' = IF entry[KeyOf(r)].state = "claimed" THEN [entry EXCEPT ![KeyOf(r)] = Free]
              ELSE entry
  /\ Goto(r, "fail")
  /\ UNCHANGED <<ask, applied, exposed, reply>>

ReleaseFails(r) ==
  /\ Faults
  /\ stage[r] = "release"
  /\ Goto(r, "fail")
  /\ UNCHANGED <<entry, ask, applied, exposed, reply>>

\* ... and then lets the bytes out.
Send(r) ==
  /\ \/ stage[r] = "send" /\ Answer(r, "created")
     \/ stage[r] = "sendBare" /\ Answer(r, "unstored")
     \/ stage[r] = "fail" /\ Answer(r, "failed")
  /\ UNCHANGED <<entry, ask, applied, exposed>>

\* (mutant) the requests of a dead instance stay where they were.
CrashForgets(S) ==
  /\ Faults
  /\ S # {} /\ \A r \in S : Moving(r)
  /\ stage' = [r \in Calls |-> IF r \in S THEN "idle" ELSE stage[r]]
  /\ UNCHANGED <<entry, ask, applied, exposed, reply>>

\* An instance dies with the requests it is serving; a rolling deploy has two.
Crash(S) ==
  /\ Faults
  /\ S # {} /\ \A r \in S : Moving(r)
  /\ stage' = [r \in Calls |-> IF r \in S THEN "done" ELSE stage[r]]
  /\ reply' = [r \in Calls |-> IF r \in S THEN "lost" ELSE reply[r]]
  /\ UNCHANGED <<entry, ask, applied, exposed>>

\* (mutant) only answered keys are purged.
PurgeAnswered(k) ==
  /\ entry[k].state = "answered"
  /\ \A r \in Calls : Moving(r) => KeyOf(r) # k
  /\ entry' = [entry EXCEPT ![k] = Free]
  /\ applied' = [applied EXCEPT ![k] = [b \in Bodies |-> 0]]
  /\ exposed' = exposed \ {k}
  /\ UNCHANGED <<stage, ask, reply>>

\* purgeIdempotencyKeys, 24 hours after the claim.  No request lives that long: the
\* statement timeout is 15 s.
Purge(k) ==
  /\ entry[k].state # "free"
  /\ \A r \in Calls : Moving(r) => KeyOf(r) # k
  /\ entry' = [entry EXCEPT ![k] = Free]
  /\ applied' = [applied EXCEPT ![k] = [b \in Bodies |-> 0]]
  /\ exposed' = exposed \ {k}
  /\ UNCHANGED <<stage, ask, reply>>

CallsNext ==
  \/ \E r \in Calls :
       \/ \E k \in Keys, b \in Bodies : Receive(r, k, b)
       \/ Claim(r)
       \/ ClaimFails(r)
       \/ Lookup(r)
       \/ LookupFails(r)
       \/ Commit(r)
       \/ CommitUnacknowledged(r)
       \/ RollBack(r)
       \/ Store(r)
       \/ StoreFails(r)
       \/ Release(r)
       \/ ReleaseFails(r)
       \/ Send(r)
  \/ \E S \in SUBSET Calls : Crash(S)
  \/ \E k \in Keys : Purge(k)

\* Node schedules every callback, and pg-boss runs the purge every night.
Fairness ==
  /\ \A r \in Calls :
       /\ WF_callsVars(Claim(r) \/ ClaimFails(r))
       /\ WF_callsVars(Lookup(r) \/ LookupFails(r))
       /\ WF_callsVars(Commit(r) \/ CommitUnacknowledged(r) \/ RollBack(r))
       /\ WF_callsVars(Store(r) \/ StoreFails(r))
       /\ WF_callsVars(Release(r) \/ ReleaseFails(r))
       /\ WF_callsVars(Send(r))
  /\ \A k \in Keys : WF_callsVars(Purge(k))

CallsSpec == CallsInit /\ [][CallsNext]_callsVars
CallsFairSpec == CallsSpec /\ Fairness

-----------------------------------------------------------------------------
(* Properties *)

Once ==
  INSTANCE OnceOnly WITH ask <- ask, applied <- applied, exposed <- exposed, reply <- reply

\* The middleware keeps the promise of OnceOnly, crashes, lost answers and failed
\* bookkeeping included: only a run without a claim or a lost COMMIT exposes a key.
KeepsPromise == Once!Spec

\* "Persist the outgoing response against the key, BEFORE the bytes go out": when a
\* success leaves the server, a retry finds the answer rather than a conflict.
AnswerStoredBeforeSent ==
  [][\A r \in Calls : reply[r] # "created" /\ reply'[r] = "created" =>
       entry[KeyOf(r)].state = "answered" /\ entry[KeyOf(r)].body = BodyOf(r)]_callsVars

\* An answer that is on record stays on record, with its body, until the purge.
AnswersKept ==
  [][\A k \in Keys : entry[k].state = "answered" => entry'[k] = entry[k] \/ Purge(k)]_callsVars

\* A claim whose holder died or could not release it does not block its key for
\* ever: the nightly purge frees it.
AbandonedClaimFreed ==
  \A k \in Keys : entry[k].state = "claimed" ~> (entry[k].state # "claimed")
=============================================================================
