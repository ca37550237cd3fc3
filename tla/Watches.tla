------------------------------ MODULE Watches ------------------------------
(***************************************************************************)
(* The watch endpoints: create_watch and delete_watch, served concurrently *)
(* by a pool of threads, one database transaction per request at READ      *)
(* COMMITTED.                                                              *)
(*                                                                         *)
(* sections and watches are the committed tables.  A request that has      *)
(* inserted a row holds its key in the unique index until it commits or    *)
(* rolls back; an INSERT of the same key waits for that and then fails or  *)
(* succeeds.  SELECTs never wait and see only what is committed.           *)
(***************************************************************************)
EXTENDS Naturals, FiniteSets

CONSTANTS
    Sections,      \* (term, crn) pairs
    Destinations,  \* an address or a chat id: its form fixes its channel
    Requests,      \* requests that can be served at the same time
    Limit          \* max_watches_per_destination

Watches == Sections \X Destinations     \* the unique (section, destination)

ASSUME WatchesAssumption ==
    /\ Limit \in Nat
    /\ IsFiniteSet(Requests) /\ Requests # {}
    /\ IsFiniteSet(Sections)

VARIABLES
    sections,  \* rows of the sections table
    watches,   \* the watches table
    pc,        \* per request: the statement it is about to run
    for,       \* per request: the watch it is about
    added,     \* per request: its transaction has inserted the section
    answer,    \* per request: what it returned last
    held       \* history: the watch was active at some time since it came

vars == <<sections, watches, pc, for, added, answer, held>>

-----------------------------------------------------------------------------
WatchState == {"none", "active", "inactive"}
Labels  == {"idle", "count", "section", "addsection", "insert", "commit",
            "duplicate", "reactivate", "load", "deactivate"}
Answers == {"none", "created", "existing", "limit", "error", "deleted", "missing"}

TypeOK ==
    /\ sections \subseteq Sections
    /\ watches \in [Watches -> WatchState]
    /\ pc \in [Requests -> Labels]
    /\ for \in [Requests -> Watches]
    /\ added \in [Requests -> BOOLEAN]
    /\ answer \in [Requests -> Answers]
    /\ held \in [Requests -> BOOLEAN]

Init ==
    /\ sections = {}
    /\ watches = [x \in Watches |-> "none"]
    /\ pc = [r \in Requests |-> "idle"]
    /\ for \in [Requests -> Watches]
    /\ added = [r \in Requests |-> FALSE]
    /\ answer = [r \in Requests |-> "none"]
    /\ held = [r \in Requests |-> FALSE]

\* Variants (each definition named ...X is the one after it with a seeded bug,
\* kept to show which property notices): the row refers to the wrong thing.
SectionOfX(r) == for[r][2]

SectionOf(r) == for[r][1]

Active       == {x \in Watches : watches[x] = "active"}
ActiveOf(d)  == {x \in Active : x[2] = d}

Goto(r, label) == pc' = [pc EXCEPT ![r] = label]

(* The request is over: its transaction ends, its session is closed.       *)
Reply(r, what) ==
    /\ Goto(r, "idle")
    /\ answer' = [answer EXCEPT ![r] = what]
    /\ added' = [added EXCEPT ![r] = FALSE]

(* A commit that gives the request's watch a new state.                    *)
Store(r, state) ==
    /\ watches' = [watches EXCEPT ![for[r]] = state]
    /\ held' = [q \in Requests |-> held[q] \/ watches'[for[q]] = "active"]

-----------------------------------------------------------------------------
Begin(r, x, label) ==
    /\ pc[r] = "idle"
    /\ Goto(r, label)
    /\ for' = [for EXCEPT ![r] = x]
    /\ answer' = [answer EXCEPT ![r] = "none"]
    /\ held' = [held EXCEPT ![r] = watches[x] = "active"]
    /\ UNCHANGED <<sections, watches, added>>

(* create_watch                                                            *)

\* One watch more than the limit.
FullX(d) == Cardinality(ActiveOf(d)) > Limit

Full(d) == Cardinality(ActiveOf(d)) >= Limit

Count(r) ==
    /\ pc[r] = "count"
    /\ IF Full(for[r][2])
       THEN Reply(r, "limit")
       ELSE Goto(r, "section") /\ UNCHANGED <<added, answer>>
    /\ UNCHANGED <<sections, watches, for, held>>

(* _get_or_create_section: SELECT, then INSERT when nothing was found.     *)
FindSection(r) ==
    /\ pc[r] = "section"
    /\ Goto(r, IF SectionOf(r) \in sections THEN "insert" ELSE "addsection")
    /\ UNCHANGED <<sections, watches, for, added, answer, held>>

SectionKeyFree(s) == \A q \in Requests : ~(added[q] /\ SectionOf(q) = s)

\* The new section is committed on its own.
AddSectionX(r) ==
    /\ pc[r] = "addsection"
    /\ sections' = sections \cup {SectionOf(r)}
    /\ Goto(r, "insert")
    /\ UNCHANGED <<watches, for, added, answer, held>>

\* The flush of a section somebody else has inserted meanwhile raises outside
\* the try block: the request ends as a server error.
AddSection(r) ==
    /\ pc[r] = "addsection"
    /\ SectionKeyFree(SectionOf(r))
    /\ IF SectionOf(r) \in sections
       THEN Reply(r, "error")
       ELSE /\ Goto(r, "insert")
            /\ added' = [added EXCEPT ![r] = TRUE]
            /\ UNCHANGED answer
    /\ UNCHANGED <<sections, watches, for, held>>

WatchKeyFree(x) == \A q \in Requests : ~(pc[q] = "commit" /\ for[q] = x)

\* A duplicate that nobody watches any more is answered like a live one.
InsertX(r) ==
    /\ pc[r] = "insert"
    /\ WatchKeyFree(for[r])
    /\ IF watches[for[r]] # "none"
       THEN Reply(r, "existing")
       ELSE Goto(r, "commit") /\ UNCHANGED <<added, answer>>
    /\ UNCHANGED <<sections, watches, for, held>>

Insert(r) ==
    /\ pc[r] = "insert"
    /\ WatchKeyFree(for[r])
    /\ IF watches[for[r]] # "none"
       THEN /\ Goto(r, "duplicate")
            /\ added' = [added EXCEPT ![r] = FALSE]
       ELSE Goto(r, "commit") /\ UNCHANGED added
    /\ UNCHANGED <<sections, watches, for, answer, held>>

Commit(r) ==
    /\ pc[r] = "commit"
    /\ sections' = IF added[r] THEN sections \cup {SectionOf(r)} ELSE sections
    /\ Store(r, "active")
    /\ Reply(r, "created")
    /\ UNCHANGED for

(* After the rollback the existing row is read, and revived if need be.    *)
Duplicate(r) ==
    /\ pc[r] = "duplicate"
    /\ IF watches[for[r]] = "active"
       THEN Reply(r, "existing")
       ELSE Goto(r, "reactivate") /\ UNCHANGED <<added, answer>>
    /\ UNCHANGED <<sections, watches, for, held>>

Reactivate(r) ==
    /\ pc[r] = "reactivate"
    /\ Store(r, "active")
    /\ Reply(r, "existing")
    /\ UNCHANGED <<sections, for>>

(* delete_watch: the row is loaded, then updated if it was loaded active.  *)
Load(r) ==
    /\ pc[r] = "load"
    /\ \/ watches[for[r]] = "none" /\ Reply(r, "missing")
       \/ watches[for[r]] = "inactive" /\ Reply(r, "deleted")
       \/ /\ watches[for[r]] = "active"
          /\ Goto(r, "deactivate") /\ UNCHANGED <<added, answer>>
    /\ UNCHANGED <<sections, watches, for, held>>

Deactivate(r) ==
    /\ pc[r] = "deactivate"
    /\ Store(r, "inactive")
    /\ Reply(r, "deleted")
    /\ UNCHANGED <<sections, for>>

(* The process or the connection is lost: get_db's session is rolled back. *)
RequestLost(r) ==
    /\ pc[r] # "idle"
    /\ Reply(r, "none")
    /\ UNCHANGED <<sections, watches, for, held>>

-----------------------------------------------------------------------------
CreateWatch(r) ==
    \/ \E x \in Watches : Begin(r, x, "count")
    \/ Count(r) \/ FindSection(r) \/ AddSection(r) \/ Insert(r)
    \/ Commit(r) \/ Duplicate(r) \/ Reactivate(r)

DeleteWatch(r) ==
    \/ \E x \in Watches : Begin(r, x, "load")
    \/ Load(r) \/ Deactivate(r)

Next == \E r \in Requests : CreateWatch(r) \/ DeleteWatch(r) \/ RequestLost(r)

Spec == Init /\ [][Next]_vars

-----------------------------------------------------------------------------
(* The limit is checked before the insert, in a statement of its own, so   *)
(* racing requests can pass it together; but a destination never has more  *)
(* than the limit by more than the requests that raced (watches.py:61-74). *)
OvershootBounded ==
    \A d \in Destinations :
        Cardinality(ActiveOf(d)) < Limit + Cardinality(Requests)

(* A create that was answered 200 or 201 had its watch active at some time *)
(* during the request, whichever of the two inserts and whichever deletes  *)
(* it raced with (watches.py:87-113).                                      *)
AcceptedMeansWatched ==
    \A r \in Requests : answer[r] \in {"created", "existing"} => held[r]

(* A section exists only because somebody watched it (sections.py:4-6): a  *)
(* request that fails or dies on the way leaves no section behind.         *)
NoOrphanSection ==
    \A s \in sections : \E d \in Destinations : watches[<<s, d>>] # "none"

=============================================================================
