------------------------------ MODULE Catalogue ------------------------------
(***************************************************************************)
(* The catalogue of a repository: the versions of an element its source    *)
(* offers, the rows of repo_elements that mirror them, which of them the   *)
(* store serves, and the refreshes that keep the two in step               *)
(* (repo/builders/repository.py, Repository in repo/dm/models.py).         *)
(*                                                                         *)
(* One repository, one element. A version is a number; a version that was  *)
(* withdrawn from the source does not come back.                           *)
(***************************************************************************)
EXTENDS Integers

CONSTANTS
    Absent,
    Versions,       \* versions of the element
    StableVersions, \* those that are neither previews nor development builds
    Periodic,       \* is there a refresh rate?
    MaxChanges,     \* bound: changes of the source
    MaxCalls,       \* bound: requests to the API
    MaxFailures,    \* bound: refreshes that fail
    Racing,         \* do clients install a version that is being removed, or delete
                    \* the one the store serves?
    Bulk            \* does a source withdraw a stable version while another one that
                    \* it withdrew is still served?

ASSUME CatalogueAssumption ==
    /\ Versions \subseteq Nat /\ StableVersions \subseteq Versions
    /\ Periodic \in BOOLEAN /\ Racing \in BOOLEAN /\ Bulk \in BOOLEAN
    /\ MaxChanges \in Nat /\ MaxCalls \in Nat /\ MaxFailures \in Nat

VARIABLES
    source,     \* inventory of the source: offered and withdrawn versions
    rows,       \* rows of repo_elements
    repo,       \* row of repo_repositories
    work,       \* refresh of the builder
    spent       \* changes, calls and failures so far

catalogueVars == <<source, rows, repo, work, spent>>

RepoRows == [stable : BOOLEAN, latest : BOOLEAN, installed : BOOLEAN]

ASSUME AbsentAssumption == Absent \notin RepoRows

\* requested: refresh_requested. due: next_refresh has passed. forced: updated, so that
\* the builder handles the row.
Repositories ==
    [status : {"NEW", "ACTIVE", "ERROR", "DISABLED"}, requested : BOOLEAN,
     due : BOOLEAN, forced : BOOLEAN]

\* new and gone: what has to be added and removed. read: rows as they were read.
\* asked: was the refresh requested when it began?
Idle == [phase |-> "idle", new |-> {}, gone |-> {}, read |-> [v \in Versions |-> Absent],
         asked |-> FALSE]

CatalogueTypeOK ==
    /\ source \in [offered : SUBSET Versions, withdrawn : SUBSET Versions]
    /\ rows \in [Versions -> RepoRows \union {Absent}]
    /\ repo \in Repositories
    /\ work \in [phase : {"idle", "create", "add", "remove"}, new : SUBSET Versions,
                 gone : SUBSET Versions, read : [Versions -> RepoRows \union {Absent}],
                 asked : BOOLEAN]
    /\ spent \in [changes : 0 .. MaxChanges, calls : 0 .. MaxCalls,
                  failures : 0 .. MaxFailures]

\* A repository that a client has just added.
CatalogueInit ==
    /\ source \in [offered : SUBSET Versions, withdrawn : {{}}]
    /\ rows = [v \in Versions |-> Absent]
    /\ repo = [status |-> "NEW", requested |-> FALSE, due |-> TRUE, forced |-> FALSE]
    /\ work = Idle
    /\ spent = [changes |-> 0, calls |-> 0, failures |-> 0]

Existing == {v \in Versions : rows[v] # Absent}

Served == {v \in Existing : rows[v].stable}

Greatest(S) == {v \in S : \A x \in S : x <= v}

\* What the store shows of the element.
LatestStable == {v \in Served : rows[v].latest}

-----------------------------------------------------------------------------
\* The source.

Publish(v) ==
    /\ spent.changes < MaxChanges
    /\ v \notin source.offered \union source.withdrawn
    /\ source' = [source EXCEPT !.offered = @ \union {v}]
    /\ spent' = [spent EXCEPT !.changes = @ + 1]
    /\ UNCHANGED <<rows, repo, work>>

\* Stable versions that have a row, or are about to.
Coming == Served \union (work.new \intersect StableVersions)

Withdraw(v) ==
    /\ spent.changes < MaxChanges
    /\ v \in source.offered
    /\ Bulk \/ v \notin StableVersions \/ Coming \subseteq source.offered
    /\ source' = [offered |-> source.offered \ {v}, withdrawn |-> source.withdrawn \union {v}]
    /\ spent' = [spent EXCEPT !.changes = @ + 1]
    /\ UNCHANGED <<rows, repo, work>>

-----------------------------------------------------------------------------
\* The API.

Call ==
    /\ spent.calls < MaxCalls
    /\ spent' = [spent EXCEPT !.calls = @ + 1]

\* Repository.refresh saves the row, which the builder then handles.
RequestRefresh ==
    /\ Call
    /\ repo' = [repo EXCEPT !.requested = TRUE, !.forced = TRUE]
    /\ UNCHANGED <<source, rows, work>>

\* Installing, and uninstalling, as far as the catalogue sees it.
SetInstalled(v, b) ==
    /\ Call
    /\ rows[v] # Absent /\ rows[v].installed # b
    /\ Racing \/ ~ b \/ v \notin work.gone
    /\ rows' = [rows EXCEPT ![v].installed = b]
    /\ UNCHANGED <<source, repo, work>>

\* RepoElementController.delete: not for what is installed. Nothing is promoted.
DeleteElement(v) ==
    /\ Call
    /\ rows[v] # Absent /\ ~ rows[v].installed
    /\ Racing \/ (~ rows[v].latest /\ work.phase = "idle")
    /\ rows' = [rows EXCEPT ![v] = Absent]
    /\ UNCHANGED <<source, repo, work>>

-----------------------------------------------------------------------------
\* The builder.

\* next_refresh passes.
Elapse ==
    /\ Periodic /\ ~ repo.due
    /\ repo' = [repo EXCEPT !.due = TRUE]
    /\ UNCHANGED <<source, rows, work, spent>>

\* RepoProxyBuilderService._check_refresh, every tenth iteration.
CheckRefresh ==
    /\ work.phase = "idle" /\ ~ repo.forced
    /\ repo.requested \/ (Periodic /\ repo.due)
    /\ repo' = [repo EXCEPT !.forced = TRUE]
    /\ UNCHANGED <<source, rows, work, spent>>

\* A new repository: everything the source offers is saved.
Create ==
    /\ work.phase = "idle" /\ repo.status = "NEW"
    /\ work' = [Idle EXCEPT !.phase = "create", !.new = source.offered \ Existing]
    /\ repo' = [repo EXCEPT !.forced = FALSE]
    /\ UNCHANGED <<source, rows, spent>>

\* Rows and inventory are read.
BeginRefresh ==
    /\ work.phase = "idle" /\ repo.status # "NEW" /\ repo.forced
    /\ repo' = [repo EXCEPT !.forced = FALSE]
    /\ work' = IF repo.requested \/ (Periodic /\ repo.due)
               THEN [Idle EXCEPT !.phase = "add", !.new = source.offered \ Existing,
                                 !.gone = Existing \ source.offered, !.asked = repo.requested]
               ELSE work
    /\ UNCHANGED <<source, rows, spent>>

SetLatestKeepingOld(rs, v) == [rs EXCEPT ![v].latest = TRUE]

\* v, the greatest stable version, becomes the latest one, and the only one.
SetLatest(rs, v) ==
    [x \in Versions |->
        IF rs[x] = Absent THEN Absent ELSE [rs[x] EXCEPT !.latest = (x = v)]]

FromInventory(v) == [stable |-> v \in StableVersions, latest |-> FALSE, installed |-> FALSE]

\* A new row. It becomes the latest one if it is the greatest stable version.
AddElement(v) ==
    LET all == [rows EXCEPT ![v] = FromInventory(v)]
    IN  /\ work.phase \in {"create", "add"} /\ v \in work.new
        /\ rows' = IF v \in StableVersions /\ \A x \in Served : x <= v
                   THEN SetLatest(all, v) ELSE all
        /\ work' = [work EXCEPT !.new = @ \ {v}]
        /\ UNCHANGED <<source, repo, spent>>

\* When all is added, rows the source does not offer are read again.
ReadStale ==
    /\ work.phase = "add" /\ work.new = {}
    /\ work' = [work EXCEPT !.phase = "remove", !.gone = @ \intersect Existing,
                    !.read = [v \in Versions |->
                                 IF v \in work.gone THEN rows[v] ELSE Absent]]
    /\ UNCHANGED <<source, rows, repo, spent>>

\* Promoting the greatest version that remains, a preview or not.
PromoteAny(rs) ==
    LET greatest == Greatest({x \in Versions : rs[x] # Absent})
    IN  [x \in Versions |->
            IF x \in greatest THEN [rs[x] EXCEPT !.latest = TRUE] ELSE rs[x]]

\* The greatest stable version that remains.
Promote(rs) ==
    LET greatest == Greatest({x \in Versions : rs[x] # Absent /\ rs[x].stable})
    IN  [x \in Versions |->
            IF x \in greatest THEN [rs[x] EXCEPT !.latest = TRUE] ELSE rs[x]]

\* An installed version stays, but is not served any more; others are deleted. If it was
\* the latest one, another is promoted. All that is decided by the row as it was read, and
\* of a row that stays only columns that differ from it are written.
RemoveElement(v) ==
    LET old == work.read[v]
        left == IF rows[v] = Absent THEN rows
                ELSE IF old.installed
                     THEN [rows EXCEPT ![v].stable = @ /\ ~ old.stable,
                                       ![v].latest = @ /\ ~ old.latest]
                ELSE [rows EXCEPT ![v] = Absent]
    IN  /\ work.phase = "remove" /\ v \in work.gone
        /\ rows' = IF old.stable /\ old.latest THEN Promote(left) ELSE left
        /\ work' = [work EXCEPT !.gone = @ \ {v}]
        /\ UNCHANGED <<source, repo, spent>>

\* The status and the deadline are saved, and a request that was seen is cleared.
Ended(ok) ==
    [repo EXCEPT !.status = IF ok THEN (IF @ = "ERROR" THEN "ACTIVE" ELSE @)
                            ELSE (IF @ = "DISABLED" THEN @ ELSE "ERROR"),
                 !.requested = @ /\ ~ work.asked,
                 !.due = @ /\ ~ Periodic]

EndCreate ==
    /\ work.phase = "create" /\ work.new = {}
    /\ repo' = [repo EXCEPT !.status = "ACTIVE", !.due = @ /\ ~ Periodic]
    /\ work' = Idle
    /\ UNCHANGED <<source, rows, spent>>

EndRefresh ==
    /\ work.phase = "remove" /\ work.gone = {}
    /\ repo' = Ended(TRUE)
    /\ work' = Idle
    /\ UNCHANGED <<source, rows, spent>>

\* The source does not answer, or not for every version; what was added stays.
FailRefresh ==
    /\ spent.failures < MaxFailures
    /\ work.phase = "add"
    /\ repo' = Ended(FALSE)
    /\ work' = Idle
    /\ spent' = [spent EXCEPT !.failures = @ + 1]
    /\ UNCHANGED <<source, rows>>

Refreshing ==
    \/ CheckRefresh \/ Create \/ BeginRefresh \/ ReadStale \/ EndCreate \/ EndRefresh
    \/ \E v \in Versions : AddElement(v) \/ RemoveElement(v)

CatalogueNext ==
    \/ \E v \in Versions : Publish(v) \/ Withdraw(v) \/ DeleteElement(v)
    \/ \E v \in Versions, b \in BOOLEAN : SetInstalled(v, b)
    \/ RequestRefresh \/ Elapse \/ FailRefresh \/ Refreshing

\* The builder runs for ever, and time passes.
CatalogueFairness == WF_catalogueVars(Refreshing) /\ WF_catalogueVars(Elapse)

CatalogueSpec == CatalogueInit /\ [][CatalogueNext]_catalogueVars /\ CatalogueFairness

-----------------------------------------------------------------------------
\* One version is marked as the latest: the greatest stable one the catalogue has, after
\* every step of a refresh and wherever one fails (_set_latest_for_new_element,
\* _set_latest_for_outdated_element).
LatestIsGreatest == {v \in Existing : rows[v].latest} = Greatest(Served)

\* The store comes to offer what the source does: rows of all its versions and of those
\* still installed, and one latest version, the greatest stable one, however refreshes
\* fail and whatever is installed meanwhile (RepoProxyBuilderService._refresh_repository).
CatalogueConverges ==
    <>[](/\ source.offered \subseteq Existing
         /\ \A v \in Existing \ source.offered : rows[v].installed /\ ~ rows[v].stable
         /\ LatestIsGreatest /\ LatestStable = Greatest(Served))
=============================================================================
