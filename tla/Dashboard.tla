------------------------------ MODULE Dashboard -------------------------------
(***************************************************************************)
(* The dashboard, app/page.tsx, and the counts it shows (getStats of       *)
(* services/documents.service.ts).  It polls the counts and the recent     *)
(* documents by two requests that are answered independently, as long as   *)
(* the counts show work in progress.                                       *)
(*                                                                         *)
(* The recent documents are those of the first page of the list; here they *)
(* are all of them, which is so for up to five.                            *)
(***************************************************************************)
EXTENDS DocumentPipeline, PolledResource

CONSTANT DashboardPage

\* The table has finitely many rows.
ASSUME DocumentsFinite == IsFiniteSet(Documents)

-----------------------------------------------------------------------------
(* The counts.                                                             *)

Uploaded == {d \in Documents : row[d].status # Absent}

\* The statuses that occur, with their numbers.
countByStatus == [status \in {row[d].status : d \in Uploaded} |->
                    Cardinality({d \in Documents : row[d].status = status})]

Total(byStatus) ==
    byStatus["UPLOADED"] + byStatus["RETRY_PENDING"] + byStatus["PROCESSING"]
      + byStatus["PROCESSED"] + byStatus["FAILED"] + byStatus["VALIDATION_FAILED"]

\* Bug: a document waiting for its retry is not counted as in progress.
Stats_RetryForgotten(byStatus) ==
    [byStatus   |-> byStatus,
     total      |-> Total(byStatus),
     inProgress |-> byStatus["UPLOADED"] + byStatus["PROCESSING"]]

Stats(byStatus) ==
    [byStatus   |-> byStatus,
     total      |-> Total(byStatus),
     inProgress |-> byStatus["UPLOADED"] + byStatus["RETRY_PENDING"] + byStatus["PROCESSING"]]

\* Statuses absent from the grouped query count as zero.
getStats == LET counts == countByStatus
            IN  Stats([status \in Statuses |->
                         IF status \in DOMAIN counts THEN counts[status] ELSE 0])

-----------------------------------------------------------------------------
(* The tiles: a number, and a link to the list of what it counts.          *)

\* Bug: the tile counts the failures that can be retried, its link lists both.
TileValues_RejectedForgotten(stats) ==
    [total     |-> stats.total,
     progress  |-> stats.inProgress,
     processed |-> stats.byStatus["PROCESSED"],
     attention |-> stats.byStatus["FAILED"]]

TileValues(stats) ==
    [total     |-> stats.total,
     progress  |-> stats.inProgress,
     processed |-> stats.byStatus["PROCESSED"],
     attention |-> stats.byStatus["FAILED"] + stats.byStatus["VALIDATION_FAILED"]]

\* The statuses in the address each tile links to; none of them is no filter.
TileLinks ==
    [total     |-> {},
     progress  |-> {"UPLOADED", "RETRY_PENDING", "PROCESSING"},
     processed |-> {"PROCESSED"},
     attention |-> {"FAILED", "VALIDATION_FAILED"}]

\* The documents the list shows at such an address.
Listed(statuses) == {d \in Uploaded : statuses = {} \/ row[d].status \in statuses}

-----------------------------------------------------------------------------
(* The page.                                                               *)

OnDashboard == page = DashboardPage

\* The rows of the recent activity.
recentDocuments == Uploaded

ReadStats(e) == effect[e].page = DashboardPage /\ Answer(e, "stats", getStats)
ReadRecent(e) == effect[e].page = DashboardPage /\ Answer(e, "recent", recentDocuments)

DashboardParts == {"stats", "recent"}

\* intervalMs: refresh while anything is still moving, by the counts.
DashboardPolls(read) == read["stats"].inProgress > 0

\* The documents whose rows can be clicked.
Rows == IF OnDashboard /\ Ready THEN screen.read["recent"] ELSE {}

=============================================================================
