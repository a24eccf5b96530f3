--------------------------- MODULE CacheDiagnosis ---------------------------
(***************************************************************************)
(* What doctor says of the label directory of IndexCache, and what         *)
(* cache-cleanup would do to it.  Both only read, so they are operators of *)
(* the files on disk and of the entries that the workspaces given on the   *)
(* command line would publish.  Sizes and paths are left out.              *)
(***************************************************************************)
EXTENDS IndexCache, FiniteSetsExt

-----------------------------------------------------------------------------
(* diagnose_cache *)

\* What an audit of w would publish now.
ExpectedEntry(w) == KeyNow(w)

LatestStatus ==
    CASE latest = None -> "missing"
      [] latest = Torn -> "corrupt-pointer"
      [] latest \in Key /\ ~Exists(index, latest) -> "target-missing"
      [] latest \in Key /\ Exists(index, latest) -> "ok"

\* read_index_metadata finds a schema version.  That of a file is always that of
\* the program, and every file can be read.
Versioned(k) == index[k].state \in {"keyed", "full"}

EntryStatus(k, expected) ==
    CASE ~Exists(index, k) -> "missing"
      [] Exists(index, k) /\ ~Versioned(k) -> "stale"
      [] Versioned(k) /\ k \in expected -> IF Current(k) THEN "current" ELSE "stale"
      [] Versioned(k) /\ k \notin expected -> "unchecked"

EntryDiagnosis(k, expected) ==
    [status |-> EntryStatus(k, expected), active |-> k = latest, expected |-> k \in expected]

\* The directories of a label, and those that the requests expect.
LabelDiagnosis(expected) ==
    [latest |-> LatestStatus,
     entries |-> [k \in dirs \cup expected |-> EntryDiagnosis(k, expected)]]

Diagnosis(w) == LabelDiagnosis({ExpectedEntry(w)})

-----------------------------------------------------------------------------
(* doctor *)

\* The requested module has sources that nothing was compiled from.
Uncompiled(w) == olean[w] = None

\* The status of the report; careful: --require-oleans.
DoctorStatus(w, careful) ==
    LET said == Diagnosis(w) IN
    IF \/ careful /\ Uncompiled(w)
       \/ said.latest \in {"corrupt-pointer", "target-missing"}
       \/ \E k \in DOMAIN said.entries :
             /\ said.entries[k].active \/ said.entries[k].expected
             /\ said.entries[k].status \in {"corrupt", "stale"}
    THEN "warning" ELSE "ok"

\* The problems that its text lists are found anew.
Problems(w, careful) ==
    LET said == Diagnosis(w)
        wanted == {k \in DOMAIN said.entries : said.entries[k].active \/ said.entries[k].expected}
    IN {<<"latest", status>> : status \in {said.latest} \ {"ok"}} \cup
       {<<"entry", status>> :
            status \in {said.entries[k].status : k \in wanted} \cap {"missing", "corrupt"}} \cup
       {<<"oleans", "missing">> : m \in {x \in {w} : careful /\ Uncompiled(x)}}

\* A row of its table of labels.
LabelSummary(w) ==
    LET said == Diagnosis(w).entries
        counted(status) == Quantify(DOMAIN said, LAMBDA k : said[k].status = status)
    IN [latest |-> LatestStatus, active |-> Quantify(DOMAIN said, LAMBDA k : said[k].active),
        stale |-> counted("stale"), missing |-> counted("missing")]

-----------------------------------------------------------------------------
(* cache-cleanup without --execute *)

Protected(expected) == expected \cup ({latest} \cap Key)

ProtectedFor(k, expected) ==
    IF k \in expected THEN "current expected index" ELSE "active latest pointer"

CleanupReport(expected) ==
    [protected |-> [k \in dirs \cap Protected(expected) |-> ProtectedFor(k, expected)],
     removable |-> dirs \ Protected(expected)]

-----------------------------------------------------------------------------
(* Properties *)

Quiet == /\ \A a \in Auditors : pc[a] \in Resting
         /\ \A c \in Cleaners : cpc[c] = "idle"

\* While nobody works on the cache, doctor can be taken at its word: it warns of
\* a pointer that a kill has torn and of nothing that commands leave behind when
\* they end or die elsewhere; if it lists no problem the workspace has an index,
\* wholly built, and so has the label, with its corpus unless a process has
\* failed; the table of doctor knows the entry that a pointer leads to; and what
\* cache-cleanup keeps for the sake of the pointer alone is worth it.
DoctorIsRight == Quiet =>
    \A w \in Workspaces :
        LET mine == ExpectedEntry(w) IN
        /\ DoctorStatus(w, FALSE) = "warning" => latest = Torn /\ faults > 0
        /\ Problems(w, FALSE) = {} =>
               \A k \in {mine, latest} : /\ index[k].state = "full"
                                         /\ faults = 0 => Complete(k)
        /\ latest \in Key => LabelSummary(w).active = 1
        /\ LET kept == CleanupReport({mine}).protected
           IN \A k \in DOMAIN kept : kept[k] = "active latest pointer" => index[k].state = "full"
=============================================================================
