----------------------------- MODULE NodePages -----------------------------
(***************************************************************************)
(* The pages that ask the backend by themselves: the WAL page              *)
(* (components/wal/WALViewer.tsx), the CLOG page (clog/CLOGViewer.tsx) and *)
(* the SQL console (sql/SQLConsole.tsx).                                   *)
(*                                                                         *)
(* Each puts what an answer brings into its state and ends the spinner,    *)
(* without looking whether another request was made meanwhile.  The WAL    *)
(* page asks when it opens and on its button, the CLOG page every 5 s, the *)
(* console on its button, disabled while it runs, and on Ctrl+Enter, which *)
(* is not.  A request is known by its number.                              *)
(***************************************************************************)
EXTENDS Naturals

CONSTANTS MaxQueries,      \* bound: requests
          MaxQueryFails    \* bound: requests that fail

VARIABLES
  page,            \* the page that is open
  queries,         \* requests under way
  lastQuery,       \* the number of the last one
  pageLoading,     \* loading
  shownAnswer,     \* the request whose answer is shown, 0 for none or an error
  queryFails, queriesCrossed

pageVars == <<page, queries, lastQuery, pageLoading, shownAnswer, queryFails, queriesCrossed>>

AskPage(n) ==
  /\ n =< MaxQueries
  /\ lastQuery' = n /\ queries' = queries \cup {n}
  /\ queriesCrossed' = (queriesCrossed \/ queries # {})
  /\ pageLoading' = TRUE /\ UNCHANGED <<page, queryFails>>

(* WAL and CLOG ask when they are opened.                                  *)
PageInit ==
  /\ page \in {"wal", "clog", "sql"}
  /\ lastQuery = IF page = "sql" THEN 0 ELSE 1
  /\ queries = IF page = "sql" THEN {} ELSE {1}
  /\ pageLoading = (page # "sql")
  /\ shownAnswer = 0 /\ queryFails = 0 /\ queriesCrossed = FALSE

fetchWALRecords == page = "wal" /\ AskPage(lastQuery + 1) /\ UNCHANGED shownAnswer
fetchCLOGStats == page = "clog" /\ AskPage(lastQuery + 1) /\ UNCHANGED shownAnswer
(* The output is cleared when a statement is sent.                         *)
handleExecute ==
  page = "sql" /\ ~pageLoading /\ AskPage(lastQuery + 1) /\ shownAnswer' = 0
ctrlEnter == page = "sql" /\ AskPage(lastQuery + 1) /\ shownAnswer' = 0

answerArrives(n) ==
  /\ n \in queries /\ queries' = queries \ {n} /\ pageLoading' = FALSE
  /\ shownAnswer' = n
  /\ UNCHANGED <<page, lastQuery, queryFails, queriesCrossed>>
answerFails(n) ==
  /\ n \in queries /\ queries' = queries \ {n} /\ pageLoading' = FALSE
  /\ queryFails < MaxQueryFails /\ queryFails' = queryFails + 1
  /\ shownAnswer' = 0 /\ UNCHANGED <<page, lastQuery, queriesCrossed>>

(* An answer without transactions leaves the CLOG page as it is.           *)
answerEmpty(n) ==
  /\ page = "clog" /\ n \in queries /\ queries' = queries \ {n} /\ pageLoading' = FALSE
  /\ UNCHANGED <<page, lastQuery, shownAnswer, queryFails, queriesCrossed>>

PageNext ==
  \/ fetchWALRecords \/ fetchCLOGStats \/ handleExecute \/ ctrlEnter
  \/ \E n \in 1..MaxQueries : answerArrives(n) \/ answerFails(n) \/ answerEmpty(n)
(* Fairness: requests end.                                                 *)
QueryEnds(n) == answerArrives(n) \/ answerFails(n) \/ answerEmpty(n)
PageFair == \A n \in 1..MaxQueries : WF_pageVars(QueryEnds(n))
PageSpec == PageInit /\ [][PageNext]_pageVars /\ PageFair

-----------------------------------------------------------------------------
(* The spinner is there while something is asked, and a page at rest shows *)
(* the answer to the last thing that was asked, or nothing because that    *)
(* failed, as long as requests did not overlap.  (The CLOG page may keep   *)
(* an older answer.)                                                       *)
AnswerIsLast ==
  ~queriesCrossed =>
    /\ queries # {} => pageLoading
    /\ (queries = {} /\ page # "clog") => shownAnswer \in {0, lastQuery}

(* The spinner of a page stops, also when requests overlap and fail.       *)
SpinnerStops == []<>(~pageLoading)
=============================================================================
