------------------------------ MODULE Comparison ------------------------------
(***************************************************************************)
(* POST /comparisons: create_comparison of app/service.py, beside the      *)
(* uploads, compactions and reads of Ingest.                               *)
(*                                                                         *)
(* A comparison takes no lock to read: the two session rows and the two    *)
(* sets of chunk rows are four statements, each with a snapshot of its     *)
(* own.  Its INSERT refers to both sessions, so PostgreSQL locks their     *)
(* rows FOR KEY SHARE, which conflicts with the FOR UPDATE of a writer:    *)
(* a comparison waits for compactions and a compaction for comparisons     *)
(* (that each gets its turn is a matter of Resources).                     *)
(*                                                                         *)
(* StreamWalk has the walk over the blocks; here it is what it computes.   *)
(***************************************************************************)
EXTENDS Ingest

CONSTANTS Comparers,       \* threads that serve comparison requests
          Pairs,           \* the sessions clients compare, baseline first
          MaxComparisons   \* bound: none is requested beyond this many records

ASSUME PairsAssumption == Pairs \subseteq Sessions \X Sessions
ASSUME MaxComparisonsAssumption == MaxComparisons \in Nat

Side == {"baseline", "candidate"}

\* The error codes of the endpoint, and "ok" for its 201.
CompareCodes ==
  {"ok", "session_not_found", "comparison_state_conflict",
   "comparison_integrity_error", "server_error"}

ASSUME NoneIsNoAnswer == None \notin CompareCodes

VARIABLES comparisons,     \* the committed rows of table comparisons, oldest first
          comparer         \* what each comparer is doing

compareVars == <<comparisons, comparer>>
allVars == <<vars, compareVars>>

-------------------------------------------------------------------------------
\* The two sides are treated one after the other: `side` is the next one.
NoComparison ==
  [pc |-> "idle", side |-> "baseline", req |-> None, row |-> [x \in Side |-> None],
   bytes |-> [x \in Side |-> None], shares |-> {}, code |-> None]

AllInit == Init /\ comparisons = <<>> /\ comparer = [k \in Comparers |-> NoComparison]

\* A phase is over when both sides have been through it.
Advance(c, phase) ==
  IF c.side = "baseline" THEN [c EXCEPT !.side = "candidate"]
                         ELSE [c EXCEPT !.side = "baseline", !.pc = phase]

Working(k, phase, new) ==
  /\ comparer[k].pc = phase
  /\ comparer' = [comparer EXCEPT ![k] = new]
  /\ UNCHANGED vars

AnswerCompare(c, code) == [c EXCEPT !.pc = "done", !.code = code]

RequestComparison(k, pair) ==
  /\ Len(comparisons) < MaxComparisons
  /\ Working(k, "idle", [NoComparison EXCEPT
       !.pc = "find", !.req = [x \in Side |-> IF x = "baseline" THEN pair[1] ELSE pair[2]]])
  /\ UNCHANGED comparisons

\* db.get: a session compared with itself is loaded once, from then on the
\* identity map answers.
Found(c) ==
  IF c.side = "candidate" /\ c.req["candidate"] = c.req["baseline"]
  THEN c.row["baseline"] ELSE upload_sessions[c.req[c.side]]

\* Both rows are loaded before the state of either is checked.
FindSide(k) ==
  LET c    == comparer[k]
      next == [c EXCEPT !.row[c.side] = Found(c)]
  IN  /\ Working(k, "find",
           IF Found(c) = None THEN AnswerCompare(c, "session_not_found")
           ELSE IF c.side = "candidate" /\ \E x \in Side : next.row[x].status # "sealed"
           THEN AnswerCompare(next, "comparison_state_conflict")
           ELSE Advance(next, "verify"))
      /\ UNCHANGED comparisons

\* _verified_archive_chunks reads and verifies every chunk of one side.
VerifySide(k) ==
  LET c   == comparer[k]
      C   == chunks[c.req[c.side]]
      row == c.row[c.side]
  IN  /\ Working(k, "verify",
           IF ArchiveVerifies(C, row.total_bytes, row.whole_sha256)
           THEN Advance([c EXCEPT !.bytes[c.side] = Whole(C, row.total_bytes)], "insert")
           ELSE AnswerCompare(c, "comparison_integrity_error"))
      /\ UNCHANGED comparisons

\* The foreign keys of the INSERT: a row locked FOR UPDATE makes it wait.
InsertSide(k) ==
  LET c == comparer[k]
      s == c.req[c.side]
  IN  /\ Working(k, "insert", Advance([c EXCEPT !.shares = @ \cup {s}], "commit"))
      /\ lock[s] = None
      /\ UNCHANGED comparisons

-------------------------------------------------------------------------------
Conclusion_ByTotals(first, totals) ==
  IF first = None THEN "identical"
  ELSE IF totals["baseline"] # totals["candidate"] THEN "length_differs"
  ELSE "content_differs"

Conclusion(first, totals) ==
  IF first = None THEN "identical"
  ELSE IF first = Min({totals["baseline"], totals["candidate"]}) THEN "length_differs"
  ELSE "content_differs"

\* The row that is stored: the result and a snapshot of both sides.
ComparisonRow(c) ==
  LET total == [x \in Side |-> c.row[x].total_bytes]
      first == FirstDifference(c.bytes["baseline"], c.bytes["candidate"])
  IN  [session |-> c.req, total_bytes |-> total,
       whole_sha256 |-> [x \in Side |-> c.row[x].whole_sha256],
       common_prefix_bytes |-> CommonPrefix(c.bytes["baseline"], c.bytes["candidate"]),
       first_difference_offset |-> first,
       conclusion |-> Conclusion(first, total)]

CommitComparison(k) ==
  /\ Working(k, "commit", [comparer[k] EXCEPT !.pc = "refresh", !.shares = {}])
  /\ comparisons' = Append(comparisons, ComparisonRow(comparer[k]))

\* db.refresh(record), then the 201.
AnswerComparison(k) ==
  /\ Working(k, "refresh", AnswerCompare(comparer[k], "ok"))
  /\ UNCHANGED comparisons

\* As for the other handlers of Ingest: the answer to COMMIT is lost, or any
\* statement fails, and the locks go at once or when the session is closed.
ComparisonUnanswered(k) ==
  /\ Working(k, "commit", [AnswerCompare(comparer[k], "server_error") EXCEPT !.shares = {}])
  /\ comparisons' = Append(comparisons, ComparisonRow(comparer[k]))

ComparisonError(k) ==
  /\ comparer[k].pc \notin {"idle", "done"}
  /\ \E kept \in {{}, comparer[k].shares} :
       Working(k, comparer[k].pc,
               [AnswerCompare(comparer[k], "server_error") EXCEPT !.shares = kept])
  /\ UNCHANGED comparisons

CloseComparison(k) == Working(k, "done", NoComparison) /\ UNCHANGED comparisons

-------------------------------------------------------------------------------
\* FOR UPDATE is granted only on rows that no comparison holds FOR KEY SHARE.
GrantsRespectShares ==
  \A s \in Sessions : lock'[s] \notin {None, lock[s]} =>
    \A k \in Comparers : s \notin comparer[k].shares

Beside(A) == A /\ GrantsRespectShares /\ UNCHANGED compareVars

\* The API process dies with all its requests.
ProcessDies ==
  /\ \E w \in Workers : worker[w].pc # "idle" \/ \E k \in Comparers : comparer[k].pc # "idle"
  /\ lock' = [s \in Sessions |-> None]
  /\ worker' = [w \in Workers |-> Idle]
  /\ comparer' = [k \in Comparers |-> NoComparison]
  /\ UNCHANGED <<upload_sessions, chunks, audit_events, comparisons>>

CompareNext ==
  \/ Beside(Serve)
  \/ \E k \in Comparers, pair \in Pairs : RequestComparison(k, pair)
  \/ \E k \in Comparers :
       \/ FindSide(k) \/ VerifySide(k) \/ InsertSide(k) \/ CommitComparison(k)
       \/ AnswerComparison(k) \/ CloseComparison(k)
       \/ ComparisonUnanswered(k) \/ ComparisonError(k)
  \/ ProcessDies

CompareSpec == AllInit /\ [][CompareNext]_allVars

-------------------------------------------------------------------------------
IsPrefixOf(x, y) == Len(x) <= Len(y) /\ SubSeq(y, 1, Len(x)) = x

TrueConclusion(x, y) ==
  IF x = y THEN "identical"
  ELSE IF IsPrefixOf(x, y) \/ IsPrefixOf(y, x) THEN "length_differs"
  ELSE "content_differs"

\* What a stored record says of two byte strings is true of them.
ResultIsTrue(r, x, y) ==
  LET n == r.common_prefix_bytes
  IN  /\ r.conclusion = TrueConclusion(x, y)
      /\ r.first_difference_offset = IF r.conclusion = "identical" THEN None ELSE n
      /\ SubSeq(x, 1, n) = SubSeq(y, 1, n)
      /\ n + 1 \in DOMAIN x \cap DOMAIN y => x[n + 1] # y[n + 1]

RecordIsTrue(r) ==
  LET Row(x) == upload_sessions[r.session[x]]
      Bytes(x) == Whole(chunks[r.session[x]], r.total_bytes[x])
  IN  /\ \A x \in Side : /\ Row(x).status = "sealed"
                         /\ r.total_bytes[x] = Row(x).total_bytes
                         /\ r.whole_sha256[x] = Row(x).whole_sha256
      /\ ResultIsTrue(r, Bytes("baseline"), Bytes("candidate"))

\* Every stored comparison is true of the packages as they are archived now, and
\* stays true: whatever compaction came before, between or after its four
\* reads, and for retries, which store a record of their own.
ComparisonsAreTrue ==
  \A i \in 1..Len(comparisons) : RecordIsTrue(comparisons[i])

\* Two sealed packages can be compared at any time: the verification never takes
\* a compaction in progress, or one between two reads, for a damaged archive.
NoFalseAlarm ==
  \A k \in Comparers : comparer[k].code # "comparison_integrity_error"
==============================================================================
