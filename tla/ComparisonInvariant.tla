-------------------------- MODULE ComparisonInvariant --------------------------
(***************************************************************************)
(* The inductive invariant of Comparison.                                  *)
(*                                                                         *)
(* A comparison reads four times without a lock.  What it has read stays   *)
(* true for another reason: it goes on only with sealed sessions, whose    *)
(* row no step changes, and whose bytes no compaction changes.             *)
(***************************************************************************)
EXTENDS Comparison, PromiseInvariant

ComparerState ==
  [pc : {"idle", "find", "verify", "insert", "commit", "refresh", "done"},
   side : Side,
   req : {None} \cup [Side -> Sessions],
   row : [Side -> {None} \cup UploadSession],
   bytes : [Side -> {None} \cup Blobs],
   shares : SUBSET Sessions,
   code : {None} \cup CompareCodes]

ComparisonRecord ==
  [session : [Side -> Sessions],
   total_bytes : [Side -> 0..MaxBytes],
   whole_sha256 : [Side -> Digests],
   common_prefix_bytes : Nat,
   first_difference_offset : {None} \cup Nat,
   conclusion : {"identical", "length_differs", "content_differs"}]

CompareTypeOK ==
  /\ comparisons \in Seq(ComparisonRecord)
  /\ comparer \in [Comparers -> ComparerState]

-------------------------------------------------------------------------------
\* `row` is the row of session s, for ever.
SealedAs(s, row) == Registered(s) /\ row = upload_sessions[s] /\ row.status = "sealed"

\* The comparison c has the bytes of its side x.
HasBytes(c, x) == c.bytes[x] = Whole(chunks[c.req[x]], c.row[x].total_bytes)

\* What the comparison c relies on at each place of create_comparison.
ComparerKnows(c) ==
  /\ c.pc \in {"find", "verify", "insert", "commit"} => c.req \in [Side -> Sessions]
  /\ c.pc = "find" /\ c.side = "candidate" =>
       /\ Registered(c.req["baseline"])
       /\ EarlierRow(c.row["baseline"], upload_sessions[c.req["baseline"]])
  /\ c.pc \in {"verify", "insert", "commit"} => \A x \in Side : SealedAs(c.req[x], c.row[x])
  /\ c.pc = "verify" /\ c.side = "candidate" => HasBytes(c, "baseline")
  /\ c.pc \in {"insert", "commit"} => \A x \in Side : HasBytes(c, x)
  /\ c.code # "comparison_integrity_error"

\* A stored record is true, and of sessions that exist.
RecordKnown(r) == RecordIsTrue(r) /\ \A x \in Side : Registered(r.session[x])

CompareInv ==
  /\ PromiseInv
  /\ CompareTypeOK
  /\ \A k \in Comparers : ComparerKnows(comparer[k])
  /\ \A i \in 1..Len(comparisons) : RecordKnown(comparisons[i])
==============================================================================
