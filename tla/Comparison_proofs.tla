--------------------------- MODULE Comparison_proofs ---------------------------
(***************************************************************************)
(* Comparisons are true of the archive, and verification never fails,      *)
(* beside any number of uploads, compactions and restarts.                 *)
(*                                                                         *)
(* CompareInv is inductive: a step of the upload service keeps PromiseInv  *)
(* and, of every sealed session, the row and the bytes, which is all that  *)
(* a comparison has read; a step of a comparison leaves the tables of the  *)
(* service alone.                                                          *)
(***************************************************************************)
EXTENDS ComparisonInvariant, Ingest_proofs

(***************************************************************************)
(* The result.                                                             *)
(***************************************************************************)
\* The three answers of create_comparison name the three ways in which two byte
\* strings can be related.
LEMMA ConclusionIsTrue ==
  ASSUME NEW x \in Blobs, NEW y \in Blobs, NEW totals,
         totals["baseline"] = Len(x), totals["candidate"] = Len(y)
  PROVE  Conclusion(FirstDifference(x, y), totals) = TrueConclusion(x, y)
<1> DEFINE n == CommonPrefix(x, y)
           first == FirstDifference(x, y)
           m == Min({totals["baseline"], totals["candidate"]})
<1>1. /\ x \in Seq(Byte) /\ y \in Seq(Byte) /\ Len(x) \in Nat /\ Len(y) \in Nat
  BY BlobIsSequence, MaxBytesAssumption
<1>2. /\ n \in Nat /\ n <= Len(x) /\ n <= Len(y)
      /\ \A i \in 1..n : x[i] = y[i]
      /\ n < Len(x) /\ n < Len(y) => x[n + 1] # y[n + 1]
  BY <1>1, PrefixIsCommon
<1>3. m \in {Len(x), Len(y)} /\ m <= Len(x) /\ m <= Len(y)  BY <1>1, MinOfTwo
<1>4. first = IF Len(x) = Len(y) /\ n = Len(x) THEN None ELSE n  BY DEF FirstDifference
<1>5. Conclusion(first, totals) =
        IF first = None THEN "identical"
        ELSE IF first = m THEN "length_differs" ELSE "content_differs"
  BY DEF Conclusion
<1> HIDE DEF n, first, m
<1>6. n # None  BY <1>2, NoneAssumption
<1>7. Len(x) = Len(y) /\ n = Len(x) => x = y  BY <1>1, <1>2, SeqEqual
<1>8. x = y => Len(x) = Len(y) /\ n = Len(x)  BY <1>1, <1>2
<1>9. first = None <=> x = y  BY <1>4, <1>6, <1>7, <1>8
<1>10. ASSUME n = m  PROVE IsPrefixOf(x, y) \/ IsPrefixOf(y, x)
  <2>1. CASE n = Len(x)
    <3>1. SubSeq(y, 1, n) \in Seq(Byte) /\ Len(SubSeq(y, 1, n)) = n
          /\ \A i \in 1..n : SubSeq(y, 1, n)[i] = y[i]
      BY <1>1, <1>2
    <3>2. SubSeq(y, 1, n) = x  BY <1>1, <1>2, <2>1, <3>1, SeqEqual
    <3> QED  BY <1>2, <2>1, <3>2 DEF IsPrefixOf
  <2>2. CASE n = Len(y)
    <3>1. SubSeq(x, 1, n) \in Seq(Byte) /\ Len(SubSeq(x, 1, n)) = n
          /\ \A i \in 1..n : SubSeq(x, 1, n)[i] = x[i]
      BY <1>1, <1>2
    <3>2. SubSeq(x, 1, n) = y  BY <1>1, <1>2, <2>2, <3>1, SeqEqual
    <3> QED  BY <1>2, <2>2, <3>2 DEF IsPrefixOf
  <2> QED  BY <1>3, <1>10, <2>1, <2>2
<1>11. ASSUME n # m  PROVE ~IsPrefixOf(x, y) /\ ~IsPrefixOf(y, x)
  <2>1. n < Len(x) /\ n < Len(y) /\ x[n + 1] # y[n + 1]  BY <1>1, <1>2, <1>3, <1>11
  <2>2. ASSUME IsPrefixOf(x, y)  PROVE FALSE
    <3>1. Len(x) <= Len(y) /\ SubSeq(y, 1, Len(x)) = x  BY <2>2 DEF IsPrefixOf
    <3>2. n + 1 \in 1..Len(x)  BY <1>1, <1>2, <2>1
    <3>3. SubSeq(y, 1, Len(x))[n + 1] = y[n + 1]  BY <1>1, <3>1, <3>2
    <3> QED  BY <2>1, <3>1, <3>3
  <2>3. ASSUME IsPrefixOf(y, x)  PROVE FALSE
    <3>1. Len(y) <= Len(x) /\ SubSeq(x, 1, Len(y)) = y  BY <2>3 DEF IsPrefixOf
    <3>2. n + 1 \in 1..Len(y)  BY <1>1, <1>2, <2>1
    <3>3. SubSeq(x, 1, Len(y))[n + 1] = x[n + 1]  BY <1>1, <3>1, <3>2
    <3> QED  BY <2>1, <3>1, <3>3
  <2> QED  BY <2>2, <2>3
<1>12. CASE x = y  BY <1>5, <1>9, <1>12 DEF TrueConclusion, first
<1>13. CASE x # y
  <2>1. first = n  BY <1>4, <1>9, <1>13
  <2> QED  BY <1>5, <1>9, <1>10, <1>11, <1>13, <2>1 DEF TrueConclusion, first
<1> QED  BY <1>12, <1>13

\* The record that create_comparison makes of two verified archives.
LEMMA ResultIsRight ==
  ASSUME NEW x \in Blobs, NEW y \in Blobs, NEW totals, NEW r,
         totals["baseline"] = Len(x), totals["candidate"] = Len(y),
         r.common_prefix_bytes = CommonPrefix(x, y),
         r.first_difference_offset = FirstDifference(x, y),
         r.conclusion = Conclusion(FirstDifference(x, y), totals)
  PROVE  /\ ResultIsTrue(r, x, y)
         /\ r.common_prefix_bytes \in Nat
         /\ r.first_difference_offset \in {None} \cup Nat
         /\ r.conclusion \in {"identical", "length_differs", "content_differs"}
<1> DEFINE n == CommonPrefix(x, y)
<1>1. /\ x \in Seq(Byte) /\ y \in Seq(Byte) /\ Len(x) \in Nat /\ Len(y) \in Nat
  BY BlobIsSequence, MaxBytesAssumption
<1>2. /\ n \in Nat /\ n <= Len(x) /\ n <= Len(y)
      /\ \A i \in 1..n : x[i] = y[i]
      /\ n < Len(x) /\ n < Len(y) => x[n + 1] # y[n + 1]
  BY <1>1, PrefixIsCommon
<1>3. FirstDifference(x, y) = IF Len(x) = Len(y) /\ n = Len(x) THEN None ELSE n
  BY DEF FirstDifference
<1>4. Conclusion(FirstDifference(x, y), totals) = TrueConclusion(x, y)
  BY ConclusionIsTrue
<1> HIDE DEF n
<1>5. x = y <=> Len(x) = Len(y) /\ n = Len(x)
  <2>1. Len(x) = Len(y) /\ n = Len(x) => x = y  BY <1>1, <1>2, SeqEqual
  <2>2. x = y => Len(x) = Len(y) /\ n = Len(x)  BY <1>1, <1>2
  <2> QED  BY <2>1, <2>2
<1>6. r.conclusion = "identical" <=> x = y  BY <1>4 DEF TrueConclusion
<1>7. r.first_difference_offset = IF r.conclusion = "identical" THEN None ELSE n
  BY <1>3, <1>5, <1>6
<1>8. SubSeq(x, 1, n) = SubSeq(y, 1, n)
  <2>1. /\ SubSeq(x, 1, n) \in Seq(Byte) /\ Len(SubSeq(x, 1, n)) = n
        /\ SubSeq(y, 1, n) \in Seq(Byte) /\ Len(SubSeq(y, 1, n)) = n
        /\ \A i \in 1..n : SubSeq(x, 1, n)[i] = x[i] /\ SubSeq(y, 1, n)[i] = y[i]
    BY <1>1, <1>2
  <2> QED  BY <1>2, <2>1, SeqEqual
<1>9. n + 1 \in DOMAIN x \cap DOMAIN y => x[n + 1] # y[n + 1]
  <2>1. DOMAIN x = 1..Len(x) /\ DOMAIN y = 1..Len(y)  BY <1>1, LenProperties
  <2>2. n + 1 \in 1..Len(x) /\ n + 1 \in 1..Len(y) => x[n + 1] # y[n + 1]
    BY <1>1, <1>2
  <2> QED  BY <2>1, <2>2
<1>10. r.common_prefix_bytes = n  BY DEF n
<1>11. ResultIsTrue(r, x, y)  BY <1>4, <1>7, <1>8, <1>9, <1>10 DEF ResultIsTrue
<1>12. r.conclusion \in {"identical", "length_differs", "content_differs"}
  BY <1>4 DEF TrueConclusion
<1> QED  BY <1>2, <1>7, <1>10, <1>11, <1>12

-------------------------------------------------------------------------------
(***************************************************************************)
(* What a comparison has read stays true.                                  *)
(***************************************************************************)
\* The tables go on as they were, or as a step of the service leaves them: no
\* session disappears, and a sealed one keeps its row and its bytes.
TablesGoOn ==
  \A s \in Sessions : Registered(s) =>
    /\ upload_sessions'[s] # None
    /\ SamePackage(upload_sessions[s], chunks[s], upload_sessions'[s], chunks'[s])
    /\ upload_sessions[s].status # "active" => upload_sessions'[s] = upload_sessions[s]

\* A sealed session keeps its row, and the bytes of its archive.
LEMMA SealedStays ==
  ASSUME PromiseInv, TablesGoOn, NEW s \in Sessions, NEW row, SealedAs(s, row)
  PROVE  /\ SealedAs(s, row)'
         /\ Whole(chunks'[s], row.total_bytes) = Whole(chunks[s], row.total_bytes)
<1>1. /\ Registered(s) /\ row = upload_sessions[s] /\ row.status = "sealed"
  BY DEF SealedAs
<1>2. /\ row \in UploadSession /\ row.confirmed_offset \in Nat /\ row.total_bytes \in Nat
      /\ ArchiveAgrees(row, chunks[s])
  BY <1>1, StoredFacts DEF PromiseInv
<1>3. row.confirmed_offset = row.total_bytes  BY <1>1, <1>2 DEF ArchiveAgrees
<1>4. /\ upload_sessions'[s] # None /\ upload_sessions'[s] = row
      /\ Whole(chunks'[s], row.confirmed_offset) = Whole(chunks[s], row.confirmed_offset)
  BY <1>1 DEF TablesGoOn, SamePackage
<1> QED  BY <1>1, <1>3, <1>4 DEF SealedAs, Registered

\* A comparison that is not served knows later what it knew before.
LEMMA KnowledgeStays ==
  ASSUME PromiseInv, PromiseInv', TablesGoOn, NEW c \in ComparerState, ComparerKnows(c)
  PROVE  ComparerKnows(c)'
<1> USE DEF Side
<1>1. c.pc \in {"find", "verify", "insert", "commit"} => c.req \in [Side -> Sessions]
  BY DEF ComparerKnows
<1>2. ASSUME c.pc = "find", c.side = "candidate"
      PROVE  /\ Registered(c.req["baseline"])'
             /\ EarlierRow(c.row["baseline"], upload_sessions'[c.req["baseline"]])
  <2> DEFINE s == c.req["baseline"]
  <2>1. s \in Sessions /\ Registered(s) /\ EarlierRow(c.row["baseline"], upload_sessions[s])
    BY <1>1, <1>2 DEF ComparerKnows
  <2>2. /\ upload_sessions'[s] # None
        /\ SamePackage(upload_sessions[s], chunks[s], upload_sessions'[s], chunks'[s])
        /\ upload_sessions[s].status # "active" => upload_sessions'[s] = upload_sessions[s]
    BY <2>1 DEF TablesGoOn
  <2>3. upload_sessions[s] \in UploadSession /\ upload_sessions'[s] \in UploadSession
    BY <2>1, <2>2 DEF PromiseInv, Inv, TypeOK, Registered
  <2> HIDE DEF s
  <2>4. EarlierRow(c.row["baseline"], upload_sessions'[s])
    BY <2>1, <2>2, <2>3, EarlierKept
  <2> QED  BY <2>2, <2>4 DEF s, Registered
<1>3. ASSUME NEW x \in Side, c.pc \in {"verify", "insert", "commit"}
      PROVE  /\ SealedAs(c.req[x], c.row[x])'
             /\ HasBytes(c, x) => HasBytes(c, x)'
  <2>1. c.req[x] \in Sessions /\ SealedAs(c.req[x], c.row[x])
    BY <1>1, <1>3 DEF ComparerKnows
  <2> QED  BY <2>1, SealedStays DEF HasBytes
<1>4. c.pc = "verify" /\ c.side = "candidate" => HasBytes(c, "baseline")'
  BY <1>3 DEF ComparerKnows
<1>5. c.pc \in {"insert", "commit"} => \A x \in Side : HasBytes(c, x)'
  BY <1>3 DEF ComparerKnows
<1>6. c.code # "comparison_integrity_error"  BY DEF ComparerKnows
<1> QED  BY <1>1, <1>2, <1>3, <1>4, <1>5, <1>6 DEF ComparerKnows

\* A true record stays true.
LEMMA RecordsStay ==
  ASSUME PromiseInv, TablesGoOn, NEW r \in ComparisonRecord, RecordKnown(r)
  PROVE  RecordKnown(r)'
<1> DEFINE Row(x) == upload_sessions[r.session[x]]
<1>1. ASSUME NEW x \in Side
      PROVE  /\ Registered(r.session[x])'
             /\ upload_sessions'[r.session[x]] = Row(x)
             /\ Whole(chunks'[r.session[x]], r.total_bytes[x])
                  = Whole(chunks[r.session[x]], r.total_bytes[x])
  <2>1. r.session[x] \in Sessions  BY DEF ComparisonRecord
  <2>2. Registered(r.session[x]) /\ Row(x).status = "sealed"
        /\ r.total_bytes[x] = Row(x).total_bytes
    BY DEF RecordKnown, RecordIsTrue
  <2>3. SealedAs(r.session[x], Row(x))  BY <2>2 DEF SealedAs
  <2> QED  BY <2>1, <2>2, <2>3, SealedStays DEF SealedAs
<1>2. \A x \in Side : Registered(r.session[x])'  BY <1>1
<1>3. "baseline" \in Side /\ "candidate" \in Side  BY DEF Side
<1>4. RecordIsTrue(r)'
  BY <1>1, <1>3 DEF RecordKnown, RecordIsTrue
<1> QED  BY <1>2, <1>4 DEF RecordKnown

\* A step of the upload service keeps the invariant of the comparisons.
LEMMA BesideKeeps ==
  ASSUME CompareInv, PromiseInv', TablesGoOn, UNCHANGED compareVars
  PROVE  CompareInv'
<1>1. PromiseInv /\ CompareTypeOK  BY DEF CompareInv
<1>2. comparer' = comparer /\ comparisons' = comparisons  BY DEF compareVars
<1>3. CompareTypeOK'  BY <1>1, <1>2 DEF CompareTypeOK
<1>4. ASSUME NEW k \in Comparers  PROVE ComparerKnows(comparer[k])'
  <2>1. comparer[k] \in ComparerState /\ ComparerKnows(comparer[k])
    BY <1>1 DEF CompareTypeOK, CompareInv
  <2> QED  BY <1>1, <1>2, <2>1, KnowledgeStays
<1>5. ASSUME NEW i \in 1..Len(comparisons)  PROVE RecordKnown(comparisons[i])'
  <2>1. comparisons[i] \in ComparisonRecord /\ RecordKnown(comparisons[i])
    BY <1>1 DEF CompareTypeOK, CompareInv
  <2> QED  BY <1>1, <1>2, <2>1, RecordsStay
<1> QED  BY <1>2, <1>3, <1>4, <1>5 DEF CompareInv
-------------------------------------------------------------------------------
(***************************************************************************)
(* The steps of a comparison.                                              *)
(***************************************************************************)
\* A comparison that moves from one of its states to another, storing nothing.
LEMMA ComparerMoves ==
  ASSUME CompareInv, NEW k \in Comparers, NEW n, n \in ComparerState, ComparerKnows(n),
         comparer' = [comparer EXCEPT ![k] = n], UNCHANGED vars, UNCHANGED comparisons
  PROVE  CompareInv'
<1>1. PromiseInv /\ CompareTypeOK  BY DEF CompareInv
<1>2. UNCHANGED <<upload_sessions, chunks>>  BY DEF vars
<1>3. CompareTypeOK'  BY <1>1 DEF CompareTypeOK
<1>4. PromiseInv'  BY <1>1, PromisesPreserved
<1>5. \A c : ComparerKnows(c)' <=> ComparerKnows(c)
  BY <1>2 DEF ComparerKnows, SealedAs, HasBytes, Registered
<1>6. ASSUME NEW j \in Comparers  PROVE ComparerKnows(comparer[j])'
  <2>1. comparer'[j] = IF j = k THEN n ELSE comparer[j]  BY <1>1 DEF CompareTypeOK
  <2>2. ComparerKnows(comparer[j])  BY DEF CompareInv
  <2>3. ComparerKnows(comparer'[j])  BY <2>1, <2>2
  <2> QED  BY <2>3, <1>2 DEF ComparerKnows, SealedAs, HasBytes, Registered
<1>7. ASSUME NEW i \in 1..Len(comparisons)  PROVE RecordKnown(comparisons[i])'
  <2>1. RecordKnown(comparisons[i])  BY DEF CompareInv
  <2> QED  BY <1>2, <2>1 DEF RecordKnown, RecordIsTrue, Registered
<1> QED  BY <1>3, <1>4, <1>6, <1>7 DEF CompareInv

\* An answer relies on nothing, unless it accuses the archive.
LEMMA AnswerKnowsNothing ==
  ASSUME NEW c \in ComparerState, NEW code, code # "comparison_integrity_error",
         code \in CompareCodes,
         NEW held \in SUBSET Sessions
  PROVE  /\ AnswerCompare(c, code) \in ComparerState
         /\ ComparerKnows(AnswerCompare(c, code))
         /\ [AnswerCompare(c, code) EXCEPT !.shares = held] \in ComparerState
         /\ ComparerKnows([AnswerCompare(c, code) EXCEPT !.shares = held])
<1> DEFINE a == AnswerCompare(c, code)
           b == [a EXCEPT !.shares = held]
<1>1. a \in ComparerState /\ a.pc = "done" /\ a.code = code
  BY DEF AnswerCompare, ComparerState
<1> HIDE DEF a
<1>2. b \in ComparerState /\ b.pc = "done" /\ b.code = code
  BY <1>1 DEF ComparerState
<1> HIDE DEF b
<1>3. ComparerKnows(a) /\ ComparerKnows(b)  BY <1>1, <1>2 DEF ComparerKnows
<1> QED  BY <1>1, <1>2, <1>3 DEF a, b

\* A comparison that has not begun.
LEMMA NoComparisonYet ==
  NoComparison \in ComparerState /\ ComparerKnows(NoComparison)
<1>1. NoComparison \in ComparerState  BY DEF NoComparison, ComparerState, Side
<1>2. NoComparison.pc = "idle" /\ NoComparison.code = None  BY DEF NoComparison
<1>3. None # "comparison_integrity_error"  BY NoneIsNoAnswer DEF CompareCodes
<1> QED  BY <1>1, <1>2, <1>3 DEF ComparerKnows
\* Two rows are found, and both are sealed before the archives are read: then
\* they are the rows for ever, although they were read at different times.
LEMMA FindSideKeeps ==
  ASSUME CompareInv, NEW k \in Comparers, FindSide(k)
  PROVE  CompareInv'
<1> USE DEF Side
<1> DEFINE c     == comparer[k]
           found == Found(c)
           next  == [c EXCEPT !.row[c.side] = found]
           n     == IF found = None THEN AnswerCompare(c, "session_not_found")
                    ELSE IF c.side = "candidate" /\ \E x \in Side : next.row[x].status # "sealed"
                    THEN AnswerCompare(next, "comparison_state_conflict")
                    ELSE Advance(next, "verify")
<1>1. /\ c.pc = "find" /\ comparer' = [comparer EXCEPT ![k] = n]
      /\ UNCHANGED vars /\ UNCHANGED comparisons
  BY DEF FindSide, Working
<1>2. /\ PromiseInv /\ Inv /\ TypeOK /\ CompareTypeOK /\ c \in ComparerState
      /\ ComparerKnows(c)
  BY DEF CompareInv, CompareTypeOK, PromiseInv, Inv
<1>3. /\ c.req \in [Side -> Sessions] /\ c.side \in Side
      /\ c.row \in [Side -> {None} \cup UploadSession]
      /\ c.code # "comparison_integrity_error"
  BY <1>1, <1>2 DEF ComparerKnows, ComparerState
<1> DEFINE b  == c.req["baseline"]
           d  == c.req["candidate"]
           rb == c.row["baseline"]
<1>4. b \in Sessions /\ d \in Sessions  BY <1>3
<1>5. c.side = "candidate" => Registered(b) /\ EarlierRow(rb, upload_sessions[b])
  BY <1>1, <1>2 DEF ComparerKnows
<1>6. c.side = "baseline" => found = upload_sessions[b]
  BY DEF Found
<1>7. c.side = "candidate" => found = IF d = b THEN rb ELSE upload_sessions[d]
  BY DEF Found
<1>8. c.side = "baseline" \/ c.side = "candidate"  BY <1>3
<1> HIDE DEF found
<1>9. found \in {None} \cup UploadSession
  <2>1. upload_sessions[b] \in {None} \cup UploadSession
        /\ upload_sessions[d] \in {None} \cup UploadSession
    BY <1>2, <1>4 DEF TypeOK
  <2>2. rb \in {None} \cup UploadSession  BY <1>3
  <2> HIDE DEF b, d, rb
  <2> QED  BY <1>6, <1>7, <1>8, <2>1, <2>2
<1>10. next \in ComparerState
  BY <1>2, <1>3, <1>9 DEF ComparerState
<1>11. /\ next.pc = "find" /\ next.side = c.side /\ next.req = c.req /\ next.code = c.code
       /\ next.row = [c.row EXCEPT ![c.side] = found]
  BY <1>1, <1>2 DEF ComparerState
<1>12. CASE found = None
  <2>1. n = AnswerCompare(c, "session_not_found")  BY <1>12
  <2>2. n \in ComparerState /\ ComparerKnows(n)
    BY <1>2, <2>1, AnswerKnowsNothing DEF CompareCodes
  <2> QED  BY <1>1, <2>2, ComparerMoves
<1>13. CASE found # None /\ c.side = "candidate" /\ \E x \in Side : next.row[x].status # "sealed"
  <2>1. n = AnswerCompare(next, "comparison_state_conflict")  BY <1>13
  <2> HIDE DEF next
  <2>2. n \in ComparerState /\ ComparerKnows(n)
    BY <1>10, <2>1, AnswerKnowsNothing DEF CompareCodes
  <2> QED  BY <1>1, <2>2, ComparerMoves
<1>14. CASE found # None /\ c.side = "candidate" /\ \A x \in Side : next.row[x].status = "sealed"
  <2>1. n = [next EXCEPT !.side = "baseline", !.pc = "verify"]
    <3>1. n = Advance(next, "verify")  BY <1>14
    <3> HIDE DEF n, next
    <3> QED  BY <3>1, <1>11, <1>14 DEF Advance
  <2>2. next.row["baseline"] = rb /\ next.row["candidate"] = found
    BY <1>3, <1>11, <1>14
  <2>3. rb.status = "sealed" /\ found.status = "sealed"
    <3>1. next.row["baseline"].status = "sealed" /\ next.row["candidate"].status = "sealed"
      BY <1>14
    <3> QED  BY <2>2, <3>1
  <2> HIDE DEF next, rb, b, d, n
  <2>4. upload_sessions[b] = rb /\ Registered(b)  BY <1>5, <1>14, <2>3 DEF EarlierRow
  <2>5. upload_sessions[d] = found /\ Registered(d)
    BY <1>7, <1>14, <2>4 DEF Registered
  <2>6. /\ n \in ComparerState /\ n.pc = "verify" /\ n.side = "baseline" /\ n.req = c.req
        /\ n.code = c.code /\ n.row = next.row
    BY <1>10, <1>11, <2>1 DEF ComparerState
  <2>7. \A x \in Side : SealedAs(n.req[x], n.row[x])
    BY <2>2, <2>3, <2>4, <2>5, <2>6 DEF SealedAs, b, d
  <2>8. ComparerKnows(n)  BY <1>3, <2>6, <2>7 DEF ComparerKnows
  <2> QED  BY <1>1, <2>6, <2>8, ComparerMoves
<1>15. CASE found # None /\ c.side = "baseline"
  <2>1. n = [next EXCEPT !.side = "candidate"]
    <3>1. n = Advance(next, "verify")  BY <1>15
    <3> HIDE DEF n, next
    <3> QED  BY <3>1, <1>11, <1>15 DEF Advance
  <2>2. next.row["baseline"] = found  BY <1>3, <1>11, <1>15
  <2>3. Registered(b) /\ found = upload_sessions[b]  BY <1>6, <1>15 DEF Registered
  <2> HIDE DEF next, rb, d, n
  <2>4. /\ n \in ComparerState /\ n.pc = "find" /\ n.side = "candidate" /\ n.req = c.req
        /\ n.code = c.code /\ n.row = next.row
    BY <1>10, <1>11, <2>1 DEF ComparerState
  <2>5. EarlierRow(found, upload_sessions[b])
    <3>1. found \in UploadSession  BY <1>9, <1>15
    <3>2. found.confirmed_offset \in Int  BY <3>1 DEF UploadSession
    <3> QED  BY <2>3, <3>1, <3>2 DEF EarlierRow
  <2>6. ComparerKnows(n)  BY <1>3, <2>2, <2>3, <2>4, <2>5 DEF ComparerKnows
  <2> QED  BY <1>1, <2>4, <2>6, ComparerMoves
<1> QED  BY <1>8, <1>12, <1>13, <1>14, <1>15
\* The archive of a sealed session verifies, whichever compaction committed
\* since its row was read.
LEMMA VerifySideKeeps ==
  ASSUME CompareInv, NEW k \in Comparers, VerifySide(k)
  PROVE  CompareInv'
<1> USE DEF Side
<1> DEFINE c     == comparer[k]
           s     == c.req[c.side]
           row   == c.row[c.side]
           bytes == Whole(chunks[s], row.total_bytes)
           read  == [c EXCEPT !.bytes[c.side] = bytes]
           n     == Advance(read, "insert")
<1>1. /\ PromiseInv /\ Inv /\ CompareTypeOK /\ c \in ComparerState /\ ComparerKnows(c)
  BY DEF CompareInv, CompareTypeOK, PromiseInv
<1>2. /\ c.pc = "verify" /\ UNCHANGED vars /\ UNCHANGED comparisons
      /\ comparer' = [comparer EXCEPT ![k] =
           IF ArchiveVerifies(chunks[s], row.total_bytes, row.whole_sha256) THEN n
           ELSE AnswerCompare(c, "comparison_integrity_error")]
  BY DEF VerifySide, Working
<1>3. /\ c.req \in [Side -> Sessions] /\ c.side \in Side
      /\ c.bytes \in [Side -> {None} \cup Blobs]
      /\ \A x \in Side : SealedAs(c.req[x], c.row[x])
      /\ c.side = "candidate" => HasBytes(c, "baseline")
      /\ c.code # "comparison_integrity_error"
  BY <1>1, <1>2 DEF ComparerKnows, ComparerState
<1>4. s \in Sessions /\ SealedAs(s, row)  BY <1>3
<1>5. /\ row = upload_sessions[s] /\ row.status = "sealed"
      /\ row.total_bytes \in 0..MaxBytes /\ row.total_bytes \in Nat
      /\ row.confirmed_offset \in Nat
      /\ ArchiveAgrees(row, chunks[s]) /\ VerdictAgrees(row, chunks[s])
  BY <1>1, <1>4, StoredFacts DEF SealedAs
<1> HIDE DEF s, row, c
<1>6. Tiles(chunks[s], row.total_bytes)
  <2>1. row.confirmed_offset = row.total_bytes  BY <1>5 DEF ArchiveAgrees
  <2> QED  BY <1>5, <2>1 DEF ArchiveAgrees
<1>7. row.whole_sha256 = Sha256(bytes)  BY <1>5 DEF VerdictAgrees
<1>8. bytes \in Blobs
  <2>1. row.total_bytes \in 0..row.total_bytes  BY <1>5
  <2> QED  BY <1>5, <1>6, <2>1, WholeIsBlob
<1>9. ArchiveVerifies(chunks[s], row.total_bytes, row.whole_sha256)
  BY <1>5, <1>6, <1>7, TilesVerify
<1>10. comparer' = [comparer EXCEPT ![k] = n]  BY <1>2, <1>9 DEF c
<1>11. row = c.row[c.side] /\ bytes = Whole(chunks[c.req[c.side]], c.row[c.side].total_bytes)
  BY DEF row, s
<1> HIDE DEF bytes
<1>12. /\ read \in ComparerState /\ read.pc = c.pc /\ read.side = c.side /\ read.req = c.req
       /\ read.row = c.row /\ read.code = c.code
       /\ read.bytes = [c.bytes EXCEPT ![c.side] = bytes]
  BY <1>1, <1>3, <1>8 DEF ComparerState, c
<1>13. HasBytes(read, c.side)  BY <1>3, <1>11, <1>12 DEF HasBytes
<1>14. c.side = "candidate" => HasBytes(read, "baseline")
  BY <1>3, <1>12 DEF HasBytes
<1> HIDE DEF read
<1>15. CASE c.side = "baseline"
  <2>1. n = [read EXCEPT !.side = "candidate"]  BY <1>12, <1>15 DEF Advance
  <2> HIDE DEF n
  <2>2. /\ n \in ComparerState /\ n.pc = "verify" /\ n.side = "candidate" /\ n.req = c.req
        /\ n.row = c.row /\ n.code = c.code /\ n.bytes = read.bytes
    BY <1>2, <1>12, <2>1 DEF ComparerState, c
  <2>3. HasBytes(n, "baseline")  BY <1>12, <1>13, <1>15, <2>2 DEF HasBytes
  <2>4. ComparerKnows(n)  BY <1>3, <2>2, <2>3 DEF ComparerKnows
  <2> QED  BY <1>2, <1>10, <2>2, <2>4, ComparerMoves
<1>16. CASE c.side = "candidate"
  <2>1. n = [read EXCEPT !.side = "baseline", !.pc = "insert"]  BY <1>12, <1>16 DEF Advance
  <2> HIDE DEF n
  <2>2. /\ n \in ComparerState /\ n.pc = "insert" /\ n.req = c.req
        /\ n.row = c.row /\ n.code = c.code /\ n.bytes = read.bytes
    BY <1>12, <2>1 DEF ComparerState
  <2>3. \A x \in Side : HasBytes(n, x)
    BY <1>12, <1>13, <1>14, <1>16, <2>2 DEF HasBytes
  <2>4. ComparerKnows(n)  BY <1>3, <2>2, <2>3 DEF ComparerKnows
  <2> QED  BY <1>2, <1>10, <2>2, <2>4, ComparerMoves
<1> QED  BY <1>3, <1>15, <1>16

\* Waiting for the rows that the INSERT refers to forgets nothing.
LEMMA InsertSideKeeps ==
  ASSUME CompareInv, NEW k \in Comparers, InsertSide(k)
  PROVE  CompareInv'
<1> USE DEF Side
<1> DEFINE c      == comparer[k]
           shares == c.shares \cup {c.req[c.side]}
           held   == [c EXCEPT !.shares = @ \cup {c.req[c.side]}]
           n      == Advance(held, "commit")
<1>1. CompareTypeOK /\ c \in ComparerState /\ ComparerKnows(c)
  BY DEF CompareInv, CompareTypeOK
<1>2. /\ c.pc = "insert" /\ comparer' = [comparer EXCEPT ![k] = n]
      /\ UNCHANGED vars /\ UNCHANGED comparisons
  BY DEF InsertSide, Working
<1>3. /\ c.req \in [Side -> Sessions] /\ c.side \in Side /\ shares \in SUBSET Sessions
      /\ \A x \in Side : SealedAs(c.req[x], c.row[x]) /\ HasBytes(c, x)
      /\ c.code # "comparison_integrity_error"
  BY <1>1, <1>2 DEF ComparerKnows, ComparerState
<1>4. held = [c EXCEPT !.shares = shares]  OBVIOUS
<1> HIDE DEF shares, held
<1>5. /\ held \in ComparerState /\ held.pc = "insert" /\ held.side = c.side
      /\ held.req = c.req /\ held.row = c.row /\ held.code = c.code /\ held.bytes = c.bytes
  BY <1>1, <1>2, <1>3, <1>4 DEF ComparerState
<1>6. /\ n \in ComparerState /\ n.pc \in {"insert", "commit"} /\ n.req = c.req
      /\ n.row = c.row /\ n.code = c.code /\ n.bytes = c.bytes
  BY <1>5 DEF Advance, ComparerState
<1> HIDE DEF n
<1>7. \A x \in Side : HasBytes(n, x)  BY <1>3, <1>6 DEF HasBytes
<1>8. ComparerKnows(n)  BY <1>3, <1>6, <1>7 DEF ComparerKnows
<1> QED  BY <1>2, <1>6, <1>8, ComparerMoves
\* The record of a comparison that read both archives is true of them.
LEMMA RecordIsKnown ==
  ASSUME CompareInv, NEW k \in Comparers, comparer[k].pc = "commit"
  PROVE  /\ ComparisonRow(comparer[k]) \in ComparisonRecord
         /\ RecordKnown(ComparisonRow(comparer[k]))
<1> USE DEF Side
<1> DEFINE c     == comparer[k]
           r     == ComparisonRow(c)
           total == [x \in Side |-> c.row[x].total_bytes]
           x1    == c.bytes["baseline"]
           x2    == c.bytes["candidate"]
<1>1. PromiseInv /\ Inv /\ c \in ComparerState /\ ComparerKnows(c)
  BY DEF CompareInv, CompareTypeOK, PromiseInv
<1>2. /\ c.req \in [Side -> Sessions]
      /\ \A x \in Side : SealedAs(c.req[x], c.row[x]) /\ HasBytes(c, x)
  BY <1>1 DEF ComparerKnows, ComparerState
<1>3. ASSUME NEW x \in Side
      PROVE  /\ c.row[x] = upload_sessions[c.req[x]] /\ c.row[x].status = "sealed"
             /\ Registered(c.req[x])
             /\ c.row[x].total_bytes \in 0..MaxBytes /\ c.row[x].whole_sha256 \in Digests
             /\ c.bytes[x] = Whole(chunks[c.req[x]], c.row[x].total_bytes)
             /\ c.bytes[x] \in Blobs /\ Len(c.bytes[x]) = c.row[x].total_bytes
  <2> DEFINE s == c.req[x]
             row == c.row[x]
  <2>1. s \in Sessions /\ SealedAs(s, row) /\ HasBytes(c, x)  BY <1>2
  <2>2. /\ row = upload_sessions[s] /\ row.status = "sealed" /\ Registered(s)
        /\ row \in UploadSession
        /\ row.total_bytes \in 0..MaxBytes /\ row.total_bytes \in Nat
        /\ row.confirmed_offset \in Nat /\ ArchiveAgrees(row, chunks[s])
    BY <1>1, <2>1, StoredFacts DEF SealedAs
  <2>3. row.whole_sha256 \in Digests  BY <2>2 DEF UploadSession
  <2>4. Tiles(chunks[s], row.total_bytes)
    <3>1. row.confirmed_offset = row.total_bytes  BY <2>2 DEF ArchiveAgrees
    <3> QED  BY <2>2, <3>1 DEF ArchiveAgrees
  <2>5. c.bytes[x] = Whole(chunks[s], row.total_bytes)  BY <2>1 DEF HasBytes
  <2> HIDE DEF s, row
  <2>6. /\ Whole(chunks[s], row.total_bytes) \in Blobs
        /\ Len(Whole(chunks[s], row.total_bytes)) = row.total_bytes
    <3>1. row.total_bytes \in 0..row.total_bytes  BY <2>2
    <3> QED  BY <2>2, <2>4, <3>1, WholeIsBlob
  <2> QED  BY <2>2, <2>3, <2>5, <2>6 DEF s, row
<1>4. /\ r.session = c.req /\ r.total_bytes = total
      /\ r.whole_sha256 = [x \in Side |-> c.row[x].whole_sha256]
      /\ r.common_prefix_bytes = CommonPrefix(x1, x2)
      /\ r.first_difference_offset = FirstDifference(x1, x2)
      /\ r.conclusion = Conclusion(FirstDifference(x1, x2), total)
  BY DEF ComparisonRow
<1>5. /\ x1 \in Blobs /\ x2 \in Blobs
      /\ total["baseline"] = Len(x1) /\ total["candidate"] = Len(x2)
  BY <1>3
<1>6. r = [session |-> r.session, total_bytes |-> r.total_bytes,
           whole_sha256 |-> r.whole_sha256,
           common_prefix_bytes |-> r.common_prefix_bytes,
           first_difference_offset |-> r.first_difference_offset,
           conclusion |-> r.conclusion]
  BY DEF ComparisonRow
<1>7. total \in [Side -> 0..MaxBytes]  BY <1>3
<1>8. [x \in Side |-> c.row[x].whole_sha256] \in [Side -> Digests]  BY <1>3
<1> HIDE DEF r, total
<1>9. /\ ResultIsTrue(r, x1, x2)
      /\ r.common_prefix_bytes \in Nat
      /\ r.first_difference_offset \in {None} \cup Nat
      /\ r.conclusion \in {"identical", "length_differs", "content_differs"}
  <2> HIDE DEF x1, x2
  <2> QED  BY <1>4, <1>5, ResultIsRight
<1>10. r \in ComparisonRecord
  <2> HIDE DEF c
  <2> QED  BY <1>2, <1>4, <1>6, <1>7, <1>8, <1>9 DEF ComparisonRecord
<1>11. \A x \in Side :
         /\ Registered(r.session[x])
         /\ upload_sessions[r.session[x]].status = "sealed"
         /\ r.total_bytes[x] = upload_sessions[r.session[x]].total_bytes
         /\ r.whole_sha256[x] = upload_sessions[r.session[x]].whole_sha256
         /\ Whole(chunks[r.session[x]], r.total_bytes[x]) = c.bytes[x]
  BY <1>3, <1>4 DEF total
<1>12. RecordIsTrue(r)
  <2>1. /\ Whole(chunks[r.session["baseline"]], r.total_bytes["baseline"]) = x1
        /\ Whole(chunks[r.session["candidate"]], r.total_bytes["candidate"]) = x2
    BY <1>11
  <2> HIDE DEF x1, x2, c
  <2> QED  BY <1>9, <1>11, <2>1 DEF RecordIsTrue
<1> QED  BY <1>10, <1>11, <1>12 DEF RecordKnown, r

\* A comparison that commits adds a true record.
LEMMA StoresRecord ==
  ASSUME CompareInv, NEW k \in Comparers, comparer[k].pc = "commit",
         NEW n, n \in ComparerState, ComparerKnows(n),
         comparer' = [comparer EXCEPT ![k] = n], UNCHANGED vars,
         comparisons' = Append(comparisons, ComparisonRow(comparer[k]))
  PROVE  CompareInv'
<1> DEFINE r == ComparisonRow(comparer[k])
<1>1. PromiseInv /\ CompareTypeOK  BY DEF CompareInv
<1>2. UNCHANGED <<upload_sessions, chunks>>  BY DEF vars
<1>3. r \in ComparisonRecord /\ RecordKnown(r)  BY RecordIsKnown
<1> HIDE DEF r
<1>4. /\ comparisons' \in Seq(ComparisonRecord) /\ comparisons \in Seq(ComparisonRecord)
      /\ Len(comparisons') = Len(comparisons) + 1 /\ Len(comparisons) \in Nat
      /\ \A i \in 1..Len(comparisons) : comparisons'[i] = comparisons[i]
      /\ comparisons'[Len(comparisons) + 1] = r
  BY <1>1, <1>3 DEF CompareTypeOK, r
<1>5. CompareTypeOK'  BY <1>1, <1>4 DEF CompareTypeOK
<1>6. PromiseInv'  BY <1>1, PromisesPreserved
<1>7. ASSUME NEW j \in Comparers  PROVE ComparerKnows(comparer[j])'
  <2>1. comparer'[j] = IF j = k THEN n ELSE comparer[j]  BY <1>1 DEF CompareTypeOK
  <2>2. ComparerKnows(comparer[j])  BY DEF CompareInv
  <2>3. ComparerKnows(comparer'[j])  BY <2>1, <2>2
  <2> QED  BY <2>3, <1>2 DEF ComparerKnows, SealedAs, HasBytes, Registered
<1>8. ASSUME NEW i \in 1..Len(comparisons')  PROVE RecordKnown(comparisons[i])'
  <2>1. RecordKnown(comparisons'[i])
    <3>1. CASE i \in 1..Len(comparisons)  BY <1>4, <3>1 DEF CompareInv
    <3>2. CASE i = Len(comparisons) + 1  BY <1>3, <1>4, <3>2
    <3> QED  BY <1>4, <3>1, <3>2
  <2> QED  BY <1>2, <2>1 DEF RecordKnown, RecordIsTrue, Registered
<1> QED  BY <1>5, <1>6, <1>7, <1>8 DEF CompareInv
\* The other steps of a comparison.
LEMMA ComparerStepKeeps ==
  ASSUME CompareInv, NEW k \in Comparers,
         \/ FindSide(k) \/ VerifySide(k) \/ InsertSide(k) \/ CommitComparison(k)
         \/ AnswerComparison(k) \/ CloseComparison(k)
         \/ ComparisonUnanswered(k) \/ ComparisonError(k)
  PROVE  CompareInv'
<1> DEFINE c == comparer[k]
<1>1. c \in ComparerState /\ ComparerKnows(c)
  BY DEF CompareInv, CompareTypeOK
<1>2. "ok" \in CompareCodes /\ "server_error" \in CompareCodes  BY DEF CompareCodes
<1>3. c.shares \in SUBSET Sessions  BY <1>1 DEF ComparerState
<1>4. CASE CommitComparison(k)
  <2> DEFINE n == [c EXCEPT !.pc = "refresh", !.shares = {}]
  <2>1. /\ c.pc = "commit" /\ comparer' = [comparer EXCEPT ![k] = n] /\ UNCHANGED vars
        /\ comparisons' = Append(comparisons, ComparisonRow(c))
    BY <1>4 DEF CommitComparison, Working
  <2>2. n \in ComparerState /\ n.pc = "refresh" /\ n.code = c.code
    BY <1>1 DEF ComparerState
  <2> HIDE DEF n
  <2>3. ComparerKnows(n)  BY <1>1, <2>2 DEF ComparerKnows
  <2> QED  BY <2>1, <2>2, <2>3, StoresRecord
<1>5. CASE ComparisonUnanswered(k)
  <2> DEFINE n == [AnswerCompare(c, "server_error") EXCEPT !.shares = {}]
  <2>1. /\ c.pc = "commit" /\ comparer' = [comparer EXCEPT ![k] = n] /\ UNCHANGED vars
        /\ comparisons' = Append(comparisons, ComparisonRow(c))
    BY <1>5 DEF ComparisonUnanswered, Working
  <2>2. n \in ComparerState /\ ComparerKnows(n)  BY <1>1, <1>2, AnswerKnowsNothing
  <2> HIDE DEF n
  <2> QED  BY <2>1, <2>2, StoresRecord
<1>6. CASE ComparisonError(k)
  <2>1. PICK kept \in {{}, c.shares} :
          comparer' = [comparer EXCEPT ![k] =
                         [AnswerCompare(c, "server_error") EXCEPT !.shares = kept]]
    BY <1>6 DEF ComparisonError, Working
  <2>2. UNCHANGED vars /\ UNCHANGED comparisons  BY <1>6 DEF ComparisonError, Working
  <2> DEFINE n == [AnswerCompare(c, "server_error") EXCEPT !.shares = kept]
  <2>3. n \in ComparerState /\ ComparerKnows(n)  BY <1>1, <1>2, <1>3, AnswerKnowsNothing
  <2> HIDE DEF n
  <2> QED  BY <2>1, <2>2, <2>3, ComparerMoves DEF n
<1>7. CASE AnswerComparison(k)
  <2>1. /\ comparer' = [comparer EXCEPT ![k] = AnswerCompare(c, "ok")]
        /\ UNCHANGED vars /\ UNCHANGED comparisons
    BY <1>7 DEF AnswerComparison, Working
  <2>2. AnswerCompare(c, "ok") \in ComparerState /\ ComparerKnows(AnswerCompare(c, "ok"))
    BY <1>1, <1>2, <1>3, AnswerKnowsNothing
  <2> QED  BY <2>1, <2>2, ComparerMoves
<1>8. CASE CloseComparison(k)
  <2>1. /\ comparer' = [comparer EXCEPT ![k] = NoComparison]
        /\ UNCHANGED vars /\ UNCHANGED comparisons
    BY <1>8 DEF CloseComparison, Working
  <2> QED  BY <2>1, NoComparisonYet, ComparerMoves
<1> QED  BY <1>4, <1>5, <1>6, <1>7, <1>8, FindSideKeeps, VerifySideKeeps, InsertSideKeeps

\* A request begins a comparison of two sessions.
LEMMA RequestKeeps ==
  ASSUME CompareInv, NEW k \in Comparers, NEW pair \in Pairs, RequestComparison(k, pair)
  PROVE  CompareInv'
<1> USE DEF Side
<1> DEFINE req == [x \in Side |-> IF x = "baseline" THEN pair[1] ELSE pair[2]]
           n   == [NoComparison EXCEPT !.pc = "find", !.req = req]
<1>1. /\ comparer' = [comparer EXCEPT ![k] = n]
      /\ UNCHANGED vars /\ UNCHANGED comparisons
  BY DEF RequestComparison, Working
<1>2. pair[1] \in Sessions /\ pair[2] \in Sessions  BY PairsAssumption
<1>3. req \in [Side -> Sessions]  BY <1>2
<1> HIDE DEF req
<1>4. NoComparison.side = "baseline" /\ NoComparison.code = None  BY DEF NoComparison
<1>5. /\ n \in ComparerState /\ n.pc = "find" /\ n.side = "baseline" /\ n.req = req
      /\ n.code = None
  BY <1>3, <1>4, NoComparisonYet DEF ComparerState
<1> HIDE DEF n
<1>6. ComparerKnows(n)
  BY <1>3, <1>5, NoneIsNoAnswer DEF ComparerKnows, CompareCodes
<1> QED  BY <1>1, <1>5, <1>6, ComparerMoves

\* When the process dies the tables stay.
LEMMA ProcessDiesKeeps ==
  ASSUME CompareInv, ProcessDies
  PROVE  CompareInv'
<1>1. /\ PromiseInv /\ Inv /\ TypeOK /\ TrailsAgree /\ AuditTrailExplainsLayout
      /\ CompareTypeOK
  BY DEF CompareInv, PromiseInv, Promises, Inv
<1>2. /\ lock' = [s \in Sessions |-> None]
      /\ worker' = [w \in Workers |-> Idle]
      /\ comparer' = [k \in Comparers |-> NoComparison]
      /\ UNCHANGED <<upload_sessions, chunks, audit_events>> /\ comparisons' = comparisons
  BY DEF ProcessDies
<1>3. Inv'  BY <1>1, <1>2, AllIdle
<1>4. TrailsAgree' /\ AuditTrailExplainsLayout'
  BY <1>1, <1>2 DEF TrailsAgree, AuditTrailExplainsLayout, Registered
<1>5. ASSUME NEW w \in Workers  PROVE WorkerPromises(w)'
  BY <1>2, IdlePromisesNothing
<1>6. PromiseInv'  BY <1>3, <1>4, <1>5 DEF PromiseInv, Promises
<1>7. CompareTypeOK'  BY <1>1, <1>2, NoComparisonYet DEF CompareTypeOK
<1>8. ASSUME NEW k \in Comparers  PROVE ComparerKnows(comparer[k])'
  <2>1. comparer'[k] = NoComparison  BY <1>2
  <2>2. ComparerKnows(comparer'[k])  BY <2>1, NoComparisonYet
  <2> QED  BY <1>2, <2>2 DEF ComparerKnows, SealedAs, HasBytes, Registered
<1>9. ASSUME NEW i \in 1..Len(comparisons)  PROVE RecordKnown(comparisons[i])'
  <2>1. RecordKnown(comparisons[i])  BY DEF CompareInv
  <2> QED  BY <1>2, <2>1 DEF RecordKnown, RecordIsTrue, Registered
<1> QED  BY <1>2, <1>6, <1>7, <1>8, <1>9 DEF CompareInv

-------------------------------------------------------------------------------
(***************************************************************************)
(* CompareInv is an invariant.                                             *)
(***************************************************************************)
\* No session disappears and no sealed one changes in a step of the service.
LEMMA ServiceGoesOn ==
  ASSUME PromiseInv, [Next]_vars
  PROVE  PromiseInv' /\ TablesGoOn
<1>1. PromiseInv'  BY PromisesPreserved
<1>2. TablesGoOn  BY StepKeepsBytes, StepIsFinal DEF TablesGoOn, PromiseInv
<1> QED  BY <1>1, <1>2

\* Every step of the service with its comparisons keeps the invariant.
LEMMA ComparePreserved ==
  ASSUME CompareInv, [CompareNext]_allVars
  PROVE  CompareInv'
<1>1. CASE Beside(Serve)
  <2>1. Next /\ UNCHANGED compareVars  BY <1>1 DEF Beside, Next
  <2>2. PromiseInv' /\ TablesGoOn  BY <2>1, ServiceGoesOn DEF CompareInv
  <2> QED  BY <2>1, <2>2, BesideKeeps
<1>2. CASE UNCHANGED allVars
  <2>1. UNCHANGED vars /\ UNCHANGED compareVars  BY <1>2 DEF allVars
  <2>2. PromiseInv' /\ TablesGoOn  BY <2>1, ServiceGoesOn DEF CompareInv
  <2> QED  BY <2>1, <2>2, BesideKeeps
<1> QED  BY <1>1, <1>2, RequestKeeps, ComparerStepKeeps, ProcessDiesKeeps DEF CompareNext

\* At the start there is no comparison.
LEMMA InitCompare == AllInit => CompareInv
<1> SUFFICES ASSUME AllInit PROVE CompareInv  OBVIOUS
<1>1. PromiseInv  BY InitPromises DEF AllInit
<1>2. comparisons = <<>> /\ comparer = [k \in Comparers |-> NoComparison]  BY DEF AllInit
<1>3. CompareTypeOK  BY <1>2, NoComparisonYet DEF CompareTypeOK
<1>4. \A k \in Comparers : ComparerKnows(comparer[k])  BY <1>2, NoComparisonYet
<1>5. Len(comparisons) = 0  BY <1>2
<1> QED  BY <1>1, <1>3, <1>4, <1>5 DEF CompareInv

\* In every reachable state each comparison relies only on what is still true,
\* and every stored record is true.
THEOREM CompareInvariance == CompareSpec => []CompareInv
<1>1. CompareInv /\ [CompareNext]_allVars => CompareInv'  BY ComparePreserved
<1> QED  BY <1>1, InitCompare, PTL DEF CompareSpec

\* The records of table comparisons are true of the archives, and stay true:
\* create_comparison reads both sides without a lock, while uploads finish and
\* compactions move the chunk boundaries of either side.
THEOREM RecordsAreTrue == CompareSpec => []ComparisonsAreTrue
<1>1. CompareInv => ComparisonsAreTrue
  BY DEF CompareInv, ComparisonsAreTrue, RecordKnown
<1> QED  BY <1>1, CompareInvariance, PTL

\* The verification of _verified_archive_chunks never refuses a comparison of two
\* sealed packages, whatever is committed between the statements it is made of.
THEOREM VerificationNeverFails == CompareSpec => []NoFalseAlarm
<1>1. CompareInv => NoFalseAlarm  BY DEF CompareInv, ComparerKnows, NoFalseAlarm
<1> QED  BY <1>1, CompareInvariance, PTL
==============================================================================
