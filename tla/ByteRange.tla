------------------------------- MODULE ByteRange -------------------------------
(***************************************************************************)
(* _parse_single_range of app/main.py, and what it should answer.          *)
(*                                                                         *)
(* A Range header is what the parser tells apart: its unit, a comma, the   *)
(* number of dashes and the two boundaries.                                *)
(***************************************************************************)
EXTENDS ChunkLayout

CONSTANTS Boundaries,  \* boundaries that clients write: naturals and the three below
          Absent,      \* nothing before, or after, the dash
          NotDigits,   \* anything but ASCII digits
          TooLong      \* a number beyond every package, with more digits than int()
                       \* converts (4300 in CPython)

ASSUME RangeAssumption ==
  /\ Boundaries \subseteq Nat \cup {Absent, NotDigits, TooLong}
  /\ {Absent, NotDigits, TooLong} \cap Nat = {}
  /\ Absent # NotDigits /\ Absent # TooLong /\ NotDigits # TooLong
  /\ None \notin {"invalid_range", "range_not_satisfiable", "server_error"}

\* The Range headers of a request: none, one that deviates in at most one point, or
\* two.
RangeHeaders ==
  LET plain == [unit |-> "bytes", comma |-> FALSE, dashes |-> 1, first |-> 0, last |-> 0]
      written == [unit : {"bytes"}, comma : {FALSE}, dashes : {1},
                  first : Boundaries, last : Boundaries]
                   \cup {[plain EXCEPT !.unit = "other"], [plain EXCEPT !.comma = TRUE],
                         [plain EXCEPT !.dashes = 0], [plain EXCEPT !.dashes = 2]}
  IN  {<<>>, <<plain, plain>>} \cup {<<h>> : h \in written}

-------------------------------------------------------------------------------
Refused(code) == [code |-> code, begin |-> 0, end |-> 0]
Span(begin, end) == [code |-> None, begin |-> begin, end |-> end]

WellFormed(h) ==
  /\ h.unit = "bytes" /\ ~h.comma /\ h.dashes = 1
  /\ {h.first, h.last} # {Absent}
  /\ NotDigits \notin {h.first, h.last}

\* int() raises ValueError on more digits than it converts.
Convertible(h) == TooLong \notin {h.first, h.last}

SuffixRange(n, total) ==
  IF n = 0 \/ total = 0 THEN Refused("range_not_satisfiable")
  ELSE Span(Max({total - n, 0}), total)

OpenOrClosedRange_AcceptsTheEnd(first, last, total) ==
  IF last # Absent /\ last < first THEN Refused("invalid_range")
  ELSE IF first > total THEN Refused("range_not_satisfiable")
  ELSE Span(first, IF last = Absent THEN total ELSE Min({last + 1, total}))

OpenOrClosedRange(first, last, total) ==
  IF last # Absent /\ last < first THEN Refused("invalid_range")
  ELSE IF first >= total THEN Refused("range_not_satisfiable")
  ELSE Span(first, IF last = Absent THEN total ELSE Min({last + 1, total}))

ParseRange(h, total) ==
  IF ~WellFormed(h) THEN Refused("invalid_range")
  ELSE IF ~Convertible(h) THEN Refused("server_error")
  ELSE IF h.first = Absent THEN SuffixRange(h.last, total)
  ELSE OpenOrClosedRange(h.first, h.last, total)

-------------------------------------------------------------------------------
(***************************************************************************)
(* What a header asks for, after RFC 9110: a set of offsets.  A number is  *)
(* a number here, however many digits it has.                              *)
(***************************************************************************)
Reversed(h) ==
  h.last \in Nat /\ (h.first = TooLong \/ (h.first \in Nat /\ h.last < h.first))

Asked(h, total) ==
  {o \in 0..(total - 1) :
     IF h.first = Absent THEN h.last = TooLong \/ o + h.last >= total
     ELSE h.first # TooLong /\ h.first <= o /\ (h.last \in Nat => o <= h.last)}

\* The answer it deserves.
RightCode(headers, total) ==
  IF headers = <<>> THEN "ok"
  ELSE IF Len(headers) > 1 \/ ~WellFormed(headers[1]) THEN "invalid_range"
  ELSE IF Reversed(headers[1]) THEN "invalid_range"
  ELSE IF Asked(headers[1], total) = {} THEN "range_not_satisfiable"
  ELSE "partial_content"

\* Headers that the parser reads: refused for their form, or with boundaries that
\* int() converts.
Legible(headers) ==
  Len(headers) = 1 /\ WellFormed(headers[1]) => Convertible(headers[1])
==============================================================================
