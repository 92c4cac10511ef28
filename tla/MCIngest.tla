------------------------------- MODULE MCIngest -------------------------------
(***************************************************************************)
(* Small instances of Ingest for TLC.                                      *)
(***************************************************************************)
EXTENDS PromiseInvariant

CONSTANTS s1, s2, w1, w2, w3

\* SHA-256 as an injective function: the digest of a byte string is a tuple
\* that carries it.  "other" is a digest of none of the byte strings.
MCSha256(x) == <<"sha256", x>>
MCDigests == {MCSha256(x) : x \in SeqOf(Byte, MaxBytes)} \cup {<<"other">>}

\* What a client registers: the package as it is, or with another's digest.
Meta(bytes) == [total_bytes |-> Len(bytes), whole_sha256 |-> MCSha256(bytes)]
BadMeta(bytes) == [total_bytes |-> Len(bytes), whole_sha256 |-> <<"other">>]

Chunk(s, start, bytes) ==
  [kind |-> "put", session |-> s, start_offset |-> start, length |-> Len(bytes),
   sha256 |-> MCSha256(bytes), payload |-> bytes]

Compact(s, target) == [kind |-> "compact", session |-> s, target_chunk_bytes |-> target]

Reads(s) == {[kind |-> k, session |-> s] : k \in {"session", "chunks", "content", "audit"}}

\* Every piece of a package, the empty ones included.
Pieces(s, bytes) ==
  UNION {{Chunk(s, a, SubSeq(bytes, a + 1, b)) : b \in a..Len(bytes)} : a \in 0..Len(bytes)}

NoLegacy == [s \in {} |-> <<>>]

-------------------------------------------------------------------------------
(* race: concurrent requests on one session of three bytes, registered with  *)
(* the right digest or a wrong one, uploaded in every cut.                   *)
RaceRegistrations == {Meta(<<0, 1, 0>>), BadMeta(<<0, 1, 0>>)}
RaceRequests ==
  Pieces(s1, <<0, 1, 0>>)
    \cup {Chunk(s1, 1, <<0>>), Chunk(s1, 2, <<1>>)}
    \cup {Compact(s1, t) : t \in {1, 2, 9}} \cup Reads(s1)

-------------------------------------------------------------------------------
(* protocol: one request at a time on two sessions, one of them sealed       *)
(* before the audit trail existed; every kind of malformed request.          *)
ProtocolRegistrations ==
  {Meta(<<>>), BadMeta(<<>>), Meta(<<0, 1, 0>>), BadMeta(<<0, 1, 0>>)}
ProtocolLegacy == [s \in {s2} |-> <<1, 0>>]
ProtocolRequests ==
  LET put == Chunk(s1, 0, <<0>>)
  IN  UNION {Pieces(s, <<0, 1, 0>>) \cup {Compact(s, t) : t \in {0, 1, 2, 9}} \cup Reads(s) :
               s \in {s1, s2}}
        \cup {[put EXCEPT !.start_offset = -1], [put EXCEPT !.length = -1],
              [put EXCEPT !.length = 2], [put EXCEPT !.length = 3],
              [put EXCEPT !.sha256 = <<"other">>],
              Chunk(s1, 1, <<0>>), Chunk(s1, 2, <<1>>), Chunk(s1, 2, <<0, 1>>),
              Chunk(s1, 3, <<0>>)}

-------------------------------------------------------------------------------
(* empty_resend, late_ack: what the documentation says otherwise.                   *)
EmptyResendRegistrations == {Meta(<<0, 1>>)}
EmptyResendRequests == {Chunk(s1, 0, <<>>), Chunk(s1, 0, <<0, 1>>)}
FailedRegistrations == {BadMeta(<<0, 1>>)}
LateAckRequests == {Chunk(s1, 0, <<0>>), Chunk(s1, 1, <<1>>)}
==============================================================================
