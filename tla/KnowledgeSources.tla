--------------------------- MODULE KnowledgeSources ---------------------------
(***************************************************************************)
(* The registry of immutable knowledge sources                             *)
(* (src/erasmus/knowledge_sources.py): a blob on disk named by its digest,  *)
(* its row with event and receipt, its spans and its tombstone.            *)
(*                                                                         *)
(* The blob is copied after the checks and before the first INSERT opens   *)
(* the transaction, and copying is not atomic.                             *)
(***************************************************************************)
EXTENDS StoreClients

CONSTANTS
  Sources,  \* source ids, that is, digests, each with files of one suffix
  Spans     \* page ranges with their coordinates

VARIABLES
  blobs,    \* the file of each source: absent, partial, altered (of another digest) or intact
  sources,  \* knowledge_sources: none, or the storage state
  spans,    \* knowledge_source_spans: <<source, span>>
  graves    \* knowledge_source_tombstones

sourceVars == <<blobs, sources, spans, graves>>

SourcesInit ==
  /\ blobs = [s \in Sources |-> "absent"]
  /\ sources = [s \in Sources |-> "none"]
  /\ spans = {}
  /\ graves = {}

\* register_source: an existing row is returned, and an existing blob must have
\* the digest it is named by.
Acceptable(blob) == blob \notin {"partial", "altered"}

CheckSource(c) ==
  /\ \E s \in Sources :
       /\ sources[s] = "none" /\ Acceptable(blobs[s])
       /\ Begin(c, [op |-> "register", s |-> s, step |-> "copy", seen |-> blobs[s]])
  /\ UNCHANGED sourceVars

\* Whatever is there by now is not copied over.
StartBlob(c) ==
  /\ Processing(c, "register") /\ req[c].step = "copy"
  /\ LET s == req[c].s
         copy == blobs[s] = "absent" IN
       /\ blobs' = [blobs EXCEPT ![s] = IF copy THEN "partial" ELSE @]
       /\ req' = [req EXCEPT ![c].step = IF copy THEN "copying" ELSE "insert"]
       /\ raced' = (raced \/ blobs[s] # req[c].seen)
  /\ UNCHANGED <<sources, spans, graves>>

\* The digest is of bytes read before; the input is copied by its path, and no
\* one looks at the digest of what was copied.
EndBlob(c) ==
  /\ Processing(c, "register") /\ req[c].step = "copying"
  /\ \E copied \in {"intact", "altered"} : blobs' = [blobs EXCEPT ![req[c].s] = copied]
  /\ req' = [req EXCEPT ![c].step = "insert"]
  /\ UNCHANGED <<raced, sources, spans, graves>>

\* The event, the row, whose source_id is its key, and the receipt.
InsertSource(c) ==
  /\ Processing(c, "register") /\ req[c].step = "insert"
  /\ sources[req[c].s] = "none"
  /\ sources' = [sources EXCEPT ![req[c].s] = "available"]
  /\ Commit(c, FALSE)
  /\ UNCHANGED <<blobs, spans, graves>>

\* register_span: an existing span is returned.
Available_buried(s) == sources[s] # "none"
Available(s) == sources[s] = "available"

CheckSpan(c) ==
  /\ \E s \in Sources, span \in Spans :
       /\ Available(s) /\ <<s, span>> \notin spans
       /\ Begin(c, [op |-> "span", s |-> s, span |-> span])
  /\ UNCHANGED sourceVars

InsertSpan(c) ==
  /\ Processing(c, "span")
  /\ <<req[c].s, req[c].span>> \notin spans
  /\ spans' = spans \cup {<<req[c].s, req[c].span>>}
  /\ Commit(c, ~Available(req[c].s))
  /\ UNCHANGED <<blobs, sources, graves>>

CheckTombstone(c) ==
  /\ \E s \in Sources :
       /\ sources[s] \notin {"none", "tombstoned"}
       /\ Begin(c, [op |-> "tombstone", s |-> s])
  /\ UNCHANGED sourceVars

Tombstone(c) ==
  /\ Processing(c, "tombstone")
  /\ req[c].s \notin graves
  /\ sources' = [sources EXCEPT ![req[c].s] = "tombstoned"]
  /\ graves' = graves \cup {req[c].s}
  /\ Commit(c, FALSE)
  /\ UNCHANGED <<blobs, spans>>

SourcesNext ==
  \E c \in Clients :
    \/ CheckSource(c) \/ StartBlob(c) \/ EndBlob(c) \/ InsertSource(c)
    \/ CheckSpan(c) \/ InsertSpan(c)
    \/ CheckTombstone(c) \/ Tombstone(c)
    \/ Drop(c) /\ UNCHANGED sourceVars

SourcesTypeOK ==
  /\ blobs \in [Sources -> {"absent", "partial", "altered", "intact"}]
  /\ sources \in [Sources -> {"none", "available", "tombstoned"}]
  /\ spans \subseteq Sources \X Spans
  /\ graves \subseteq Sources

\* As long as no two operations raced, every registered source has its whole file,
\* wherever a registration before it died: the file verify_source asks for, unless
\* the input was edited between the reading of its digest and its copy.
RegisteredIsIntact ==
  raced \/ \A s \in Sources : sources[s] # "none" => blobs[s] \in {"intact", "altered"}

\* A tombstone is final, also when the source is registered again; and as long
\* as no two operations raced, a tombstoned source gets no new span.
TombstoneIsFinal ==
  [][ \A s \in Sources : sources[s] = "tombstoned" =>
        /\ sources'[s] = "tombstoned"
        /\ raced' \/ \A span \in Spans : <<s, span>> \in spans' => <<s, span>> \in spans
    ]_<<sourceVars, req, raced>>

\* The source registry: what is registered is whole, and a tombstone is final.
SourcesArePreserved == []RegisteredIsIntact /\ TombstoneIsFinal
=============================================================================
