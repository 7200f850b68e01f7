-------------------------- MODULE WorkspaceSearch --------------------------
(* The index of a workspace's Markdown files and the queries on it             *)
(* (workspace_index.rs), both of which another thread may cancel at any of     *)
(* their checks. A character is one of a few letters, a capital sharp s (three *)
(* bytes) folds to two. A path is its place in the order of folded paths, its  *)
(* place among those that fold alike, its folded text and that of its stem.    *)
EXTENDS Integers, Sequences, FiniteSets, SequencesExt

CONSTANTS Files,        \* what the walk may hand over: path and text
          Queries,      \* kind and folded terms
          Stops,        \* checks after which a cancellation is seen, or None
          MaxFiles, MaxFileBytes, MaxBytes, MaxResults, MaxSnippet,
          MaxDocs,      \* bound: files handed over
          None

Letters == {"a", "s", "sharp", "newline"}
Reasons == {"unsupported", "invalid", "duplicate", "oversized", "aggregate", "count"}

SearchConstants ==
  /\ \A f \in Files : f.text \in Seq(Letters) /\ f.path.kind \in {"markdown", "unsupported", "invalid"}
  /\ \A q \in Queries : q.kind \in {"filename", "text"}
  /\ {MaxFiles, MaxFileBytes, MaxBytes, MaxResults, MaxSnippet, MaxDocs} \subseteq Nat

VARIABLES docs,         \* the files handed over, in the order of the walk
          built,        \* the index and the report of the build, or None
          asked,        \* the query that was answered, or None
          reply         \* its answer

vars == <<docs, built, asked, reply>>

Total(F(_), s) == FoldLeft(LAMBDA n, x : n + F(x), 0, s)
Bytes(c) == IF c = "sharp" THEN 3 ELSE 1
Fold(c) == IF c = "sharp" THEN <<"s", "s">> ELSE <<c>>
Folded(text) == FlattenSeq([k \in 1..Len(text) |-> Fold(text[k])])
Size(text) == Total(Bytes, text)

\* Where the folded text holds the folded term for the first time, from zero.
Hits(term, text) ==
  {k \in 0..Len(text) - Len(term) : SubSeq(text, k + 1, k + Len(term)) = term}
Holds(text, term) == Hits(term, text) # {}
Find(term, text) == CHOOSE k \in Hits(term, text) : \A j \in Hits(term, text) : k <= j

Before(p, q) == p.at < q.at \/ (p.at = q.at /\ p.exact < q.exact)
\* The sort is stable: equal paths keep the order in which they were handed over.
Sorted ==
  LET places == SetToSortSeq(1..Len(docs), LAMBDA j, k :
                  \/ Before(docs[j].path, docs[k].path)
                  \/ (docs[j].path = docs[k].path /\ j < k))
  IN  [k \in 1..Len(docs) |-> docs[places[k]]]

Empty == [index |-> <<>>, seen |-> {}, eligible |-> 0, bytes |-> 0,
          skipped |-> [r \in Reasons |-> 0], checks |-> 0, cancelled |-> FALSE]
Skip(b, reason) == [b EXCEPT !.skipped[reason] = @ + 1]
Check(b, stop) == [b EXCEPT !.checks = @ + 1, !.cancelled = stop # None /\ b.checks >= stop]
Keep(b, f) == [b EXCEPT !.index = Append(@, f), !.bytes = @ + Size(f.text)]

\* The size of a file is weighed only after its path has been counted.
Weigh(b, f, stop) ==
  CASE Size(f.text) > MaxFileBytes -> Skip(b, "oversized")
    [] Size(f.text) <= MaxFileBytes /\ b.bytes + Size(f.text) > MaxBytes -> Skip(b, "aggregate")
    [] OTHER -> LET c == IF f.text = <<>> THEN b ELSE Check(b, stop)
                IN  IF c.cancelled THEN c ELSE Keep(c, f)
Enter(b, f, stop) ==
  IF f.path \in b.seen THEN Skip(b, "duplicate")
  ELSE LET seen == [b EXCEPT !.seen = @ \cup {f.path}]
       IN  IF seen.eligible >= MaxFiles THEN Skip(seen, "count")
           ELSE Weigh([seen EXCEPT !.eligible = @ + 1], f, stop)
AddFile(b, f, stop) ==
  LET c == Check(b, stop)
  IN  IF b.cancelled THEN b
      ELSE IF c.cancelled THEN c
      ELSE IF f.path.kind # "markdown" THEN Skip(c, f.path.kind)
      ELSE Enter(c, f, stop)
Build(stop) == FoldLeft(LAMBDA b, f : AddFile(b, f, stop), Empty, Sorted)

\* exact_content_for_relative_path: a binary search by folded, then by exact path.
Lookup(index, path) ==
  LET search[low \in 1..Len(index) + 1, high \in 0..Len(index)] ==
        IF low > high THEN None
        ELSE LET mid == (low + high) \div 2
             IN  CASE index[mid].path.at = path.at /\ index[mid].path.exact = path.exact -> index[mid].text
                   [] Before(index[mid].path, path) -> search[mid + 1, high]
                   [] OTHER -> search[low, mid - 1]
  IN  search[1, Len(index)]

Matches(f, q) ==
  \A t \in DOMAIN q.terms : Holds(IF q.kind = "filename" THEN f.path.folded ELSE Folded(f.text), q.terms[t])
\* A query of several terms holds a space, which no stem here does.
Rank(f, q) ==
  IF q.kind = "text" THEN 0
  ELSE IF Len(q.terms) = 1 /\ f.path.stem = q.terms[1] THEN 0
  ELSE IF Len(q.terms) = 1 /\ IsPrefix(q.terms[1], f.path.stem) THEN 1 ELSE 2

\* The character of the source whose folding holds the given place of the folded text:
\* its line and its bytes before it.
Location(text, place) ==
  LET Reach(k) == Len(Folded(SubSeq(text, 1, k)))
      past == {k \in 1..Len(text) : place < Reach(k)}
      last == IF past = {} THEN Len(text) ELSE (CHOOSE k \in past : \A j \in past : k <= j) - 1
      prefix == SubSeq(text, 1, last)
  IN  [line |-> 1 + Total(LAMBDA c : IF c = "newline" THEN 1 ELSE 0, prefix), byte |-> Size(prefix)]

\* The snippet is cut from the source, around the place in the folded text.
Snippet(text, place) ==
  LET start == LET from == place - MaxSnippet \div 3
               IN  IF from < 0 THEN 0 ELSE IF from > Len(text) THEN Len(text) ELSE from
      end == IF start + MaxSnippet > Len(text) THEN Len(text) ELSE start + MaxSnippet
  IN  SubSeq(text, start + 1, end)

Hit(f, q) ==
  LET place == Find(q.terms[1], Folded(f.text))
  IN  IF q.kind = "filename" THEN [path |-> f.path, snippet |-> None, location |-> None]
      ELSE [path |-> f.path, snippet |-> Snippet(f.text, place), location |-> Location(f.text, place)]

\* One list for each rank, each with room for as many as are shown.
Bucket(s, f) == IF Len(s) < MaxResults THEN Append(s, f) ELSE s
Scan(index, q) ==
  FoldLeft(LAMBDA r, f : IF ~Matches(f, q) THEN r
                         ELSE [count |-> r.count + 1,
                               ranked |-> [r.ranked EXCEPT ![Rank(f, q)] = Bucket(@, f)]],
           [count |-> 0, ranked |-> [k \in 0..2 |-> <<>>]], index)
Nothing(status) == [status |-> status, truncated |-> FALSE, results |-> <<>>]
Answer(index, q, stop) ==
  IF stop = 0 THEN Nothing("cancelled")
  ELSE IF q.terms = <<>> THEN Nothing("completed")
  ELSE IF stop # None /\ stop <= Len(index) THEN Nothing("cancelled")
  ELSE LET found == Scan(index, q)
           flat == found.ranked[0] \o found.ranked[1] \o found.ranked[2]
           shown == SubSeq(flat, 1, IF Len(flat) < MaxResults THEN Len(flat) ELSE MaxResults)
       IN  [status |-> "completed", truncated |-> found.count > MaxResults,
            results |-> [k \in 1..Len(shown) |-> Hit(shown[k], q)]]
-----------------------------------------------------------------------------
Init == docs = <<>> /\ built = None /\ asked = None /\ reply = None

HandOver(f) ==
  /\ built = None /\ Len(docs) < MaxDocs
  /\ docs' = Append(docs, f) /\ UNCHANGED <<built, asked, reply>>
BuildIndex(stop) ==
  /\ built = None /\ docs # <<>>
  /\ built' = Build(stop) /\ UNCHANGED <<docs, asked, reply>>
QueryIndex(q, stop) ==
  /\ built # None /\ ~built.cancelled /\ asked = None
  /\ asked' = [query |-> q, stop |-> stop] /\ reply' = Answer(built.index, q, stop)
  /\ UNCHANGED <<docs, built>>
Discard ==
  /\ asked # None /\ built.index # <<>>
  /\ built' = [built EXCEPT !.index = <<>>] /\ asked' = None /\ reply' = None
  /\ UNCHANGED docs

Next == \/ \E f \in Files : HandOver(f)
        \/ \E stop \in Stops : BuildIndex(stop)
        \/ \E q \in Queries, stop \in Stops : QueryIndex(q, stop)
        \/ Discard

Spec == Init /\ [][Next]_vars
-----------------------------------------------------------------------------
TypeOK ==
  /\ docs \in Seq(Files) /\ Len(docs) <= MaxDocs
  /\ built # None => /\ Len(built.index) <= MaxFiles /\ built.bytes <= MaxBytes
                     /\ \A k \in DOMAIN built.index : Size(built.index[k].text) <= MaxFileBytes
  /\ asked # None => Len(reply.results) <= MaxResults

\* Every file is indexed or counted under one reason why not, and an indexed one is
\* found again by its path, with the text that was handed over for it first
\* (build_index, exact_content_for_relative_path).
FilesAreFound ==
  (built # None /\ ~built.cancelled /\ asked = None /\ built.index # <<>>) =>
  LET skipped == built.skipped
  IN  /\ Len(docs) = Len(built.index) + skipped["unsupported"] + skipped["invalid"] + skipped["duplicate"]
                     + skipped["oversized"] + skipped["aggregate"] + skipped["count"]
      /\ \A k \in DOMAIN built.index :
           /\ Lookup(built.index, built.index[k].path) = built.index[k].text
           /\ built.index[k] = docs[CHOOSE j \in DOMAIN docs :
                                      /\ docs[j].path = built.index[k].path
                                      /\ \A i \in 1..j - 1 : docs[i].path # docs[j].path]

\* The answer is what sorting every match by rank and then by path would begin with, it
\* says so when there is more, and a hit's location is where the source, folded, reads
\* the term; a hit with nothing before it that folds to more is in its snippet
\* (query_index, source_location_for_normalized_offset, bounded_snippet).
BestAreShown ==
  (asked # None /\ reply.status = "completed" /\ asked.query.terms # <<>>) =>
  LET q == asked.query
      matches == {k \in DOMAIN built.index : Matches(built.index[k], q)}
      order == SetToSortSeq(matches, LAMBDA j, k :
                 \/ Rank(built.index[j], q) < Rank(built.index[k], q)
                 \/ (Rank(built.index[j], q) = Rank(built.index[k], q) /\ j < k))
      shown == IF Len(order) < MaxResults THEN Len(order) ELSE MaxResults
  IN  /\ reply.truncated = (Cardinality(matches) > MaxResults)
      /\ Len(reply.results) = shown
      /\ \A k \in 1..shown :
           LET f == built.index[order[k]]
               hit == reply.results[k]
           IN  /\ hit.path = f.path
               /\ q.kind = "text" =>
                    \E c \in 1..Len(f.text) :
                      /\ hit.location.byte = Size(SubSeq(f.text, 1, c - 1))
                      /\ \E skip \in 0..Len(Fold(f.text[c])) - 1 :
                           LET rest == Folded(SubSeq(f.text, c, Len(f.text)))
                           IN  IsPrefix(q.terms[1], SubSeq(rest, skip + 1, Len(rest)))
                      /\ hit.location.line =
                           1 + Cardinality({j \in 1..c - 1 : f.text[j] = "newline"})
                      /\ (\A j \in 1..c - 1 : f.text[j] # "sharp") =>
                           \E j \in 1..c : /\ j + Len(hit.snippet) - 1 \in c..Len(f.text)
                                           /\ SubSeq(f.text, j, j + Len(hit.snippet) - 1) = hit.snippet

\* A build or a query that was cancelled hands out nothing (BuildOutcome::Cancelled,
\* OperationStatus::Cancelled).
CancelledIsSilent ==
  /\ (built # None /\ built.cancelled) => asked = None
  /\ (asked # None /\ reply.status = "cancelled") => (reply.results = <<>> /\ ~reply.truncated)
=============================================================================
