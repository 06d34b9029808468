--------------------------- MODULE ResearchEngine ---------------------------
(* The report pipeline of packages/research: web_search.py and engine.py.   *)
(* Every call of it may fail and none of them stops the report.  JobStream  *)
(* has the job around it and what becomes of the stages.                    *)
(***************************************************************************)
EXTENDS Naturals, Sequences, SequencesExt

CONSTANTS
  Backends,      \* the search backends in their order
  MaxHits,       \* how many hits a report of this depth asks for
  MinSections, MaxSections, FallbackSections,
  MaxTitles      \* bound on the titles of an outline

VARIABLES
  depth,
  stage,         \* the last stage emitted; "composed" when the report is there
  backend,       \* the search backend to be tried
  hits,
  outline,       \* number of sections
  bodies,        \* per section that was tried: "text" or "failed"
  critique, table,   \* "text" or "failed", "none" at first
  emitted        \* the section stages emitted, with their indices

vars == <<depth, stage, backend, hits, outline, bodies, critique, table, emitted>>

Results == {"text", "failed"}

TypeOK ==
  /\ depth \in {"quick", "standard", "deep"}
  /\ stage \in {"web_search", "outline", "sections", "critique", "comparison", "composed"}
  /\ backend \in 1 .. Len(Backends) + 1
  /\ hits \in 0 .. MaxHits /\ outline \in 0 .. MaxSections
  /\ bodies \in Seq(Results)
  /\ critique \in Results \cup {"none"} /\ table \in Results \cup {"none"}
  /\ emitted \in Seq({"start", "done"} \X (0 .. MaxSections) \X (1 .. MaxSections))

Init ==
  /\ depth \in {"quick", "standard", "deep"} /\ stage = "web_search"
  /\ backend = 1 /\ hits = 0 /\ outline = 0 /\ bodies = <<>>
  /\ critique = "none" /\ table = "none" /\ emitted = <<>>

-----------------------------------------------------------------------------
(* Web search                                                              *)

Capped(n) == IF n < MaxHits THEN n ELSE MaxHits

\* A backend without a key, without its package, without hits or with an error
\* hands over to the next.
SearchEmpty ==
  /\ stage = "web_search" /\ backend <= Len(Backends)
  /\ backend' = backend + 1
  /\ stage' = IF backend = Len(Backends) THEN "outline" ELSE stage
  /\ UNCHANGED <<depth, hits, outline, bodies, critique, table, emitted>>

SearchHits(n) ==
  /\ stage = "web_search" /\ backend <= Len(Backends) /\ n > 0
  /\ hits' = Capped(n)
  /\ stage' = "outline"
  /\ UNCHANGED <<depth, backend, outline, bodies, critique, table, emitted>>

-----------------------------------------------------------------------------
(* The stages                                                              *)

ParseUncapped(n) ==  \* mutant: long outlines are not cut
  IF n < MinSections THEN FallbackSections ELSE n

\* _parse_outline: too few titles give the fallback, too many are cut.
ParseOutline(n) ==
  IF n < MinSections THEN FallbackSections ELSE IF n > MaxSections THEN MaxSections ELSE n

\* n usable titles were answered; a failed call is as good as none.
Outline(n) ==
  /\ stage = "outline"
  /\ outline' = ParseOutline(n)
  /\ stage' = "sections"
  /\ UNCHANGED <<depth, backend, hits, bodies, critique, table, emitted>>

Started == Len(emitted) > 0 /\ Last(emitted)[1] = "start"

StartSection ==
  /\ stage = "sections" /\ Len(bodies) < outline /\ ~Started
  /\ emitted' = Append(emitted, <<"start", Len(bodies), outline>>)
  /\ UNCHANGED <<depth, stage, backend, hits, outline, bodies, critique, table>>

\* A failed call leaves a placeholder in its place.
WriteSection(result) ==
  /\ stage = "sections" /\ Started
  /\ bodies' = Append(bodies, result)
  /\ emitted' = Append(emitted, <<"done", Len(bodies) + 1, outline>>)
  /\ stage' = IF Len(bodies) + 1 < outline THEN stage
              ELSE IF depth = "deep" THEN "critique" ELSE "comparison"
  /\ UNCHANGED <<depth, backend, hits, outline, critique, table>>

Critique(result) ==
  /\ stage = "critique"
  /\ critique' = result /\ stage' = "comparison"
  /\ UNCHANGED <<depth, backend, hits, outline, bodies, table, emitted>>

Compare(result) ==
  /\ stage = "comparison"
  /\ table' = result /\ stage' = "composed"
  /\ UNCHANGED <<depth, backend, hits, outline, bodies, critique, emitted>>

Next ==
  \/ SearchEmpty \/ \E n \in 0 .. MaxHits + 1 : SearchHits(n)
  \/ \E n \in 0 .. MaxTitles : Outline(n)
  \/ StartSection
  \/ \E result \in Results : WriteSection(result) \/ Critique(result) \/ Compare(result)

Spec == Init /\ [][Next]_vars

-----------------------------------------------------------------------------
(* Properties                                                              *)

\* Whatever failed on the way, a composed report has a body or a placeholder
\* for each of at least MinSections and at most MaxSections sections, open
\* questions exactly when it is deep, and a table; and the stages told of every
\* section, begun before it was done, one after the other.
ReportIsWhole ==
  /\ stage = "composed" =>
       /\ Len(bodies) = outline /\ outline \in MinSections .. MaxSections
       /\ (critique # "none") = (depth = "deep") /\ table # "none"
       /\ Len(emitted) = 2 * outline
  /\ \A i \in 1 .. Len(emitted) :
       emitted[i] = IF i % 2 = 1 THEN <<"start", i \div 2, outline>>
                                 ELSE <<"done", i \div 2, outline>>

-----------------------------------------------------------------------------
(* The inductive invariant                                                 *)

\* How far the report is at each stage.
StagePhase ==
  /\ stage \in {"web_search", "outline"} => bodies = <<>> /\ emitted = <<>>
  /\ stage = "sections" => /\ Len(bodies) < outline \/ outline = 0
                           /\ Len(emitted) = 2 * Len(bodies) + (IF Started THEN 1 ELSE 0)
  /\ stage \in {"critique", "comparison", "composed"} =>
       Len(bodies) = outline /\ Len(emitted) = 2 * outline
  /\ stage = "critique" => depth = "deep"
  /\ stage \notin {"web_search", "outline"} => outline \in MinSections .. MaxSections
  /\ critique # "none" <=> (depth = "deep" /\ stage \in {"comparison", "composed"})
  /\ table # "none" <=> stage = "composed"

IInv == TypeOK /\ StagePhase /\ ReportIsWhole
=============================================================================
