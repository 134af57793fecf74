------------------------------ MODULE FtsIndex ------------------------------
(***************************************************************************)
(* The full-text index (fts_index/tantivy.rs): one actor receives the      *)
(* documents of a table and hands them to worker threads, which write them *)
(* under the writer's lock in any order; a commit makes them durable, a    *)
(* reload makes them searchable.  Each document carries a guard of the     *)
(* initial scan, and the scan counts as finished when the last guard is    *)
(* dropped.  Commits, reloads and the hand-over of guards run on different *)
(* threads.                                                                *)
(*                                                                         *)
(* The library (writer, metas, reader) is external: the writer keeps the   *)
(* operations in the order of its lock, a removal hides what was added     *)
(* before it, and a reload serves what was last committed.                 *)
(***************************************************************************)
EXTENDS Integers, FiniteSets, Sequences, SequencesExt

-----------------------------------------------------------------------------
(* What the index makes of a text: the token pipeline of its analyzer,      *)
(* which runs over documents and queries alike, and the queries that the    *)
(* schema of the index allows.  A text is a sequence of words, and of a     *)
(* word only what the filters look at is kept: its stem, an ending that a   *)
(* stemmer takes off, whether it is capitalised, and whether a punctuation  *)
(* mark sticks to it.  The filters are the library's.                       *)
Stems == {"run", "the", "der"}
Words == [stem : Stems, ending : {"", "s"}, upper : BOOLEAN, mark : BOOLEAN]

\* StopWordFilter, with a word of each language to stand for the list.
StopWords(language) ==
  CASE language = "english" -> {"the"}
    [] language = "german"  -> {"der"}
    [] OTHER -> {}
IsStopWord(language, w) == w.stem \in StopWords(language) /\ w.ending = "" /\ ~w.upper

SimpleTokenizer(text) == [i \in DOMAIN text |-> [text[i] EXCEPT !.mark = FALSE]]
LowerCaser(text) == [i \in DOMAIN text |-> [text[i] EXCEPT !.upper = FALSE]]
StopWordFilter(language, text) ==
  LET kept[i \in 0..Len(text)] ==
        IF i = 0 THEN <<>>
        ELSE IF IsStopWord(language, text[i]) THEN kept[i - 1] ELSE Append(kept[i - 1], text[i])
  IN kept[Len(text)]
Stemmer(text) == [i \in DOMAIN text |-> [text[i] EXCEPT !.ending = ""]]

Languages == {"english", "german", "french", "spanish", "italian", "portuguese", "russian"}

BuildTokenPipeline(analyzer, text) ==
  LET lower == LowerCaser(SimpleTokenizer(text))
  IN CASE analyzer = "whitespace" -> text
       [] analyzer = "simple"     -> lower
       [] analyzer = "standard"   -> StopWordFilter("english", lower)
       [] OTHER -> Stemmer(StopWordFilter(analyzer, lower))

\* An index without positions refuses a phrase of more than one token.
MakeQuery(analyzer, positions, query) ==
  LET tokens == BuildTokenPipeline(analyzer, query.text)
  IN IF query.phrase /\ Len(tokens) > 1 /\ ~positions THEN "error" ELSE "parsed"

\* Whether the document of one word is found by a query of one word.
Finds(analyzer, doc, query) ==
  LET tokens == BuildTokenPipeline(analyzer, <<query>>)
  IN tokens # <<>> /\ tokens = BuildTokenPipeline(analyzer, <<doc>>)

-----------------------------------------------------------------------------
(* However a word is written: an analyzer that does more finds what one     *)
(* that does less finds, except the stop words of its language, which it    *)
(* never finds; `standard` does not stem; and only an index without         *)
(* positions refuses a phrase, unless its words are stop words.             *)
AnalyzersRight ==
  /\ \A doc, query \in Words :
       /\ Finds("whitespace", doc, query) => doc = query /\ Finds("simple", doc, query)
       /\ Finds("standard", doc, query) =>
            Finds("simple", doc, query) /\ Finds("english", doc, query)
       /\ \A language \in Languages :
            LET stop == doc.stem \in StopWords(language) /\ doc.ending = ""
            IN /\ Finds("simple", doc, query) /\ ~stop => Finds(language, doc, query)
               /\ stop => ~Finds(language, doc, query)
  /\ \A analyzer \in Languages \union {"standard"}, first, second \in Words :
       MakeQuery(analyzer, FALSE, [phrase |-> TRUE, text |-> <<first, second>>]) = "error" =>
         \A w \in {first, second} : Finds(analyzer, w, w)

-----------------------------------------------------------------------------
CONSTANTS
  FtsScripts,     \* the row changes a table may send, and the bound of a run on
                  \* searches, failures of the library, refusals for memory and a drop
  Threshold,      \* MAX_UNCOMMITTED_THRESHOLD
  FtsQueries      \* the parsed queries a highlight request may carry

\* Every change of a row gives its document a new id (a new epoch), so an id
\* that was removed is not added again before the epochs wrap.
FtsOperation == [op : {"add", "remove"}, id : Nat]
NoneComesBack(changes) ==
  \A i, j \in DOMAIN changes : \A p \in ToSet(changes[i]), q \in ToSet(changes[j]) :
    p.op = "add" /\ q.op = "remove" /\ p.id = q.id => i < j

\* A query is the sequence of its nodes, the root last: [kind, term, clauses].
\* A clause <<occur, node>> has a node that comes before.
Occurs == {"must", "should", "must_not"}
IsQuery(q) ==
  /\ q = [n \in 1..Len(q) |-> q[n]] /\ Len(q) \in Nat \ {0}
  /\ \A n \in DOMAIN q :
       /\ q[n] = [kind |-> q[n].kind, term |-> q[n].term, clauses |-> q[n].clauses]
       /\ q[n].kind \in {"bool", "term", "boost"} /\ q[n].term # "error"
       /\ q[n].clauses \subseteq Occurs \X (1..n - 1)

ASSUME FtsAssumption ==
  /\ \A s \in FtsScripts : s.rows \in Seq(Seq(FtsOperation)) /\ NoneComesBack(s.rows)
  /\ \A q \in FtsQueries : IsQuery(q)

VARIABLES
  rows,           \* the row changes the table has not seen yet
  live,           \* the documents of the rows of the table
  known,          \* is the index still in the table?
  ftsInbox,       \* the channel of the actor
  ftsUp,          \* the actor's loop runs
  created,        \* the IndexState exists
  tasks,          \* closures on the worker pool
  uncommitted,    \* operations (and guards) of the writer, in lock order
  index,          \* the committed index: [opstamp, docs]
  served,         \* the documents of the current searcher
  reloadState,    \* [unsearchable : set of <<opstamp, op>>, opstamp, failed]
  reloader,       \* the reload task: [pc, opstamp]
  reloadWanted,   \* the reload channel has changed
  ftsLost,        \* documents refused or failed, with their guards dropped (ghost)
  events          \* how many of them may still happen

ftsVars == <<rows, live, known, ftsInbox, ftsUp, created, tasks, uncommitted, index, served,
             reloadState, reloader, reloadWanted, ftsLost, events>>
tableSide == <<rows, live, known>>
writerSide == <<uncommitted, index>>
readerSide == <<served, reloadState, reloader, reloadWanted>>

NoOp == [op |-> "none", id |-> 0]
\* A closure: what it does next, its operation, and what it carries along.
Task(at, op) == [at |-> at, op |-> op, opstamp |-> 0, guards |-> {}, docs |-> {}, must |-> {}]

Event ==
  /\ events > 0
  /\ events' = events - 1
Lose(op) == ftsLost' = ftsLost \union {op.id}

-----------------------------------------------------------------------------
(* The table and monitor_items: a row change is applied to the table, then *)
(* its operations are sent.                                                *)

FtsRowChange ==
  /\ known /\ rows # <<>>
  /\ LET ops == Head(rows)
     IN /\ live' = (live \ {o.id : o \in {p \in ToSet(ops) : p.op = "remove"}})
                     \union {o.id : o \in {p \in ToSet(ops) : p.op = "add"}}
        /\ ftsInbox' = ftsInbox \o ops
  /\ rows' = Tail(rows)
  /\ UNCHANGED <<known, ftsUp, created, tasks, writerSide, readerSide, ftsLost, events>>

\* The engine drops the index: the table forgets it, the channel closes.
FtsDropIndex ==
  /\ known /\ Event
  /\ known' = FALSE /\ rows' = <<>> /\ live' = {}
  /\ UNCHANGED <<ftsInbox, ftsUp, created, tasks, writerSide, readerSide, ftsLost>>

-----------------------------------------------------------------------------
(* The actor.                                                              *)

\* get_or_create_state: there is none when the index is gone from the table,
\* or when it cannot be created.
GetOrCreateState(op, found) ==
  \/ ~known /\ ~found /\ UNCHANGED <<created, ftsLost, events>>
  \/ known /\ ~created /\ ~found /\ Event /\ Lose(op) /\ UNCHANGED created
  \/ known /\ found /\ created' = TRUE

\* can_allocate_memory is asked for an add only.
CanAllocateMemory(op, can) ==
  \/ can /\ UNCHANGED <<ftsLost, events>>
  \/ ~can /\ op.op = "add" /\ Event /\ Lose(op)

\* A message without a state, or an add while memory is short, is dropped
\* with its guard.
FtsReceive ==
  /\ ftsUp /\ ftsInbox # <<>>
  /\ ftsInbox' = Tail(ftsInbox)
  /\ UNCHANGED <<tableSide, ftsUp, writerSide, readerSide>>
  /\ LET op == Head(ftsInbox)
     IN \/ GetOrCreateState(op, FALSE) /\ UNCHANGED tasks
        \/ GetOrCreateState(op, TRUE) /\ CanAllocateMemory(op, FALSE) /\ UNCHANGED tasks
        \/ /\ GetOrCreateState(op, TRUE) /\ CanAllocateMemory(op, TRUE)
           /\ tasks' = tasks \union {Task(op.op, op)}

\* The loop ends when the channel is closed and drained; the state goes with
\* the last closure that holds it, and so do the guards.
FtsFinish ==
  /\ ftsUp /\ ~known /\ ftsInbox = <<>>
  /\ ftsUp' = FALSE
  /\ UNCHANGED <<tableSide, ftsInbox, created, tasks, writerSide, readerSide, ftsLost, events>>
FtsFree ==
  /\ ~ftsUp /\ created /\ tasks = {} /\ reloader.pc = "idle"
  /\ created' = FALSE /\ uncommitted' = <<>> /\ reloadWanted' = FALSE
  /\ reloadState' = [reloadState EXCEPT !.unsearchable = {}]
  /\ UNCHANGED <<tableSide, ftsInbox, ftsUp, tasks, index, served, reloader, ftsLost, events>>

\* Bug: a failed reload is never asked for again.
needs_reloadNever == FALSE
needs_reload == reloadState.failed \/ reloadState.unsearchable # {}

\* The tick commits what is pending, and else asks for the reload that a
\* failed one still owes.
FtsTick ==
  /\ ftsUp /\ created
  /\ \/ /\ uncommitted # <<>>
        /\ tasks' = tasks \union {Task("commit", NoOp)}
        /\ UNCHANGED reloadWanted
     \/ /\ uncommitted = <<>> /\ needs_reload
        /\ reloadWanted' = TRUE
        /\ UNCHANGED tasks
  /\ UNCHANGED <<tableSide, ftsInbox, ftsUp, created, writerSide, served, reloadState, reloader,
                 ftsLost, events>>
-----------------------------------------------------------------------------
(* Closures on the worker threads.                                         *)

\* handle_add_document and handle_remove_document under the writer's lock;
\* at the threshold the same closure goes on to commit.
FtsApply(t) ==
  /\ t.at \in {"add", "remove"}
  /\ \/ uncommitted' = Append(uncommitted, t.op) /\ UNCHANGED <<ftsLost, events>>
     \/ t.at = "add" /\ Event /\ Lose(t.op) /\ UNCHANGED uncommitted
  /\ tasks' = (tasks \ {t}) \union
       (IF Len(uncommitted') >= Threshold THEN {Task("commit", t.op)} ELSE {})
  /\ UNCHANGED <<tableSide, ftsInbox, ftsUp, created, index, readerSide>>

\* The last operation on a document decides.
DocsAfter(docs, ops) ==
  {d \in docs : \A i \in DOMAIN ops : ops[i].id # d} \union
  {ops[i].id : i \in {k \in DOMAIN ops : ops[k].op = "add" /\
                                        \A j \in k + 1..Len(ops) : ops[j].id # ops[k].id}}

\* Writer::commit: a failed commit keeps operations and guards.
FtsCommit(t) ==
  /\ t.at = "commit"
  /\ \/ /\ index' = [opstamp |-> index.opstamp + 1, docs |-> DocsAfter(index.docs, uncommitted)]
        /\ tasks' = (tasks \ {t}) \union
             {[Task("hand", t.op) EXCEPT !.opstamp = index.opstamp + 1, !.guards = ToSet(uncommitted)]}
        /\ uncommitted' = <<>> /\ reloadWanted' = TRUE
        /\ UNCHANGED events
     \/ Event /\ tasks' = tasks \ {t} /\ UNCHANGED <<index, uncommitted, reloadWanted>>
  /\ UNCHANGED <<tableSide, ftsInbox, ftsUp, created, served, reloadState, reloader, ftsLost>>

\* drop_guards_when_searchable: the reload of this commit may have come first.
KeepGuards(t) == t.opstamp > reloadState.opstamp
FtsHandOver(t) ==
  /\ t.at = "hand"
  /\ tasks' = tasks \ {t}
  /\ reloadState' = IF KeepGuards(t)
       THEN [reloadState EXCEPT !.unsearchable = @ \union {<<t.opstamp, g>> : g \in t.guards}]
       ELSE reloadState
  /\ UNCHANGED <<tableSide, ftsInbox, ftsUp, created, writerSide, served, reloader, reloadWanted,
                 ftsLost, events>>

-----------------------------------------------------------------------------
(* The reload task: one reload at a time, run on the worker when the watch *)
(* callback of a commit or a tick asked for it.                            *)

\* ReaderInner::reload: the opstamp of the metas first, then the reader, then
\* the guards.  A failed reload only leaves its mark.
ReloadMetas ==
  /\ reloader.pc = "idle" /\ created /\ reloadWanted
  /\ reloadWanted' = FALSE
  /\ \/ /\ reloader' = [pc |-> "reader", opstamp |-> index.opstamp]
        /\ UNCHANGED <<reloadState, events>>
     \/ /\ Event
        /\ reloadState' = [reloadState EXCEPT !.failed = TRUE]
        /\ UNCHANGED reloader
  /\ UNCHANGED served
ReloadReader ==
  /\ reloader.pc = "reader"
  /\ \/ /\ served' = index.docs
        /\ reloader' = [reloader EXCEPT !.pc = "guards"]
        /\ UNCHANGED <<reloadState, events>>
     \/ /\ Event
        /\ reloadState' = [reloadState EXCEPT !.failed = TRUE]
        /\ reloader' = [reloader EXCEPT !.pc = "idle"]
        /\ UNCHANGED served
  /\ UNCHANGED reloadWanted
ReloadedAt(opstamp) ==
  reloadState' = [unsearchable |-> {g \in reloadState.unsearchable : g[1] > opstamp},
                  opstamp |-> opstamp, failed |-> FALSE]
\* Bug: the opstamp is read after the reload.
ReloadGuardsLate ==
  /\ reloader.pc = "guards"
  /\ reloader' = [reloader EXCEPT !.pc = "idle"]
  /\ ReloadedAt(index.opstamp)
  /\ UNCHANGED <<served, reloadWanted, events>>
ReloadGuards ==
  /\ reloader.pc = "guards"
  /\ reloader' = [reloader EXCEPT !.pc = "idle"]
  /\ ReloadedAt(reloader.opstamp)
  /\ UNCHANGED <<served, reloadWanted, events>>
FtsReload ==
  /\ ReloadMetas \/ ReloadReader \/ ReloadGuards
  /\ UNCHANGED <<tableSide, ftsInbox, ftsUp, created, tasks, writerSide, ftsLost>>

-----------------------------------------------------------------------------
(* Searches.  A count, the statistics and a highlight read the searcher    *)
(* once and change nothing.                                                *)

\* get_state: a request does not create the state.
GetState == known /\ created
\* Count and Stats: without a state there are no documents.
FtsCountAnswer == IF GetState THEN Cardinality(served) ELSE 0

GuardsHeld ==
  ToSet(ftsInbox) \union {t.op : t \in {u \in tasks : u.at \in {"add", "remove"}}}
    \union (UNION {t.guards : t \in tasks}) \union ToSet(uncommitted)
    \union {g[2] : g \in reloadState.unsearchable}

\* Documents of rows whose guards are dropped: they must be searchable.
Promised == live \ ({g.id : g \in GuardsHeld} \union ftsLost)

\* The state is looked up when the message is received; without one the answer
\* is empty.
FtsRequest ==
  /\ ftsUp /\ known /\ Event
  /\ tasks' = IF ~GetState THEN tasks
              ELSE tasks \union {[Task("search", NoOp) EXCEPT !.must = Promised]}
  /\ UNCHANGED <<tableSide, ftsInbox, ftsUp, created, writerSide, readerSide, ftsLost>>

\* handle_search takes the searcher, and translates what it found under the
\* table lock later.
FtsSearch(t) ==
  /\ t.at = "search"
  /\ tasks' = (tasks \ {t}) \union {[t EXCEPT !.at = "rank", !.docs = served]}
  /\ UNCHANGED <<tableSide, ftsInbox, ftsUp, created, writerSide, readerSide, ftsLost, events>>

\* What a search answers if it runs now: TopDocs keeps `limit` documents (any,
\* by score) before the table is asked which of them still have a row.
SearchAnswers(t, limit) ==
  {top \intersect live : top \in {d \in SUBSET t.docs :
     Cardinality(d) = IF limit < Cardinality(t.docs) THEN limit ELSE Cardinality(t.docs)}}

FtsAnswer(t) ==
  /\ t.at = "rank"
  /\ tasks' = tasks \ {t}
  /\ UNCHANGED <<tableSide, ftsInbox, ftsUp, created, writerSide, readerSide, ftsLost, events>>

-----------------------------------------------------------------------------
(* Highlighting                                                             *)

\* A copy of the query, node by node, without the clauses that are negated; a
\* boost among the rest refuses it.
QueryError == [kind |-> "error", term |-> "none", clauses |-> {}]
strip_negated_clauses(q) ==
  LET stripped[n \in DOMAIN q] ==
        CASE q[n].kind = "boost" -> QueryError
          [] q[n].kind = "term"  -> q[n]
          [] OTHER ->
               LET kept == {c \in q[n].clauses : c[1] # "must_not"}
               IN IF \E c \in kept : stripped[c[2]] = QueryError
                  THEN QueryError ELSE [q[n] EXCEPT !.clauses = kept]
  IN stripped

\* BooleanQuery::query_terms walks every clause, whatever its sign, and the
\* snippets of a highlight show these terms.
QueryTerms(q) ==
  LET terms[n \in DOMAIN q] ==
        IF q[n].kind = "bool" THEN UNION {terms[c[2]] : c \in q[n].clauses} ELSE {q[n].term}
  IN terms
HighlightAnswer(q) ==
  LET stripped == strip_negated_clauses(q)
  IN IF stripped[Len(q)] = QueryError THEN {"error"} ELSE QueryTerms(stripped)[Len(q)]

\* Reference: the terms with no must_not on the way to them, and no boost.
PositiveTerms(q) ==
  LET terms[n \in DOMAIN q] ==
        CASE q[n].kind = "boost" -> {"error"}
          [] q[n].kind = "term"  -> {q[n].term}
          [] OTHER -> UNION {terms[c[2]] : c \in {d \in q[n].clauses : d[1] # "must_not"}}
  IN terms

-----------------------------------------------------------------------------
NewIndexState ==
  /\ uncommitted = <<>> /\ index = [opstamp |-> 0, docs |-> {}] /\ served = {}
  /\ reloadState = [unsearchable |-> {}, opstamp |-> 0, failed |-> FALSE]
  /\ reloader = [pc |-> "idle", opstamp |-> 0] /\ reloadWanted = FALSE

FtsInit ==
  /\ \E script \in FtsScripts : rows = script.rows /\ events = script.events
  /\ live = {} /\ known = TRUE
  /\ ftsInbox = <<>> /\ ftsUp = TRUE /\ created = FALSE /\ tasks = {}
  /\ NewIndexState
  /\ ftsLost = {}

Closure ==
  \E t \in tasks : \/ FtsApply(t) \/ FtsCommit(t) \/ FtsHandOver(t) \/ FtsSearch(t) \/ FtsAnswer(t)

FtsNext ==
  \/ FtsRowChange \/ FtsDropIndex \/ FtsReceive \/ FtsFinish \/ FtsFree \/ FtsTick
  \/ FtsReload \/ FtsRequest \/ Closure

\* The runtime polls the actor and the reload task, the workers run what they
\* are handed, and the interval ticks.
FtsFairness ==
  /\ WF_ftsVars(FtsReceive) /\ WF_ftsVars(FtsFinish) /\ WF_ftsVars(FtsFree) /\ WF_ftsVars(FtsTick)
  /\ WF_ftsVars(FtsReload) /\ WF_ftsVars(Closure)

-----------------------------------------------------------------------------
\* A search finds every document of a row whose guard was dropped before the
\* search was sent, if the row still exists when the search answers and its
\* limit leaves room: "in-progress guards of committed documents" are dropped
\* "once they are searchable" (tantivy.rs, Reader).
SearchFindsFinished ==
  \A t \in tasks : t.at = "rank" =>
    \A answer \in SearchAnswers(t, Cardinality(t.docs)) : t.must \intersect live \subseteq answer

\* When no guard is held and nothing was lost, every row is counted (a document
\* whose removal overtook it on the workers may be counted as well).
CountsFinished ==
  known /\ GuardsHeld = {} /\ ftsLost = {} => FtsCountAnswer >= Cardinality(live)

\* A highlight marks exactly the terms the query asks for, at every nesting
\* level, and refuses a query it cannot see into (strip_negated_clauses).
HighlightsPositive ==
  \A q \in FtsQueries :
    LET positive == PositiveTerms(q)[Len(q)]
    IN HighlightAnswer(q) = IF "error" \in positive THEN {"error"} ELSE positive

\* What the full-text index answers is right, however commits, reloads and
\* requests interleave.
FtsAnswersRight == SearchFindsFinished /\ CountsFinished /\ HighlightsPositive /\ AnalyzersRight

\* The guards of all documents are dropped in the end, so the initial scan
\* finishes, whatever commits and reloads failed on the way.
GuardsReleased == <>[](rows = <<>> \/ ~known) => <>[](GuardsHeld = {})
=============================================================================
