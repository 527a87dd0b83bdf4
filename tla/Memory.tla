-------------------------------- MODULE Memory --------------------------------
(***************************************************************************)
(* The memory of the agents: the table agent_memories (services/memory/    *)
(* store.py) and the in-memory index of its long-term rows (services/      *)
(* memory/index.py), used by requests that run at the same time.           *)
(*                                                                         *)
(* A step is one SELECT, one commit or one use of the index, whose methods *)
(* hold its lock.  A content stands for the texts with one content_hash;   *)
(* Words gives its token_keywords.  A topic is a user, a symbol or none,   *)
(* and a memory type.  Columns on which no step of a memory's life depends *)
(* (importance, metadata, created_at, estimates) are left out; as they rank *)
(* what is found, a LIMIT keeps any rows, as many as it allows.            *)
(***************************************************************************)
EXTENDS Naturals, FiniteSetsExt

CONSTANTS Clients, Ids, Topics, Contents, Keywords,
          Words,        \* [Contents -> SUBSET Keywords]
          Requests,     \* the write requests, with the lifetime they ask for
          Queries,      \* the topics that a context request sees, the words it looks
                        \* for, and how many memories it wants (normalized_limit)
          Forever,      \* no lifetime: expires_at is NULL
          MaxResults,   \* what a limit is cut to, the caller's and the index's: 100
          MaxScanned,   \* the rows that the table is searched for a similar one: 50
          MaxClock, MaxRestarts

ASSUME MemoryAssumption ==
    /\ Words \in [Contents -> SUBSET Keywords]
    /\ Forever \notin Nat
    /\ Requests \subseteq [topic : Topics, scope : {"long_term", "short_term"},
                           content : Contents, ttl : (Nat \ {0}) \cup {Forever}]
    /\ Queries \subseteq [topics : SUBSET Topics, words : SUBSET Keywords,
                          limit : 1..MaxResults]
    /\ MaxResults \in Nat \ {0} /\ MaxScanned \in Nat \ {0}
    /\ MaxClock \in Nat /\ MaxRestarts \in Nat

Row == [topic : Topics, scope : {"long_term", "short_term"}, content : Contents,
        expires : Nat \cup {Forever}]

CONSTANTS Unwritten, Swept, NoId, NoRequest
ASSUME NoValueAssumption ==
    /\ Unwritten \notin Row /\ Swept \notin Row /\ Unwritten # Swept
    /\ NoId \notin Ids
    /\ NoRequest \notin Requests \cup Queries

VARIABLES
    rows,         \* agent_memories
    index,        \* MemoryIndex._records
    keywordIndex, \* MemoryIndex._keyword_index
    clock,
    stage,        \* where each client's request is
    request,      \* what it asks for
    found,        \* write: the row to be returned; NoId where there is none
    expires,      \* write: the expires_at of a new row
    hits,         \* context: what the index gave
    memories,     \* context: what the table gave
    fetched,      \* reload, write: the rows it has read
    compacting,   \* the context is for POST memory/compact
    restarts,
    unseen,       \* history: reload: the rows inserted since it read the table
    missed,       \* history: rows that the last reload has not seen
    due,          \* history: context: the long-term rows that it ought to find
    rivals,       \* history: the write runs beside another one that inserts, or the
                  \* index sends it to a row that is gone, or it has not scanned all rows
    doubtful,     \* history: rows inserted by such writes
    promised      \* history: rows returned to long-term writes without a lifetime

memory == <<rows, index, keywordIndex>>
local == <<stage, request, found, expires, hits, memories, fetched, compacting>>
history == <<unseen, missed, due, rivals, doubtful, promised>>
vars == <<memory, clock, local, restarts, history>>

Stage == {"idle", "asked", "unmatched", "ranked", "duplicate", "new", "saved", "read",
          "deleted", "clean", "hits", "short", "context", "loaded"}

Stored(i) == rows[i] \in Row
IsLong(i) == Stored(i) /\ rows[i].scope = "long_term"
Indexed(i) == index[i] # Unwritten

Past(e, now) == e # Forever /\ e < now
Future(e, now) == e = Forever \/ e > now

Init ==
    /\ rows = [i \in Ids |-> Unwritten]
    /\ index = rows
    /\ keywordIndex = [k \in Keywords |-> {}]
    /\ clock = 0
    /\ stage = [c \in Clients |-> "idle"]
    /\ request = [c \in Clients |-> NoRequest]
    /\ found = [c \in Clients |-> NoId]
    /\ expires = [c \in Clients |-> Forever]
    /\ hits = [c \in Clients |-> {}]
    /\ memories = [c \in Clients |-> {}]
    /\ fetched = [c \in Clients |-> index]
    /\ compacting = [c \in Clients |-> FALSE]
    /\ restarts = 0
    /\ unseen = [c \in Clients |-> {}]
    /\ missed = {}
    /\ due = [c \in Clients |-> {}]
    /\ rivals = [c \in Clients |-> FALSE]
    /\ doubtful = {}
    /\ promised = {}

---------------------------------------------------------------------------
Goto(c, s) == stage' = [stage EXCEPT ![c] = s]

\* The request ends, and what it kept is forgotten.
Finish(c) ==
    /\ Goto(c, "idle")
    /\ request' = [request EXCEPT ![c] = NoRequest]
    /\ found' = [found EXCEPT ![c] = NoId]
    /\ expires' = [expires EXCEPT ![c] = Forever]
    /\ hits' = [hits EXCEPT ![c] = {}]
    /\ memories' = [memories EXCEPT ![c] = {}]
    /\ fetched' = [fetched EXCEPT ![c] = [i \in Ids |-> Unwritten]]
    /\ compacting' = [compacting EXCEPT ![c] = FALSE]

\* What LIMIT n leaves of S, by an order on columns that are left out.
Limited(S, n) == IF Cardinality(S) <= n THEN {S} ELSE kSubset(n, S)

Tick ==
    /\ clock < MaxClock
    /\ clock' = clock + 1
    /\ UNCHANGED <<memory, local, restarts, history>>

---------------------------------------------------------------------------
\* Writes.
SameTopic(i, r) == IsLong(i) /\ rows[i].topic = r.topic

\* jaccard_similarity >= 0.85; with no common word it is 0, whatever the sets.
Alike(v, w) ==
    /\ v \cap w # {}
    /\ 100 * Cardinality(v \cap w) >= 85 * Cardinality(v \cup w)

AtLeastAsLike(w, u, v) ==
    Cardinality(w \cap u) * Cardinality(w \cup v) >= Cardinality(w \cap v) * Cardinality(w \cup u)

Ask(c, r) ==
    /\ stage[c] = "idle"
    /\ Goto(c, "asked")
    /\ request' = [request EXCEPT ![c] = r]
    /\ UNCHANGED <<memory, clock, found, expires, hits, memories, fetched, compacting,
                   restarts, history>>

ExpiryOf(r) == IF r.ttl = Forever THEN Forever ELSE clock + r.ttl

\* The hash is looked up whether or not the row has expired.
Exact(r) == {i \in Ids : SameTopic(i, r) /\ rows[i].content = r.content}

FindExact(c) ==
    LET r == request[c]
    IN  /\ stage[c] = "asked"
        /\ expires' = [expires EXCEPT ![c] = ExpiryOf(r)]
        /\ rivals' = [rivals EXCEPT ![c] = FALSE]
        /\ \/ /\ r.scope = "short_term"
              /\ Goto(c, "new")
              /\ UNCHANGED found
           \/ /\ r.scope = "long_term"
              /\ \E i \in Exact(r) : found' = [found EXCEPT ![c] = i]
              /\ Goto(c, "duplicate")
           \/ /\ r.scope = "long_term"
              /\ Exact(r) = {}
              /\ Goto(c, "unmatched")
              /\ UNCHANGED found
        /\ UNCHANGED <<memory, clock, request, hits, memories, fetched, compacting,
                       restarts, unseen, missed, due, doubtful, promised>>

\* The entries that share a word with w; all of them when none does.
Candidates(w) ==
    LET sharing == UNION {keywordIndex[k] : k \in w}
    IN  IF sharing = {} THEN {i \in Ids : Indexed(i)} ELSE {i \in sharing : Indexed(i)}

\* similarity_search: the most similar entry of the topic, if similar enough.
Nearest(r) ==
    LET w == Words[r.content]
        same == {i \in Candidates(w) : index[i].topic = r.topic}
    IN  {i \in same : /\ Alike(w, Words[index[i].content])
                      /\ \A j \in same : AtLeastAsLike(w, Words[index[i].content],
                                                          Words[index[j].content])}

SearchSimilar(c) ==
    /\ stage[c] = "unmatched"
    /\ \/ \E i \in Nearest(request[c]) : found' = [found EXCEPT ![c] = i]
       \/ Nearest(request[c]) = {} /\ UNCHANGED found
    /\ Goto(c, "ranked")
    /\ UNCHANGED <<memory, clock, request, expires, hits, memories, fetched, compacting,
                   restarts, history>>

\* The long-term rows of the topic.
Siblings(r) == {i \in Ids : SameTopic(i, r)}

\* The row that the index named, or none where it is gone; the table, of which some
\* rows are scanned, is searched only when the index named no row.
Similar(c, scanned) ==
    IF found[c] # NoId
    THEN {i \in {found[c]} : Stored(i)}
    ELSE {i \in scanned : Alike(Words[request[c].content], Words[rows[i].content])}

\* Mutant: only the index is asked for similar rows.
FindSimilar_IndexOnly(c) ==
    LET gone == found[c] # NoId /\ ~Stored(found[c])
    IN  /\ stage[c] = "ranked"
        /\ IF found[c] # NoId /\ ~gone
           THEN Goto(c, "duplicate") /\ UNCHANGED found
           ELSE Goto(c, "new") /\ found' = [found EXCEPT ![c] = NoId]
        /\ rivals' = [rivals EXCEPT ![c] = @ \/ gone]
        /\ UNCHANGED <<memory, clock, request, expires, hits, memories, fetched, compacting,
                       restarts, unseen, missed, due, doubtful, promised>>

FindSimilar(c) ==
    /\ stage[c] = "ranked"
    /\ \E scanned \in Limited(Siblings(request[c]), MaxScanned) :
        \/ /\ \E i \in Similar(c, scanned) : found' = [found EXCEPT ![c] = i]
           /\ Goto(c, "duplicate")
           /\ rivals' = [rivals EXCEPT ![c] = FALSE]
        \/ /\ Similar(c, scanned) = {}
           /\ rivals' = [rivals EXCEPT
                  ![c] = @ \/ found[c] # NoId \/ scanned # Siblings(request[c])]
           /\ found' = [found EXCEPT ![c] = NoId]
           /\ Goto(c, "new")
    /\ UNCHANGED <<memory, clock, request, expires, hits, memories, fetched, compacting,
                   restarts, unseen, missed, due, doubtful, promised>>

NewRow(c) == [topic |-> request[c].topic, scope |-> request[c].scope,
              content |-> request[c].content, expires |-> expires[c]]

\* Writes that have looked for a duplicate.
Deciding == {"unmatched", "ranked", "new"}

Insert(c) ==
    /\ stage[c] = "new"
    /\ \E i \in Ids :
        /\ rows[i] = Unwritten
        /\ rows' = [rows EXCEPT ![i] = NewRow(c)]
        /\ found' = [found EXCEPT ![c] = i]
        /\ unseen' = [d \in Clients |-> IF stage[d] = "loaded" THEN unseen[d] \cup {i}
                                        ELSE unseen[d]]
        /\ doubtful' = IF rivals[c] THEN doubtful \cup {i} ELSE doubtful
    /\ rivals' = [d \in Clients |-> d # c /\ (rivals[d] \/ stage[d] \in Deciding)]
    /\ Goto(c, "saved")
    /\ UNCHANGED <<index, keywordIndex, clock, request, expires, hits, memories, fetched,
                   compacting, restarts, missed, due, promised>>

\* _update_duplicate changes none of the columns that are kept here, expires_at
\* included.  The UPDATE of a row that is gone raises.
Touch(c) ==
    /\ stage[c] = "duplicate"
    /\ \/ /\ Stored(found[c])
          /\ Goto(c, "saved")
          /\ UNCHANGED <<request, found, expires, hits, memories, fetched, compacting>>
       \/ /\ ~Stored(found[c])
          /\ Finish(c)
    /\ UNCHANGED <<memory, clock, restarts, history>>

\* Mutant: the index is left to the next reload.
Refresh_NotIndexed(c) ==
    /\ stage[c] = "saved"
    /\ Finish(c)
    /\ UNCHANGED <<memory, clock, restarts, history>>

\* session.refresh raises when the row is gone.
Refresh(c) ==
    /\ stage[c] = "saved"
    /\ \/ /\ IsLong(found[c])
          /\ Goto(c, "read")
          /\ fetched' = [fetched EXCEPT ![c][found[c]] = rows[found[c]]]
          /\ UNCHANGED <<request, found, expires, hits, memories, compacting>>
       \/ /\ ~IsLong(found[c])
          /\ Finish(c)
    /\ UNCHANGED <<memory, clock, restarts, history>>

\* A commit that the database refuses raises, and nothing is written.
Refused(c) ==
    /\ stage[c] \in {"new", "duplicate"}
    /\ Finish(c)
    /\ UNCHANGED <<memory, clock, restarts, history>>

---------------------------------------------------------------------------
\* The index.  Its two maps change together, under its lock.
Without(map, i, e) == [k \in Keywords |-> IF k \in Words[e.content] THEN map[k] \ {i} ELSE map[k]]
With(map, i, e) == [k \in Keywords |-> IF k \in Words[e.content] THEN map[k] \cup {i} ELSE map[k]]

Rebuilt(entries) ==
    [k \in Keywords |-> {i \in Ids : entries[i] # Unwritten /\ k \in Words[entries[i].content]}]

\* Mutant: the row is looked up once more, and may be gone.
Upsert_Rereads(c) ==
    LET i == found[c]
    IN  /\ stage[c] = "read"
        /\ index' = [index EXCEPT ![i] = rows[i]]
        /\ keywordIndex' =
             IF Stored(i) THEN With(keywordIndex, i, rows[i]) ELSE keywordIndex
        /\ missed' = missed \ {i}
        /\ promised' = IF request[c].ttl = Forever THEN promised \cup {i} ELSE promised
        /\ Finish(c)
        /\ UNCHANGED <<rows, clock, restarts, unseen, due, rivals, doubtful>>

Upsert(c) ==
    LET i == found[c]
        e == fetched[c][i]
    IN  /\ stage[c] = "read"
        /\ index' = [index EXCEPT ![i] = e]
        /\ keywordIndex' =
             With(IF Indexed(i) THEN Without(keywordIndex, i, index[i]) ELSE keywordIndex, i, e)
        /\ missed' = missed \ {i}
        /\ promised' = IF request[c].ttl = Forever THEN promised \cup {i} ELSE promised
        /\ Finish(c)
        /\ UNCHANGED <<rows, clock, restarts, unseen, due, rivals, doubtful>>

\* Mutant: the words of the removed entries stay in the inverted index.
RemoveExpired_Words(c) ==
    /\ stage[c] = "deleted"
    /\ index' = [i \in Ids |-> IF Indexed(i) /\ Past(index[i].expires, clock)
                               THEN Unwritten ELSE index[i]]
    /\ Goto(c, "clean")
    /\ UNCHANGED <<rows, keywordIndex, clock, request, found, expires, hits, memories, fetched,
                   compacting, restarts, history>>

\* Reads the clock again, after the DELETE.
RemoveExpired(c) ==
    LET expired == {i \in Ids : Indexed(i) /\ Past(index[i].expires, clock)}
    IN  /\ stage[c] = "deleted"
        /\ index' = [i \in Ids |-> IF i \in expired THEN Unwritten ELSE index[i]]
        /\ keywordIndex' = [k \in Keywords |->
                keywordIndex[k] \ {i \in expired : k \in Words[index[i].content]}]
        /\ Goto(c, "clean")
        /\ UNCHANGED <<rows, clock, request, found, expires, hits, memories, fetched, compacting,
                       restarts, history>>

\* load_long_term_memories reads the table before it takes the lock.
ToLoad == [i \in Ids |-> IF IsLong(i) /\ Future(rows[i].expires, clock)
                         THEN rows[i] ELSE Unwritten]

Load(c) ==
    /\ stage[c] = "idle"
    /\ fetched' = [fetched EXCEPT ![c] = ToLoad]
    /\ unseen' = [unseen EXCEPT ![c] = {}]
    /\ Goto(c, "loaded")
    /\ UNCHANGED <<memory, clock, request, found, expires, hits, memories, compacting,
                   restarts, missed, due, rivals, doubtful, promised>>

Replace(c) ==
    /\ stage[c] = "loaded"
    /\ index' = fetched[c]
    /\ keywordIndex' = Rebuilt(fetched[c])
    /\ missed' = unseen[c]
    /\ unseen' = [unseen EXCEPT ![c] = {}]
    /\ Finish(c)
    /\ UNCHANGED <<rows, clock, restarts, due, rivals, doubtful, promised>>

---------------------------------------------------------------------------
\* Requests that read.  They all begin with cleanup_expired: NoRequest stands for
\* a listing or the statistics, which do nothing more.
Overdue == {i \in Ids : Stored(i) /\ Past(rows[i].expires, clock)}

\* Mutant: expires_at <= now.
Sweep_Early(c, q, compact) ==
    LET overdue == {i \in Ids : /\ Stored(i) /\ rows[i].expires # Forever
                                /\ rows[i].expires <= clock}
    IN  /\ stage[c] = "idle"
        /\ rows' = [i \in Ids |-> IF i \in overdue THEN Swept ELSE rows[i]]
        /\ Goto(c, IF overdue = {} THEN "clean" ELSE "deleted")
        /\ request' = [request EXCEPT ![c] = q]
        /\ compacting' = [compacting EXCEPT ![c] = compact]
        /\ UNCHANGED <<index, keywordIndex, clock, found, expires, hits, memories, fetched,
                       restarts, history>>

Sweep(c, q, compact) ==
    /\ stage[c] = "idle"
    /\ rows' = [i \in Ids |-> IF i \in Overdue THEN Swept ELSE rows[i]]
    /\ Goto(c, IF Overdue = {} THEN "clean" ELSE "deleted")
    /\ request' = [request EXCEPT ![c] = q]
    /\ compacting' = [compacting EXCEPT ![c] = compact]
    /\ UNCHANGED <<index, keywordIndex, clock, found, expires, hits, memories, fetched,
                   restarts, history>>

Listing(c) ==
    /\ stage[c] = "clean"
    /\ request[c] = NoRequest
    /\ Finish(c)
    /\ UNCHANGED <<memory, clock, restarts, history>>

Mentions(q, e) == q.words = {} \/ q.words \cap Words[e.content] # {}

\* Mutant: every word of the query has to occur.
Matches_AllWords(q) ==
    {i \in IF q.words = {} THEN Ids ELSE UNION {keywordIndex[k] : k \in q.words} :
        /\ Indexed(i)
        /\ index[i].topic \in q.topics
        /\ ~Past(index[i].expires, clock)
        /\ q.words \subseteq Words[index[i].content]}

\* search: the inverted index narrows the entries when there are words.
Matches(q) ==
    {i \in IF q.words = {} THEN Ids ELSE UNION {keywordIndex[k] : k \in q.words} :
        /\ Indexed(i)
        /\ index[i].topic \in q.topics
        /\ ~Past(index[i].expires, clock)
        /\ Mentions(q, index[i])}

\* The index is asked for twice as many as the context may have.
MaxHits(q) == IF 2 * q.limit <= MaxResults THEN 2 * q.limit ELSE MaxResults

BeingWritten(i) == \E d \in Clients : found[d] = i /\ stage[d] \in {"saved", "read"}
Settled(i) == IsLong(i) /\ i \notin missed /\ ~BeingWritten(i)

Search(c) ==
    /\ stage[c] = "clean"
    /\ request[c] # NoRequest
    /\ \E best \in Limited(Matches(request[c]), MaxHits(request[c])) :
            hits' = [hits EXCEPT ![c] = best]
    /\ due' = [due EXCEPT ![c] =
            {i \in Ids : /\ Settled(i) /\ rows[i].topic \in request[c].topics
                         /\ Mentions(request[c], rows[i])}]
    /\ Goto(c, "hits")
    /\ UNCHANGED <<memory, clock, request, found, expires, memories, fetched, compacting,
                   restarts, unseen, missed, rivals, doubtful, promised>>

\* The rows that a context may have: those of one scope and of its topics.
Visible(c, scope) ==
    {i \in Ids : Stored(i) /\ rows[i].scope = scope /\ rows[i].topic \in request[c].topics}

ReadShort(c) ==
    /\ stage[c] = "hits"
    /\ \E best \in Limited(Visible(c, "short_term"), request[c].limit) :
            memories' = [memories EXCEPT ![c] = best]
    /\ Goto(c, "short")
    /\ UNCHANGED <<memory, clock, request, found, expires, hits, fetched, compacting,
                   restarts, history>>

\* The hits that are still in the table, or any long-term rows where there were none.
LongRecords(c) ==
    IF hits[c] # {} THEN {Visible(c, "long_term") \cap hits[c]}
    ELSE Limited(Visible(c, "long_term"), request[c].limit)

\* Short-term and long-term rows compete for the places of the context.
ReadLong(c) ==
    /\ stage[c] = "short"
    /\ \E records \in LongRecords(c) :
        \E best \in Limited(memories[c] \cup records, request[c].limit) :
            memories' = [memories EXCEPT ![c] = best]
    /\ Goto(c, "context")
    /\ UNCHANGED <<memory, clock, request, found, expires, hits, fetched, compacting,
                   restarts, history>>

\* The text is built of the memories (module ContextBudget).
Answer(c) ==
    /\ stage[c] = "context"
    /\ ~compacting[c]
    /\ due' = [due EXCEPT ![c] = {}]
    /\ Finish(c)
    /\ UNCHANGED <<memory, clock, restarts, unseen, missed, rivals, doubtful, promised>>

\* compact writes the context as a memory: any text, for all that is known here.
Compact(c) ==
    /\ stage[c] = "context"
    /\ compacting[c]
    /\ \E r \in Requests :
        /\ r.scope = "long_term" /\ r.ttl = Forever
        /\ r.topic \in request[c].topics
        /\ request' = [request EXCEPT ![c] = r]
    /\ hits' = [hits EXCEPT ![c] = {}]
    /\ memories' = [memories EXCEPT ![c] = {}]
    /\ due' = [due EXCEPT ![c] = {}]
    /\ compacting' = [compacting EXCEPT ![c] = FALSE]
    /\ Goto(c, "asked")
    /\ UNCHANGED <<memory, clock, found, expires, fetched, restarts,
                   unseen, missed, rivals, doubtful, promised>>

---------------------------------------------------------------------------
\* The process dies; the next one loads the index before it serves a request.
Restart ==
    /\ restarts < MaxRestarts
    /\ restarts' = restarts + 1
    /\ index' = ToLoad
    /\ keywordIndex' = Rebuilt(ToLoad)
    /\ stage' = [c \in Clients |-> "idle"]
    /\ request' = [c \in Clients |-> NoRequest]
    /\ found' = [c \in Clients |-> NoId]
    /\ expires' = [c \in Clients |-> Forever]
    /\ hits' = [c \in Clients |-> {}]
    /\ memories' = [c \in Clients |-> {}]
    /\ fetched' = [c \in Clients |-> [i \in Ids |-> Unwritten]]
    /\ compacting' = [c \in Clients |-> FALSE]
    /\ unseen' = [c \in Clients |-> {}]
    /\ missed' = {}
    /\ due' = [c \in Clients |-> {}]
    /\ UNCHANGED <<rows, clock, rivals, doubtful, promised>>

Write(c) ==
    \/ \E r \in Requests : Ask(c, r)
    \/ FindExact(c) \/ SearchSimilar(c) \/ FindSimilar(c)
    \/ Insert(c) \/ Touch(c) \/ Refresh(c) \/ Refused(c) \/ Upsert(c)

Read(c) ==
    \/ Sweep(c, NoRequest, FALSE)
    \/ \E q \in Queries, compact \in BOOLEAN : Sweep(c, q, compact)
    \/ RemoveExpired(c) \/ Listing(c)
    \/ Search(c) \/ ReadShort(c) \/ ReadLong(c) \/ Answer(c) \/ Compact(c)

Reload(c) == Load(c) \/ Replace(c)

Next ==
    \/ Tick
    \/ Restart
    \/ \E c \in Clients : Write(c) \/ Read(c) \/ Reload(c)

Spec == Init /\ [][Next]_vars

---------------------------------------------------------------------------
Entry == Row \cup {Unwritten}

\* Every variable keeps the form of the table, the index and the requests.
TypeOK ==
    /\ rows \in [Ids -> Row \cup {Unwritten, Swept}]
    /\ index \in [Ids -> Entry]
    /\ keywordIndex \in [Keywords -> SUBSET Ids]
    /\ clock \in Nat /\ restarts \in Nat
    /\ stage \in [Clients -> Stage]
    /\ request \in [Clients -> Requests \cup Queries \cup {NoRequest}]
    /\ found \in [Clients -> Ids \cup {NoId}]
    /\ expires \in [Clients -> Nat \cup {Forever}]
    /\ hits \in [Clients -> SUBSET Ids] /\ memories \in [Clients -> SUBSET Ids]
    /\ fetched \in [Clients -> [Ids -> Entry]]
    /\ compacting \in [Clients -> BOOLEAN]
    /\ unseen \in [Clients -> SUBSET Ids] /\ missed \subseteq Ids
    /\ due \in [Clients -> SUBSET Ids]
    /\ rivals \in [Clients -> BOOLEAN]
    /\ doubtful \subseteq Ids /\ promised \subseteq Ids

\* Every long-term memory that is written and has not expired is in the index, unless
\* it was inserted between the two steps of the reload that last replaced it:
\* load_long_term_memories reads before it locks.
IndexedOnceWritten ==
    \A i \in Ids : Settled(i) /\ Future(rows[i].expires, clock) => index[i] = rows[i]

\* What the index holds and the table does not has expired, so that no search gives
\* it out: remove_expired runs after the DELETE, and a write may index a row that
\* has been swept meanwhile.
GhostsHaveExpired ==
    \A i \in Ids : Indexed(i) /\ ~Stored(i) => Past(index[i].expires, clock)

\* The inverted index lists exactly the words of the entries, through every upsert,
\* removal and reload.
KeywordsAgree == keywordIndex = Rebuilt(index)

\* Two long-term rows of one topic with the same or similar content: one of them was
\* inserted beside another write, or by a write that the index sent to a row that had
\* gone, or by one that the index told nothing while the topic had more rows than are
\* scanned.  Looking for a duplicate and inserting are separate steps.
NoDuplicatesWhenApart ==
    \A i, j \in Ids :
        /\ i # j /\ IsLong(i) /\ IsLong(j)
        /\ rows[i].topic = rows[j].topic
        /\ \/ rows[i].content = rows[j].content
           \/ Alike(Words[rows[i].content], Words[rows[j].content])
        => i \in doubtful \/ j \in doubtful

\* A long-term memory of its topics that mentions its words, that was written when the
\* index was searched and that has not expired since, is left out of a context only for
\* better ones: the index gave as many hits as it may, or the memory was among the hits
\* and the context is full.  With any hit the table is asked for the hits only.
ContextFindsWritten ==
    \A c \in Clients : stage[c] = "context" =>
        \A i \in due[c] : Stored(i) /\ Future(rows[i].expires, clock) =>
            \/ i \in memories[c]
            \/ i \in hits[c] /\ Cardinality(memories[c]) = request[c].limit
            \/ i \notin hits[c] /\ Cardinality(hits[c]) = MaxHits(request[c])

\* docs/llm_agents.md:108, of long-term memory: it is deduplicated and persisted when
\* it is written.  A row returned to a write that asked for no lifetime is kept.
Persisted == \A i \in promised : Stored(i)
=============================================================================
