----------------------------- MODULE MemoryProofs -----------------------------
(***************************************************************************)
(* Theorems about the memory: every invariant that the runs check, for any *)
(* clients, contents, lifetimes and number of restarts.                    *)
(*                                                                         *)
(* The table is the truth that the others copy.  A row is written once and *)
(* then only swept, after its time, so that whoever holds a copy of it     *)
(* holds the row or something that has expired (CopyInv); a reload that is *)
(* under way has all live rows but those that it is known to have missed   *)
(* (LoadInv).                                                              *)
(***************************************************************************)
EXTENDS Memory, TLAPS

---------------------------------------------------------------------------
\* Types.  The stage of a request tells what it has in hand.
Writing == {"asked", "unmatched", "ranked", "duplicate", "new", "saved", "read"}
Answering == {"hits", "short", "context"}
Reading == {"deleted", "clean"} \cup Answering

StageInv ==
    \A c \in Clients :
        /\ stage[c] \in Writing => request[c] \in Requests
        /\ stage[c] \in Reading => request[c] \in Queries \cup {NoRequest}
        /\ stage[c] \in Answering => request[c] \in Queries
        /\ stage[c] \in {"duplicate", "saved", "read"} => found[c] \in Ids
        /\ stage[c] \in {"read"} => fetched[c][found[c]] \in Row

TypeInv == TypeOK /\ StageInv

\* What the requests, the words and the helpers of the model range over.
LEMMA RequestType ==
    ASSUME NEW r \in Requests
    PROVE  /\ r.topic \in Topics /\ r.scope \in {"long_term", "short_term"}
           /\ r.content \in Contents /\ r.ttl \in (Nat \ {0}) \cup {Forever}
  BY MemoryAssumption

\* Words are keywords, and what the index narrows with them are ids.
LEMMA WordsType == \A x \in Contents : Words[x] \subseteq Keywords
  BY MemoryAssumption

\* The index narrows with words to ids.
LEMMA CandidatesType ==
    ASSUME TypeOK, NEW w \in SUBSET Keywords
    PROVE  Candidates(w) \subseteq Ids
<1>1. UNION {keywordIndex[k] : k \in w} \subseteq Ids
  BY DEF TypeOK
<1> QED BY <1>1 DEF Candidates

\* So does a search.
LEMMA MatchesType ==
    ASSUME TypeOK, NEW q \in Queries
    PROVE  Matches(q) \subseteq Ids
<1>1. q.words \subseteq Keywords
  BY MemoryAssumption
<1>2. UNION {keywordIndex[k] : k \in q.words} \subseteq Ids
  BY <1>1 DEF TypeOK
<1> QED BY <1>2 DEF Matches

\* A limit takes nothing in, and what it leaves out it leaves out for others.
LEMMA LimitedFacts ==
    ASSUME NEW S, NEW n, NEW T \in Limited(S, n)
    PROVE  T \subseteq S /\ (T = S \/ Cardinality(T) = n)
  BY DEF Limited, kSubset

\* A reload reads entries.
LEMMA ToLoadType == rows \in [Ids -> Row \cup {Unwritten, Swept}] => ToLoad \in [Ids -> Entry]
  BY DEF ToLoad, IsLong, Stored, Entry

\* An inverted index is one, whatever the entries.
LEMMA RebuiltType == ASSUME NEW e PROVE Rebuilt(e) \in [Keywords -> SUBSET Ids]
  BY DEF Rebuilt

\* A lifetime gives a time, or none.
LEMMA ExpiryType ==
    ASSUME NEW r \in Requests, clock \in Nat
    PROVE  ExpiryOf(r) \in Nat \cup {Forever}
  BY RequestType DEF ExpiryOf

\* A row that is inserted is one.
LEMMA NewRowType ==
    ASSUME TypeInv, NEW c \in Clients, Insert(c)
    PROVE  NewRow(c) \in Row
<1>1. request[c] \in Requests
  BY DEF Insert, TypeInv, StageInv, Writing
<1> QED BY <1>1, RequestType DEF NewRow, Row, TypeInv, TypeOK

\* A context reads rows.
LEMMA ReadsIds ==
    ASSUME TypeOK, NEW c \in Clients, ReadShort(c) \/ ReadLong(c)
    PROVE  \E best \in SUBSET Ids : memories' = [memories EXCEPT ![c] = best]
<1>1. \A scope : Visible(c, scope) \subseteq Ids
  BY DEF Visible
<1>2. CASE ReadShort(c)
  <2>1. PICK best \in Limited(Visible(c, "short_term"), request[c].limit) :
            memories' = [memories EXCEPT ![c] = best]
    BY <1>2 DEF ReadShort
  <2>2. best \subseteq Visible(c, "short_term")
    BY <2>1, LimitedFacts
  <2> QED BY <1>1, <2>1, <2>2
<1>3. CASE ReadLong(c)
  <2>1. PICK records \in LongRecords(c) :
            \E best \in Limited(memories[c] \cup records, request[c].limit) :
                memories' = [memories EXCEPT ![c] = best]
    BY <1>3 DEF ReadLong
  <2>2. records \subseteq Ids
    BY <1>1, <2>1, LimitedFacts DEF LongRecords
  <2>3. PICK best \in Limited(memories[c] \cup records, request[c].limit) :
            memories' = [memories EXCEPT ![c] = best]
    BY <2>1
  <2>4. best \subseteq memories[c] \cup records
    BY <2>3, LimitedFacts
  <2> QED BY <2>2, <2>3, <2>4 DEF TypeOK
<1> QED BY <1>2, <1>3

\* The type invariant, with what the stages tell, is inductive.
LEMMA TypeInit == Init => TypeInv
<1> SUFFICES ASSUME Init PROVE TypeInv
  OBVIOUS
<1> USE DEF Init
<1>1. TypeOK
  BY DEF TypeOK, Stage, Entry, Row
<1>2. StageInv
  BY DEF StageInv, Writing, Reading, Answering
<1> QED BY <1>1, <1>2 DEF TypeInv

\* The step at which a request ends.
LEMMA FinishTypes ==
    ASSUME TypeInv, NEW c \in Clients, Finish(c),
           rows' \in [Ids -> Row \cup {Unwritten, Swept}]
    PROVE  /\ stage' \in [Clients -> Stage]
           /\ request' \in [Clients -> Requests \cup Queries \cup {NoRequest}]
           /\ found' \in [Clients -> Ids \cup {NoId}]
           /\ expires' \in [Clients -> Nat \cup {Forever}]
           /\ hits' \in [Clients -> SUBSET Ids] /\ memories' \in [Clients -> SUBSET Ids]
           /\ fetched' \in [Clients -> [Ids -> Entry]]
           /\ compacting' \in [Clients -> BOOLEAN]
           /\ StageInv'
<1> USE DEF TypeInv, TypeOK, Finish, Goto
<1>1. /\ stage' \in [Clients -> Stage]
      /\ request' \in [Clients -> Requests \cup Queries \cup {NoRequest}]
      /\ found' \in [Clients -> Ids \cup {NoId}]
      /\ expires' \in [Clients -> Nat \cup {Forever}]
      /\ hits' \in [Clients -> SUBSET Ids] /\ memories' \in [Clients -> SUBSET Ids]
      /\ fetched' \in [Clients -> [Ids -> Entry]]
      /\ compacting' \in [Clients -> BOOLEAN]
  BY DEF Stage, Entry
<1>2. StageInv'
  BY DEF StageInv, Writing, Reading, Answering
<1> QED BY <1>1, <1>2

\* One case for each action.
LEMMA TypeNext == TypeInv /\ [Next]_vars => TypeInv'
<1> SUFFICES ASSUME TypeInv, [Next]_vars PROVE TypeInv'
  OBVIOUS
<1> USE DEF TypeInv, memory, local, history
<1>1. CASE Tick
  BY <1>1 DEF Tick, TypeOK, StageInv
<1>2. CASE Restart
  <2>1. TypeOK'
    BY <1>2, ToLoadType, RebuiltType DEF Restart, TypeOK, Stage, Entry
  <2>2. StageInv'
    BY <1>2 DEF Restart, StageInv, Writing, Reading, Answering
  <2> QED BY <2>1, <2>2
<1>3. ASSUME NEW c \in Clients, NEW r \in Requests, Ask(c, r) PROVE TypeInv'
  <2>1. TypeOK'
    BY <1>3 DEF Ask, Goto, TypeOK, Stage
  <2>2. StageInv'
    BY <1>3 DEF Ask, Goto, TypeOK, StageInv, Writing, Reading, Answering
  <2> QED BY <2>1, <2>2
<1>4. ASSUME NEW c \in Clients, FindExact(c) PROVE TypeInv'
  <2>1. request[c] \in Requests
    BY <1>4 DEF FindExact, StageInv, Writing
  <2>2. \/ Goto(c, "new") /\ UNCHANGED found
        \/ Goto(c, "duplicate") /\ \E i \in Ids : found' = [found EXCEPT ![c] = i]
        \/ Goto(c, "unmatched") /\ UNCHANGED found
    BY <1>4, Zenon DEF FindExact, Exact
  <2>3. found' \in [Clients -> Ids \cup {NoId}]
    BY <2>2 DEF TypeOK
  <2>4. \E s \in Stage : stage' = [stage EXCEPT ![c] = s]
    BY <2>2 DEF Goto, Stage
  <2>5. stage' \in [Clients -> Stage] /\ found' \in [Clients -> Ids \cup {NoId}]
    BY <2>3, <2>4 DEF TypeOK
  <2>6. TypeOK'
    BY <1>4, <2>1, <2>5, ExpiryType DEF FindExact, TypeOK
  <2>7. StageInv'
    BY <1>4, <2>1 DEF FindExact, Goto, TypeOK, StageInv, Writing, Reading, Answering, Exact
  <2> QED BY <2>6, <2>7
<1>5. ASSUME NEW c \in Clients, SearchSimilar(c) PROVE TypeInv'
  <2>1. \A i \in Nearest(request[c]) : i \in Ids
    <3>1. Words[request[c].content] \subseteq Keywords
      BY <1>5, RequestType, WordsType DEF SearchSimilar, StageInv, Writing
    <3> QED BY <3>1, CandidatesType DEF Nearest
  <2>2. TypeOK'
    BY <1>5, <2>1 DEF SearchSimilar, Goto, TypeOK, Stage
  <2>3. StageInv'
    BY <1>5, <2>1 DEF SearchSimilar, Goto, TypeOK, StageInv, Writing, Reading, Answering
  <2> QED BY <2>2, <2>3
<1>6. ASSUME NEW c \in Clients, FindSimilar(c) PROVE TypeInv'
  <2>1. \A scanned \in Limited(Siblings(request[c]), MaxScanned) :
            \A i \in Similar(c, scanned) : i \in Ids
    <3> SUFFICES ASSUME NEW scanned \in Limited(Siblings(request[c]), MaxScanned),
                        NEW i \in Similar(c, scanned)
                 PROVE  i \in Ids
      OBVIOUS
    <3>1. scanned \subseteq Ids
      BY LimitedFacts DEF Siblings
    <3> QED BY <3>1, NoValueAssumption DEF Similar, TypeOK
  <2>2. PICK i \in Ids \cup {NoId} :
            \/ i \in Ids /\ found' = [found EXCEPT ![c] = i] /\ Goto(c, "duplicate")
            \/ found' = [found EXCEPT ![c] = NoId] /\ Goto(c, "new")
    BY <1>6, <2>1, Zenon DEF FindSimilar
  <2>6. found' \in [Clients -> Ids \cup {NoId}] /\ stage' \in [Clients -> Stage]
    <3>1. found' \in [Clients -> Ids \cup {NoId}]
      BY <2>2 DEF TypeOK
    <3>2. stage' = [stage EXCEPT ![c] = "duplicate"] \/ stage' = [stage EXCEPT ![c] = "new"]
      BY <2>2 DEF Goto
    <3> QED BY <3>1, <3>2 DEF TypeOK, Stage
  <2>4. rivals' \in [Clients -> BOOLEAN]
    BY <1>6, Zenon DEF FindSimilar, TypeOK
  <2>5. TypeOK'
    BY <1>6, <2>6, <2>4 DEF FindSimilar, TypeOK
  <2>3. StageInv'
    <3>1. stage[c] = "ranked" /\ UNCHANGED <<request, fetched>>
      BY <1>6 DEF FindSimilar
    <3> QED BY <3>1, <2>2 DEF Goto, TypeOK, StageInv, Writing, Reading, Answering
  <2> QED BY <2>5, <2>3
<1>7. ASSUME NEW c \in Clients, Insert(c) PROVE TypeInv'
  <2>1. NewRow(c) \in Row
    BY <1>7, NewRowType
  <2>2. TypeOK'
    BY <1>7, <2>1 DEF Insert, Goto, TypeOK, Stage
  <2>3. StageInv'
    BY <1>7 DEF Insert, Goto, TypeOK, StageInv, Writing, Reading, Answering
  <2> QED BY <2>2, <2>3
<1>8. ASSUME NEW c \in Clients, Touch(c) PROVE TypeInv'
  <2>1. CASE Finish(c)
    BY <1>8, <2>1, FinishTypes DEF Touch, TypeOK
  <2>2. CASE ~Finish(c)
    <3>1. TypeOK'
      BY <1>8, <2>2 DEF Touch, Goto, TypeOK, Stage
    <3>2. StageInv'
      BY <1>8, <2>2 DEF Touch, Goto, TypeOK, StageInv, Writing, Reading, Answering
    <3> QED BY <3>1, <3>2
  <2> QED BY <2>1, <2>2
<1>9. ASSUME NEW c \in Clients, Refresh(c) PROVE TypeInv'
  <2>1. CASE Finish(c)
    BY <1>9, <2>1, FinishTypes DEF Refresh, TypeOK
  <2>2. CASE ~Finish(c)
    <3>1. found[c] \in Ids
      BY <1>9 DEF Refresh, StageInv
    <3>2. TypeOK'
      <4>1. fetched' \in [Clients -> [Ids -> Entry]]
        <5>1. fetched' = [fetched EXCEPT ![c][found[c]] = rows[found[c]]]
          BY <1>9, <2>2 DEF Refresh
        <5>2. rows[found[c]] \in Entry
          BY <1>9, <2>2 DEF Refresh, IsLong, Stored, Entry
        <5> QED BY <5>1, <5>2, <3>1 DEF TypeOK
      <4>2. stage' \in [Clients -> Stage]
        BY <1>9, <2>2 DEF Refresh, Goto, TypeOK, Stage
      <4> QED BY <1>9, <2>2, <4>1, <4>2 DEF Refresh, TypeOK
    <3>3. StageInv'
      BY <1>9, <2>2, <3>1 DEF Refresh, Goto, TypeOK, StageInv, Writing, Reading, Answering, IsLong, Stored
    <3> QED BY <3>2, <3>3
  <2> QED BY <2>1, <2>2
<1>10. ASSUME NEW c \in Clients, Refused(c) PROVE TypeInv'
  BY <1>10, FinishTypes DEF Refused, TypeOK
<1>11. ASSUME NEW c \in Clients, Upsert(c) PROVE TypeInv'
  <2>1. found[c] \in Ids /\ fetched[c][found[c]] \in Entry
    BY <1>11 DEF Upsert, StageInv, Entry
  <2>2. \A map \in [Keywords -> SUBSET Ids] :
            /\ With(map, found[c], fetched[c][found[c]]) \in [Keywords -> SUBSET Ids]
            /\ Without(map, found[c], index[found[c]]) \in [Keywords -> SUBSET Ids]
    BY <2>1 DEF With, Without
  <2>3. keywordIndex' \in [Keywords -> SUBSET Ids]
    BY <1>11, <2>2 DEF Upsert, TypeOK
  <2>4. index' \in [Ids -> Entry]
    BY <1>11, <2>1 DEF Upsert, TypeOK
  <2>5. missed' \subseteq Ids /\ promised' \subseteq Ids
    BY <1>11, <2>1 DEF Upsert, TypeOK
  <2> QED BY <1>11, <2>3, <2>4, <2>5, FinishTypes DEF Upsert, TypeOK
<1>12. ASSUME NEW c \in Clients, NEW q \in Queries \cup {NoRequest}, NEW b \in BOOLEAN,
              Sweep(c, q, b)
       PROVE TypeInv'
  <2>1. TypeOK'
    BY <1>12 DEF Sweep, Goto, TypeOK, Stage
  <2>2. StageInv'
    BY <1>12 DEF Sweep, Goto, TypeOK, StageInv, Writing, Reading, Answering
  <2> QED BY <2>1, <2>2
<1>13. ASSUME NEW c \in Clients, RemoveExpired(c) PROVE TypeInv'
  <2>1. TypeOK'
    BY <1>13 DEF RemoveExpired, Goto, TypeOK, Stage, Entry
  <2>2. StageInv'
    BY <1>13 DEF RemoveExpired, Goto, TypeOK, StageInv, Writing, Reading, Answering
  <2> QED BY <2>1, <2>2
<1>14. ASSUME NEW c \in Clients, Listing(c) PROVE TypeInv'
  BY <1>14, FinishTypes DEF Listing, TypeOK
<1>15. ASSUME NEW c \in Clients, Search(c) PROVE TypeInv'
  <2>1. Matches(request[c]) \subseteq Ids
    BY <1>15, MatchesType DEF Search, StageInv, Reading, Answering
  <2>2. PICK best \in Limited(Matches(request[c]), MaxHits(request[c])) :
            hits' = [hits EXCEPT ![c] = best]
    BY <1>15 DEF Search
  <2>3. best \subseteq Ids
    BY <2>1, <2>2, LimitedFacts
  <2>4. TypeOK'
    BY <1>15, <2>3, <2>2 DEF Search, Goto, TypeOK, Stage
  <2>5. StageInv'
    BY <1>15 DEF Search, Goto, TypeOK, StageInv, Writing, Reading, Answering
  <2> QED BY <2>4, <2>5
<1>16. ASSUME NEW c \in Clients, Answer(c) PROVE TypeInv'
  BY <1>16, FinishTypes DEF Answer, TypeOK
<1>17. ASSUME NEW c \in Clients, Compact(c) PROVE TypeInv'
  <2>1. TypeOK'
    BY <1>17 DEF Compact, Goto, TypeOK, Stage
  <2>2. StageInv'
    BY <1>17 DEF Compact, Goto, TypeOK, StageInv, Writing, Reading, Answering
  <2> QED BY <2>1, <2>2
<1>18. ASSUME NEW c \in Clients, Load(c) PROVE TypeInv'
  <2>1. TypeOK'
    BY <1>18, ToLoadType DEF Load, Goto, TypeOK, Stage
  <2>2. StageInv'
    BY <1>18 DEF Load, Goto, TypeOK, StageInv, Writing, Reading, Answering
  <2> QED BY <2>1, <2>2
<1>19. ASSUME NEW c \in Clients, Replace(c) PROVE TypeInv'
  <2>1. index' \in [Ids -> Entry] /\ keywordIndex' \in [Keywords -> SUBSET Ids]
    BY <1>19, RebuiltType DEF Replace, TypeOK
  <2> QED BY <1>19, <2>1, FinishTypes DEF Replace, TypeOK
<1>20. CASE UNCHANGED vars
  BY <1>20 DEF vars, TypeOK, StageInv
<1>21. ASSUME NEW c \in Clients, ReadShort(c) \/ ReadLong(c) PROVE TypeInv'
  <2>1. memories' \in [Clients -> SUBSET Ids]
    BY <1>21, ReadsIds DEF TypeOK
  <2>2. /\ stage' \in [Clients -> Stage]
        /\ UNCHANGED <<rows, index, keywordIndex, clock, request, found, expires, hits, fetched,
                       compacting, restarts, unseen, missed, due, rivals, doubtful, promised>>
    BY <1>21 DEF ReadShort, ReadLong, Goto, TypeOK, Stage
  <2>3. TypeOK'
    BY <2>1, <2>2 DEF TypeOK
  <2>4. StageInv'
    BY <1>21 DEF ReadShort, ReadLong, Goto, TypeOK, StageInv, Writing, Reading, Answering
  <2> QED BY <2>3, <2>4
<1> QED
  BY <1>1, <1>2, <1>3, <1>4, <1>5, <1>6, <1>7, <1>8, <1>9, <1>10, <1>11, <1>12, <1>13,
     <1>14, <1>15, <1>16, <1>17, <1>18, <1>19, <1>20, <1>21 DEF Next, Write, Read, Reload

\* Table, index and requests keep their form.
THEOREM TypeCorrect == Spec => []TypeOK
<1>1. Spec => []TypeInv
  BY TypeInit, TypeNext, PTL DEF Spec
<1> QED BY <1>1, PTL DEF TypeInv

---------------------------------------------------------------------------
\* What a client or the index keeps of a row is the row itself, or that of a row which
\* has been swept, after its time.
Copy(e, i) ==
    e # Unwritten => \/ Stored(i) /\ rows[i] = e
                     \/ rows[i] = Swept /\ Past(e.expires, clock)

CopyInv ==
    \A i \in Ids :
        /\ Copy(index[i], i)
        /\ \A c \in Clients : Copy(fetched[c][i], i)

\* A reload has every live row that was written before it read the table.
LoadInv ==
    \A c \in Clients : stage[c] \in {"loaded"} =>
        \A i \in Ids :
            IsLong(i) /\ Future(rows[i].expires, clock) =>
                fetched[c][i] = rows[i] \/ i \in unseen[c]

\* What becomes of a row in a step: it stays, it is written, or it is swept after its
\* time.
RowStep(i) ==
    \/ rows'[i] = rows[i]
    \/ rows[i] = Unwritten /\ rows'[i] \in Row
    \/ Stored(i) /\ rows'[i] = Swept /\ Past(rows[i].expires, clock)

\* A row is neither Unwritten nor Swept.
LEMMA RowFacts ==
    /\ \A r \in Row : r # Unwritten /\ r # Swept /\ r.expires \in Nat \cup {Forever}
    /\ Unwritten # Swept
  BY NoValueAssumption DEF Row

\* What has expired stays so, and what will expire has not.
LEMMA TimePasses ==
    ASSUME clock \in Nat, clock' \in Nat, clock' >= clock, NEW e \in Nat \cup {Forever}
    PROVE  /\ Past(e, clock) => Past(e, clock')
           /\ Future(e, clock') => Future(e, clock)
           /\ ~ (Past(e, clock) /\ Future(e, clock))
  BY MemoryAssumption DEF Past, Future

\* A request that ends leaves the others alone.
LEMMA FinishFacts ==
    ASSUME TypeInv, NEW c \in Clients, Finish(c)
    PROVE  /\ stage' = [stage EXCEPT ![c] = "idle"]
           /\ fetched'[c] = [i \in Ids |-> Unwritten]
           /\ \A d \in Clients \ {c} :
                 /\ request'[d] = request[d] /\ found'[d] = found[d]
                 /\ hits'[d] = hits[d] /\ memories'[d] = memories[d]
                 /\ fetched'[d] = fetched[d]
  BY DEF Finish, Goto, TypeInv, TypeOK

\* The steps that change neither table nor index nor what has been read of them.
QuietStep ==
    /\ UNCHANGED <<rows, index, keywordIndex, unseen, missed>>
    /\ clock' \in Nat /\ clock' >= clock
    /\ \A d \in Clients :
        /\ fetched'[d] \in {fetched[d], [i \in Ids |-> Unwritten]}
        /\ stage'[d] = "loaded" => stage[d] = "loaded" /\ fetched'[d] = fetched[d]
        /\ stage'[d] \in Answering =>
               /\ stage[d] \in Answering
               /\ hits'[d] = hits[d] /\ due'[d] = due[d] /\ request'[d] = request[d]
    /\ \A i \in Ids : BeingWritten(i) => BeingWritten(i)'

Busy(c) ==
    \/ Insert(c) \/ Refresh(c) \/ Upsert(c)
    \/ \E q \in Queries \cup {NoRequest}, b \in BOOLEAN : Sweep(c, q, b)
    \/ RemoveExpired(c) \/ Search(c) \/ Load(c) \/ Replace(c)

\* The end of a request that was not writing to the index is quiet.
LEMMA FinishIsQuiet ==
    ASSUME TypeInv, NEW c \in Clients, Finish(c), stage[c] \notin {"saved", "read"},
           UNCHANGED <<rows, index, keywordIndex, unseen, missed, clock>>,
           \A d \in Clients \ {c} : due'[d] = due[d]
    PROVE  QuietStep
<1>1. /\ stage'[c] = "idle" /\ fetched'[c] = [i \in Ids |-> Unwritten]
      /\ \A d \in Clients \ {c} :
            /\ stage'[d] = stage[d] /\ request'[d] = request[d] /\ found'[d] = found[d]
            /\ hits'[d] = hits[d] /\ fetched'[d] = fetched[d]
  BY FinishFacts DEF TypeInv, TypeOK
<1>2. \A i \in Ids : BeingWritten(i) => BeingWritten(i)'
  <2> SUFFICES ASSUME NEW d \in Clients, stage[d] \in {"saved", "read"}
               PROVE  stage'[d] = stage[d] /\ found'[d] = found[d]
    BY DEF BeingWritten
  <2> QED BY <1>1
<1>3. \A d \in Clients :
        /\ fetched'[d] \in {fetched[d], [i \in Ids |-> Unwritten]}
        /\ stage'[d] = "loaded" => stage[d] = "loaded" /\ fetched'[d] = fetched[d]
        /\ stage'[d] \in Answering =>
               /\ stage[d] \in Answering
               /\ hits'[d] = hits[d] /\ due'[d] = due[d] /\ request'[d] = request[d]
  BY <1>1 DEF Answering
<1> QED BY <1>2, <1>3 DEF QuietStep, TypeInv, TypeOK

\* Every step is quiet, a restart, or one of eight.
LEMMA QuietOrBusy ==
    ASSUME TypeInv, [Next]_vars
    PROVE  QuietStep \/ Restart \/ \E c \in Clients : Busy(c)
<1> USE DEF TypeInv, TypeOK, memory, local, history, Answering
<1>1. CASE Tick
  BY <1>1 DEF Tick, QuietStep, BeingWritten
<1>2. ASSUME NEW c \in Clients, NEW r \in Requests, Ask(c, r) PROVE QuietStep
  BY <1>2 DEF Ask, Goto, QuietStep, BeingWritten
<1>3. ASSUME NEW c \in Clients, FindExact(c) PROVE QuietStep
  <2>1. /\ stage[c] = "asked" /\ \E s \in {"new", "duplicate", "unmatched"} : Goto(c, s)
        /\ UNCHANGED <<rows, index, keywordIndex, unseen, missed, clock, fetched, hits, due, request>>
        /\ \A d \in Clients \ {c} : found'[d] = found[d]
    BY <1>3, Zenon DEF FindExact
  <2> QED BY <2>1 DEF Goto, QuietStep, BeingWritten
<1>4. ASSUME NEW c \in Clients, SearchSimilar(c) PROVE QuietStep
  <2>1. /\ stage[c] = "unmatched" /\ \E s \in {"ranked"} : Goto(c, s)
        /\ UNCHANGED <<rows, index, keywordIndex, unseen, missed, clock, fetched, hits, due, request>>
        /\ \A d \in Clients \ {c} : found'[d] = found[d]
    BY <1>4, Zenon DEF SearchSimilar
  <2>2. stage' = [stage EXCEPT ![c] = "ranked"]
    BY <2>1 DEF Goto
  <2>3. \A i \in Ids : BeingWritten(i) => BeingWritten(i)'
    BY <2>1, <2>2 DEF BeingWritten
  <2> QED BY <2>1, <2>2, <2>3 DEF QuietStep
<1>5. ASSUME NEW c \in Clients, FindSimilar(c) PROVE QuietStep
  <2>1. /\ stage[c] = "ranked" /\ \E s \in {"new", "duplicate"} : Goto(c, s)
        /\ UNCHANGED <<rows, index, keywordIndex, unseen, missed, clock, fetched, hits, due, request>>
        /\ \A d \in Clients \ {c} : found'[d] = found[d]
    BY <1>5, Zenon DEF FindSimilar
  <2> QED BY <2>1 DEF Goto, QuietStep, BeingWritten
<1>6. ASSUME NEW c \in Clients, Touch(c) PROVE QuietStep
  <2>1. CASE Finish(c)
    BY <1>6, <2>1, FinishIsQuiet DEF Touch
  <2>2. CASE ~Finish(c)
    BY <1>6, <2>2 DEF Touch, Goto, QuietStep, BeingWritten
  <2> QED BY <2>1, <2>2
<1>7. ASSUME NEW c \in Clients, Refused(c) PROVE QuietStep
  BY <1>7, FinishIsQuiet DEF Refused
<1>8. ASSUME NEW c \in Clients, Listing(c) PROVE QuietStep
  BY <1>8, FinishIsQuiet DEF Listing
<1>9. ASSUME NEW c \in Clients, Answer(c) PROVE QuietStep
  <2>1. /\ stage[c] = "context" /\ Finish(c)
        /\ UNCHANGED <<rows, index, keywordIndex, unseen, missed, clock>>
        /\ \A d \in Clients \ {c} : due'[d] = due[d]
    BY <1>9 DEF Answer
  <2> QED BY <2>1, FinishIsQuiet
<1>10. ASSUME NEW c \in Clients, Compact(c) PROVE QuietStep
  BY <1>10 DEF Compact, Goto, QuietStep, BeingWritten
<1>11. CASE UNCHANGED vars
  BY <1>11 DEF vars, QuietStep, BeingWritten
<1>12. ASSUME NEW c \in Clients, ReadShort(c) \/ ReadLong(c) PROVE QuietStep
  <2>1. /\ stage[c] \in {"hits", "short"}
        /\ \E s \in {"short", "context"} : stage' = [stage EXCEPT ![c] = s]
        /\ UNCHANGED <<rows, index, keywordIndex, unseen, missed, clock, fetched, hits, due,
                       request, found>>
    BY <1>12 DEF ReadShort, ReadLong, Goto
  <2>2. \A i \in Ids : BeingWritten(i) => BeingWritten(i)'
    BY <2>1 DEF BeingWritten
  <2> QED BY <2>1, <2>2 DEF QuietStep
<1> QED
  BY <1>1, <1>2, <1>3, <1>4, <1>5, <1>6, <1>7, <1>8, <1>9, <1>10, <1>11, <1>12
  DEF Next, Write, Read, Reload, Busy

\* Only Insert and Sweep change the table.
LEMMA RowsStep ==
    ASSUME TypeInv, [Next]_vars
    PROVE  /\ \A i \in Ids : RowStep(i)
           /\ clock' \in Nat /\ clock' >= clock
<1> USE DEF TypeInv, TypeOK, RowStep
<1>1. CASE QuietStep
  BY <1>1 DEF QuietStep
<1>2. CASE Restart
  BY <1>2 DEF Restart
<1>3. ASSUME NEW c \in Clients, Insert(c)
      PROVE  (\A i \in Ids : RowStep(i)) /\ clock' = clock
  <2>1. PICK n \in Ids : rows[n] = Unwritten /\ rows' = [rows EXCEPT ![n] = NewRow(c)]
    BY <1>3 DEF Insert
  <2>2. NewRow(c) \in Row
    BY <1>3, NewRowType
  <2> QED BY <1>3, <2>1, <2>2 DEF Insert
<1>4. ASSUME NEW c \in Clients, NEW q, NEW b, Sweep(c, q, b)
      PROVE  (\A i \in Ids : RowStep(i)) /\ clock' = clock
  BY <1>4 DEF Sweep, Overdue
<1>5. ASSUME NEW c \in Clients,
             \/ Refresh(c) \/ Upsert(c) \/ RemoveExpired(c)
             \/ Search(c) \/ Load(c) \/ Replace(c)
      PROVE  rows' = rows /\ clock' = clock
  BY <1>5 DEF Refresh, Upsert, RemoveExpired, Search, Load, Replace, memory
<1>6. ASSUME NEW c \in Clients, Busy(c)
      PROVE  (\A i \in Ids : RowStep(i)) /\ clock' = clock
  BY <1>3, <1>4, <1>5, <1>6 DEF Busy
<1> QED BY <1>1, <1>2, <1>6, QuietOrBusy

\* A copy remains one, whatever happens to its row.
LEMMA CopyKept ==
    ASSUME TypeInv, [Next]_vars, NEW i \in Ids, NEW e \in Entry, Copy(e, i)
    PROVE  Copy(e, i)'
<1>1. RowStep(i) /\ clock' \in Nat /\ clock' >= clock
  BY RowsStep
<1>2. e # Unwritten => e.expires \in Nat \cup {Forever} /\ e # Swept
  BY RowFacts DEF Entry
<1> QED BY <1>1, <1>2, RowFacts, TimePasses DEF Copy, RowStep, Stored, TypeInv, TypeOK

\* Where an entry of the index comes from, and what a client has fetched.
IndexStep(i) ==
    \/ index'[i] = index[i] \/ index'[i] = Unwritten
    \/ IsLong(i) /\ index'[i] = rows[i]
    \/ \E c \in Clients : index'[i] = fetched[c][i]

FetchedStep(d, i) ==
    \/ fetched'[d][i] = fetched[d][i] \/ fetched'[d][i] = Unwritten
    \/ IsLong(i) /\ fetched'[d][i] = rows[i]

\* Entries and fetched rows come from the table, from the index or from each other.
LEMMA Sources ==
    ASSUME TypeInv, [Next]_vars, NEW i \in Ids
    PROVE  IndexStep(i) /\ \A d \in Clients : FetchedStep(d, i)
<1> USE DEF TypeInv, TypeOK, memory, local, history, IndexStep, FetchedStep
<1>1. CASE QuietStep
  BY <1>1 DEF QuietStep
<1>2. CASE Restart
  BY <1>2 DEF Restart, ToLoad
<1>3. ASSUME NEW c \in Clients, Busy(c) PROVE IndexStep(i)
  <2>1. CASE Upsert(c)
    BY <2>1 DEF Upsert, StageInv
  <2>2. CASE Replace(c)
    BY <2>2 DEF Replace
  <2>3. CASE RemoveExpired(c)
    BY <2>3 DEF RemoveExpired
  <2>4. CASE ~ (Upsert(c) \/ Replace(c) \/ RemoveExpired(c))
    BY <1>3, <2>4 DEF Busy, Insert, Refresh, Sweep, Search, Load
  <2> QED BY <2>1, <2>2, <2>3, <2>4
<1>4. ASSUME NEW c \in Clients, Busy(c), NEW d \in Clients PROVE FetchedStep(d, i)
  <2>1. CASE Refresh(c)
    <3>1. CASE Finish(c)
      <4>1. fetched'[d] = fetched[d] \/ fetched'[d] = [j \in Ids |-> Unwritten]
        BY <3>1, FinishFacts
      <4> QED BY <4>1
    <3>2. CASE ~Finish(c)
      <4>1. /\ IsLong(found[c])
            /\ fetched' = [fetched EXCEPT ![c][found[c]] = rows[found[c]]]
        BY <2>1, <3>2 DEF Refresh
      <4> QED BY <4>1
    <3> QED BY <3>1, <3>2
  <2>2. CASE Upsert(c) \/ Replace(c)
    <3>1. Finish(c)
      BY <2>2 DEF Upsert, Replace
    <3>2. fetched'[d] = fetched[d] \/ fetched'[d] = [j \in Ids |-> Unwritten]
      BY <3>1, FinishFacts
    <3> QED BY <3>2
  <2>3. CASE Load(c)
    BY <2>3 DEF Load, ToLoad
  <2>4. CASE ~ (Refresh(c) \/ Upsert(c) \/ Replace(c) \/ Load(c))
    BY <1>4, <2>4 DEF Busy, Insert, RemoveExpired, Sweep, Search
  <2> QED BY <2>1, <2>2, <2>3, <2>4
<1> QED BY <1>1, <1>2, <1>3, <1>4, QuietOrBusy

\* Hence all of them are copies for ever.
LEMMA CopyNext == TypeInv /\ CopyInv /\ [Next]_vars => CopyInv'
<1> SUFFICES ASSUME TypeInv, CopyInv, [Next]_vars, NEW i \in Ids
             PROVE  /\ Copy(index[i], i)'
                    /\ \A d \in Clients : Copy(fetched[d][i], i)'
  BY DEF CopyInv
<1>1. \A e \in Entry : Copy(e, i) => Copy(e, i)'
  BY CopyKept
<1>2. Copy(Unwritten, i) /\ (IsLong(i) => rows[i] \in Entry /\ Copy(rows[i], i))
  BY DEF Copy, IsLong, Stored, Entry
<1>3. /\ index[i] \in Entry /\ Copy(index[i], i)
      /\ \A d \in Clients : fetched[d][i] \in Entry /\ Copy(fetched[d][i], i)
      /\ Unwritten \in Entry
  BY DEF TypeInv, TypeOK, CopyInv, Entry
<1>4. \E e \in Entry : e = index'[i] /\ Copy(e, i)
  BY <1>2, <1>3, Sources DEF IndexStep
<1>5. \A d \in Clients : \E e \in Entry : e = fetched'[d][i] /\ Copy(e, i)
  BY <1>2, <1>3, Sources DEF FetchedStep
<1>6. \E e \in Entry : e = index'[i] /\ Copy(e, i)'
  BY <1>1, <1>4
<1>7. \A d \in Clients : \E e \in Entry : e = fetched'[d][i] /\ Copy(e, i)'
  BY <1>1, <1>5
<1> QED BY <1>6, <1>7 DEF Copy

\* Nothing is copied at first.
LEMMA CopyInit == Init => CopyInv
  BY DEF Init, CopyInv, Copy

\* The invariant of the copies.
LEMMA CopyHolds == Spec => [](TypeInv /\ CopyInv)
<1>1. Init => TypeInv /\ CopyInv
  BY TypeInit, CopyInit
<1>2. TypeInv /\ CopyInv /\ [Next]_vars => (TypeInv /\ CopyInv)'
  BY TypeNext, CopyNext
<1> QED BY <1>1, <1>2, PTL DEF Spec

\* What only the index knows has expired, so that no search finds it.
THEOREM GhostsExpired == Spec => []GhostsHaveExpired
<1>1. TypeInv /\ CopyInv => GhostsHaveExpired
  BY RowFacts DEF TypeInv, CopyInv, Copy, GhostsHaveExpired, Indexed, Stored
<1> QED BY <1>1, CopyHolds, PTL

---------------------------------------------------------------------------
\* The inverted index follows the entries.
LEMMA KeywordsInit == Init => KeywordsAgree
  BY DEF Init, KeywordsAgree, Rebuilt

\* It changes with them in the three steps that change them.
LEMMA KeywordsNext == TypeInv /\ KeywordsAgree /\ [Next]_vars => KeywordsAgree'
<1> SUFFICES ASSUME TypeInv, KeywordsAgree, [Next]_vars PROVE KeywordsAgree'
  OBVIOUS
<1> USE DEF KeywordsAgree, memory
<1>1. CASE QuietStep
  BY <1>1 DEF QuietStep, Rebuilt
<1>2. CASE Restart
  BY <1>2 DEF Restart
<1>3. ASSUME NEW c \in Clients, Upsert(c) PROVE KeywordsAgree'
  <2> DEFINE i == found[c]
             e == fetched[c][i]
  <2>1. i \in Ids /\ e # Unwritten
    BY <1>3, RowFacts DEF Upsert, TypeInv, StageInv
  <2>2. index' = [index EXCEPT ![i] = e]
    BY <1>3 DEF Upsert
  <2>3. ASSUME NEW k \in Keywords PROVE keywordIndex'[k] = Rebuilt(index')[k]
    <3>1. Rebuilt(index')[k] = {j \in Ids : index'[j] # Unwritten /\ k \in Words[index'[j].content]}
      BY DEF Rebuilt
    <3>2. keywordIndex[k] = {j \in Ids : index[j] # Unwritten /\ k \in Words[index[j].content]}
      BY DEF Rebuilt
    <3>3. keywordIndex'[k] = IF k \in Words[e.content] THEN (keywordIndex[k] \ {i}) \cup {i}
                             ELSE keywordIndex[k] \ {i}
      BY <1>3, <3>2 DEF Upsert, With, Without, Indexed
    <3>4. \A j \in Ids : index'[j] = IF j = i THEN e ELSE index[j]
      BY <2>1, <2>2 DEF TypeInv, TypeOK
    <3>5. \A j \in Ids : j \in Rebuilt(index')[k] <=>
              IF j = i THEN k \in Words[e.content] ELSE j \in keywordIndex[k]
      BY <2>1, <3>1, <3>2, <3>4
    <3>6. \A j \in Ids : j \in keywordIndex'[k] <=>
              IF j = i THEN k \in Words[e.content] ELSE j \in keywordIndex[k]
      BY <3>3
    <3>7. Rebuilt(index')[k] \subseteq Ids /\ keywordIndex'[k] \subseteq Ids
      BY <2>1, <3>1, <3>2, <3>3
    <3> QED BY <3>5, <3>6, <3>7
  <2>4. keywordIndex' = [k \in Keywords |-> keywordIndex'[k]]
    BY TypeNext DEF TypeInv, TypeOK
  <2>5. Rebuilt(index') = [k \in Keywords |-> Rebuilt(index')[k]]
    BY DEF Rebuilt
  <2> QED BY <2>3, <2>4, <2>5
<1>4. ASSUME NEW c \in Clients, RemoveExpired(c) PROVE KeywordsAgree'
  BY <1>4 DEF RemoveExpired, Rebuilt, Indexed, TypeInv, TypeOK
<1>5. ASSUME NEW c \in Clients, Replace(c) PROVE KeywordsAgree'
  BY <1>5 DEF Replace
<1>6. ASSUME NEW c \in Clients, Busy(c), ~ (Upsert(c) \/ RemoveExpired(c) \/ Replace(c))
      PROVE  KeywordsAgree'
  BY <1>6 DEF Busy, Insert, Refresh, Sweep, Search, Load
<1> QED BY <1>1, <1>2, <1>3, <1>4, <1>5, <1>6, QuietOrBusy

\* The inverted index lists exactly the words of the entries.
THEOREM KeywordsHold == Spec => []KeywordsAgree
<1>1. Spec => []TypeInv
  BY TypeInit, TypeNext, PTL DEF Spec
<1> QED BY <1>1, KeywordsInit, KeywordsNext, PTL DEF Spec

---------------------------------------------------------------------------
Live(i) == IsLong(i) /\ Future(rows[i].expires, clock)

\* A live row that is not new was live before.
LEMMA LiveBefore ==
    ASSUME TypeInv, [Next]_vars, NEW i \in Ids, Live(i)', rows[i] # Unwritten
    PROVE  Live(i) /\ rows'[i] = rows[i]
<1>1. rows'[i] \in Row /\ rows'[i] # Swept
  BY RowFacts DEF Live, IsLong, Stored
<1>2. rows'[i] = rows[i]
  BY <1>1, RowsStep, RowFacts DEF RowStep
<1>3. IsLong(i)
  BY <1>2 DEF Live, IsLong, Stored
<1>4. Future(rows[i].expires, clock)
  BY <1>1, <1>2, RowsStep, RowFacts, TimePasses DEF Live, TypeInv, TypeOK
<1> QED BY <1>2, <1>3, <1>4 DEF Live

\* A reload that is under way was under way before, or has just read the table.
LEMMA LoadedFrame ==
    ASSUME TypeInv, [Next]_vars, NEW d \in Clients, stage'[d] = "loaded", ~Load(d)
    PROVE  /\ stage[d] = "loaded" /\ fetched'[d] = fetched[d]
           /\ unseen[d] \subseteq unseen'[d]
           /\ \A i \in Ids : rows[i] = Unwritten /\ rows'[i] # Unwritten => i \in unseen'[d]
<1> USE DEF TypeInv, TypeOK, memory, local, history
<1>1. CASE QuietStep
  BY <1>1 DEF QuietStep
<1>2. CASE Restart
  BY <1>2 DEF Restart
<1>3. ASSUME NEW c \in Clients, Insert(c)
      PROVE  /\ stage[d] = "loaded" /\ fetched'[d] = fetched[d]
             /\ \E i \in Ids : rows' = [rows EXCEPT ![i] = NewRow(c)]
                               /\ unseen'[d] = unseen[d] \cup {i}
  <2>1. stage' = [stage EXCEPT ![c] = "saved"] /\ fetched' = fetched
    BY <1>3 DEF Insert, Goto
  <2>2. stage[d] = "loaded"
    BY <2>1
  <2> QED BY <1>3, <2>1, <2>2 DEF Insert
<1>4. ASSUME NEW c \in Clients, Busy(c), ~Insert(c)
      PROVE  /\ stage[d] = "loaded" /\ fetched'[d] = fetched[d]
             /\ unseen[d] \subseteq unseen'[d]
             /\ \A i \in Ids : rows[i] = Unwritten => rows'[i] = Unwritten
  <2>1. CASE Refresh(c)
    <3>1. CASE Finish(c)
      BY <2>1, <3>1, FinishFacts DEF Refresh
    <3>2. CASE ~Finish(c)
      BY <2>1, <3>2 DEF Refresh, Goto
    <3> QED BY <3>1, <3>2
  <2>2. CASE Upsert(c)
    BY <2>2, FinishFacts DEF Upsert
  <2>3. CASE Replace(c)
    BY <2>3, FinishFacts DEF Replace
  <2>4. CASE Load(c)
    BY <2>4 DEF Load, Goto
  <2>5. CASE RemoveExpired(c) \/ Search(c)
    BY <2>5 DEF RemoveExpired, Search, Goto
  <2>6. CASE \E q \in Queries \cup {NoRequest}, b \in BOOLEAN : Sweep(c, q, b)
    BY <2>6, RowFacts DEF Sweep, Goto, Overdue, Stored
  <2> QED BY <1>4, <2>1, <2>2, <2>3, <2>4, <2>5, <2>6 DEF Busy
<1> QED BY <1>1, <1>2, <1>3, <1>4, QuietOrBusy

\* A reload misses nothing else.
LEMMA LoadNext ==
    ASSUME TypeInv, LoadInv, [Next]_vars
    PROVE  LoadInv'
<1> SUFFICES ASSUME NEW d \in Clients, stage'[d] = "loaded", NEW i \in Ids, Live(i)'
             PROVE  fetched'[d][i] = rows'[i] \/ i \in unseen'[d]
  BY DEF LoadInv, Live
<1>1. CASE Load(d)
  <2>1. rows' = rows /\ clock' = clock /\ fetched'[d] = ToLoad
    BY <1>1 DEF Load, memory, TypeInv, TypeOK
  <2> QED BY <2>1 DEF Live, IsLong, Stored, ToLoad
<1>2. CASE ~Load(d)
  <2>1. rows'[i] # Unwritten
    BY RowFacts DEF Live, IsLong, Stored
  <2>2. CASE rows[i] = Unwritten
    BY <1>2, <2>1, <2>2, LoadedFrame
  <2>3. CASE rows[i] # Unwritten
    BY <1>2, <2>3, LoadedFrame, LiveBefore DEF LoadInv, Live
  <2> QED BY <2>2, <2>3
<1> QED BY <1>1, <1>2

\* A row that has settled is in the index: the cases are the steps that may unsettle
\* what is known of row i.
LEMMA IndexedNext ==
    ASSUME TypeInv, CopyInv, LoadInv, IndexedOnceWritten, [Next]_vars
    PROVE  IndexedOnceWritten'
<1> SUFFICES ASSUME NEW i \in Ids, Settled(i)', Live(i)'
             PROVE  index'[i] = rows'[i]
  BY DEF IndexedOnceWritten, Live, Settled
<1> USE DEF TypeInv, TypeOK, memory, local, history
<1>0. /\ IsLong(i)' /\ i \notin missed' /\ rows'[i] # Unwritten
      /\ \A d \in Clients : ~ (found'[d] = i /\ stage'[d] \in {"saved", "read"})
  BY RowFacts DEF Settled, BeingWritten, IsLong, Stored
<1>a. rows[i] # Unwritten => Live(i) /\ rows'[i] = rows[i] /\ ~Past(rows[i].expires, clock)
  <2> SUFFICES ASSUME rows[i] # Unwritten
               PROVE  Live(i) /\ rows'[i] = rows[i] /\ ~Past(rows[i].expires, clock)
    OBVIOUS
  <2>1. Live(i) /\ rows'[i] = rows[i]
    BY LiveBefore
  <2>2. rows[i].expires \in Nat \cup {Forever} /\ Future(rows[i].expires, clock)
    BY <2>1, RowFacts DEF Live, IsLong, Stored
  <2> QED BY <2>1, <2>2, MemoryAssumption DEF Past, Future
<1>b. /\ rows[i] # Unwritten /\ i \notin missed /\ ~BeingWritten(i)
      => index[i] = rows[i]
  BY <1>a DEF IndexedOnceWritten, Settled, Live
<1>1. CASE QuietStep
  <2>1. ~BeingWritten(i) /\ i \notin missed /\ rows[i] # Unwritten
    BY <1>0, <1>1 DEF QuietStep, BeingWritten
  <2> QED BY <1>1, <1>b, <2>1 DEF QuietStep
<1>2. CASE Restart
  <2>1. rows' = rows /\ clock' = clock /\ index' = ToLoad
    BY <1>2 DEF Restart
  <2> QED BY <2>1 DEF Live, IsLong, Stored, ToLoad
<1>3. ASSUME NEW c \in Clients, Insert(c) PROVE index'[i] = rows'[i]
  <2>1. PICK n \in Ids : /\ rows' = [rows EXCEPT ![n] = NewRow(c)]
                         /\ found' = [found EXCEPT ![c] = n]
    BY <1>3 DEF Insert
  <2>2. /\ stage' = [stage EXCEPT ![c] = "saved"] /\ stage[c] = "new"
        /\ index' = index /\ missed' = missed
    BY <1>3 DEF Insert, Goto
  <2>3. i # n
    BY <1>0, <2>1, <2>2
  <2>4. ~BeingWritten(i)
    BY <1>0, <2>1, <2>2 DEF BeingWritten
  <2> QED BY <1>0, <1>a, <1>b, <2>1, <2>2, <2>3, <2>4
<1>4. ASSUME NEW c \in Clients, Refresh(c) PROVE index'[i] = rows'[i]
  <2>1. rows' = rows /\ index' = index /\ missed' = missed
    BY <1>4 DEF Refresh
  <2>2. CASE Finish(c)
    <3>1. found[c] # i
      BY <1>4, <2>1, <2>2, <1>0, FinishFacts DEF Refresh, IsLong, Stored, Goto, Finish
    <3>2. ~BeingWritten(i)
      BY <1>0, <2>2, <3>1, FinishFacts DEF BeingWritten
    <3> QED BY <1>0, <1>b, <2>1, <3>2
  <2>3. CASE ~Finish(c)
    <3>1. /\ stage[c] = "saved" /\ stage' = [stage EXCEPT ![c] = "read"] /\ found' = found
      BY <1>4, <2>3 DEF Refresh, Goto
    <3>2. ~BeingWritten(i)
      BY <1>0, <3>1 DEF BeingWritten
    <3> QED BY <1>0, <1>b, <2>1, <3>2
  <2> QED BY <2>2, <2>3
<1>5. ASSUME NEW c \in Clients, Upsert(c) PROVE index'[i] = rows'[i]
  <2>1. /\ rows' = rows /\ index' = [index EXCEPT ![found[c]] = fetched[c][found[c]]]
        /\ missed' = missed \ {found[c]} /\ Finish(c) /\ stage[c] = "read"
    BY <1>5 DEF Upsert
  <2>2. CASE i = found[c]
    <3>1. fetched[c][i] \in Row
      BY <2>1, <2>2 DEF StageInv
    <3>2. rows[i] = fetched[c][i]
      BY <1>0, <2>1, <3>1, RowFacts DEF CopyInv, Copy, IsLong, Stored
    <3> QED BY <2>1, <2>2, <3>2
  <2>3. CASE i # found[c]
    <3>1. ~BeingWritten(i)
      BY <1>0, <2>1, <2>3, FinishFacts DEF BeingWritten
    <3> QED BY <1>0, <1>b, <2>1, <2>3, <3>1
  <2> QED BY <2>2, <2>3
<1>6. ASSUME NEW c \in Clients, NEW q \in Queries \cup {NoRequest}, NEW b \in BOOLEAN,
             Sweep(c, q, b)
      PROVE  index'[i] = rows'[i]
  <2>1. /\ index' = index /\ missed' = missed /\ found' = found
        /\ stage[c] = "idle"
        /\ \E t \in {"clean", "deleted"} : stage' = [stage EXCEPT ![c] = t]
        /\ rows[i] = Unwritten => rows'[i] = Unwritten
    BY <1>6, RowFacts DEF Sweep, Goto, Overdue, Stored
  <2>2. ~BeingWritten(i)
    BY <1>0, <2>1 DEF BeingWritten
  <2> QED BY <1>0, <1>a, <1>b, <2>1, <2>2
<1>7. ASSUME NEW c \in Clients, RemoveExpired(c) PROVE index'[i] = rows'[i]
  <2>1. /\ rows' = rows /\ missed' = missed /\ found' = found
        /\ stage[c] = "deleted" /\ stage' = [stage EXCEPT ![c] = "clean"]
        /\ index'[i] = IF Indexed(i) /\ Past(index[i].expires, clock)
                       THEN Unwritten ELSE index[i]
    BY <1>7 DEF RemoveExpired, Goto
  <2>2. ~BeingWritten(i)
    BY <1>0, <2>1 DEF BeingWritten
  <2> QED BY <1>0, <1>a, <1>b, <2>1, <2>2
<1>8. ASSUME NEW c \in Clients, Search(c) \/ Load(c) PROVE index'[i] = rows'[i]
  <2>1. /\ rows' = rows /\ index' = index /\ missed' = missed /\ found' = found
        /\ stage[c] \in {"clean", "idle"}
        /\ \E t \in {"hits", "loaded"} : stage' = [stage EXCEPT ![c] = t]
    BY <1>8 DEF Search, Load, Goto
  <2>2. ~BeingWritten(i)
    BY <1>0, <2>1 DEF BeingWritten
  <2> QED BY <1>0, <1>b, <2>1, <2>2
<1>9. ASSUME NEW c \in Clients, Replace(c) PROVE index'[i] = rows'[i]
  <2>1. /\ rows' = rows /\ clock' = clock /\ index' = fetched[c] /\ missed' = unseen[c]
        /\ stage[c] = "loaded"
    BY <1>9 DEF Replace
  <2> QED BY <1>0, <1>a, <2>1 DEF LoadInv, Live
<1> QED
  BY <1>1, <1>2, <1>3, <1>4, <1>5, <1>6, <1>7, <1>8, <1>9, QuietOrBusy DEF Busy

IndexInv == TypeInv /\ CopyInv /\ LoadInv /\ IndexedOnceWritten

\* The index is empty at first, and so is the table.
LEMMA IndexInit == Init => LoadInv /\ IndexedOnceWritten
  BY RowFacts DEF Init, LoadInv, IndexedOnceWritten, Settled, IsLong, Stored

\* The invariant of the index.
LEMMA IndexHolds == Spec => []IndexInv
<1>1. Init => IndexInv
  BY TypeInit, CopyInit, IndexInit DEF IndexInv
<1>2. IndexInv /\ [Next]_vars => IndexInv'
  BY TypeNext, CopyNext, LoadNext, IndexedNext DEF IndexInv
<1> QED BY <1>1, <1>2, PTL DEF Spec

\* Every long-term memory that is written and has not expired is in the index, unless a
\* reload has overlooked it.
THEOREM WrittenIsIndexed == Spec => []IndexedOnceWritten
<1>1. IndexInv => IndexedOnceWritten
  BY DEF IndexInv
<1> QED BY <1>1, IndexHolds, PTL

---------------------------------------------------------------------------
\* What a context ought to find and that is still in the table is a row of its topics,
\* and a hit unless it has expired or the index gave as many as it may.
Found(c, i) ==
    /\ rows[i] # Unwritten
    /\ Stored(i) =>
        /\ IsLong(i) /\ rows[i].topic \in request[c].topics
        /\ Future(rows[i].expires, clock) =>
            i \in hits[c] \/ Cardinality(hits[c]) = MaxHits(request[c])

\* A hit that is still in the table is in the context, or the context is full.
Kept(c, i) ==
    Live(i) /\ i \in hits[c] =>
        i \in memories[c] \/ Cardinality(memories[c]) = request[c].limit

ContextInv ==
    \A c \in Clients : stage[c] \in Answering =>
        \A i \in due[c] : Found(c, i) /\ (stage[c] = "context" => Kept(c, i))

\* A context that has searched was one before, or has just searched.
LEMMA HitsFrame ==
    ASSUME TypeInv, [Next]_vars, NEW d \in Clients, stage'[d] \in Answering, ~Search(d)
    PROVE  /\ stage[d] \in Answering
           /\ hits'[d] = hits[d] /\ due'[d] = due[d] /\ request'[d] = request[d]
<1> USE DEF TypeInv, TypeOK, memory, local, history, Answering
<1>1. CASE QuietStep
  BY <1>1 DEF QuietStep
<1>2. CASE Restart
  BY <1>2 DEF Restart
<1>3. ASSUME NEW c \in Clients, Busy(c)
      PROVE  /\ stage[d] \in Answering
             /\ hits'[d] = hits[d] /\ due'[d] = due[d] /\ request'[d] = request[d]
  <2>1. CASE Refresh(c)
    <3>1. CASE Finish(c)
      BY <2>1, <3>1, FinishFacts DEF Refresh
    <3>2. CASE ~Finish(c)
      BY <2>1, <3>2 DEF Refresh, Goto
    <3> QED BY <3>1, <3>2
  <2>2. CASE Upsert(c)
    BY <2>2, FinishFacts DEF Upsert
  <2>3. CASE Replace(c)
    BY <2>3, FinishFacts DEF Replace
  <2>4. CASE Load(c)
    BY <2>4 DEF Load, Goto
  <2>5. CASE RemoveExpired(c)
    BY <2>5 DEF RemoveExpired, Goto
  <2>6. CASE Search(c)
    BY <2>6 DEF Search, Goto
  <2>7. CASE \E q \in Queries \cup {NoRequest}, b \in BOOLEAN : Sweep(c, q, b)
    BY <2>7 DEF Sweep, Goto
  <2>8. CASE Insert(c)
    <3>1. /\ stage' = [stage EXCEPT ![c] = "saved"]
          /\ UNCHANGED <<hits, due, request>>
      BY <2>8 DEF Insert, Goto
    <3> QED BY <3>1
  <2> QED BY <1>3, <2>1, <2>2, <2>3, <2>4, <2>5, <2>6, <2>7, <2>8 DEF Busy
<1> QED BY <1>1, <1>2, <1>3, QuietOrBusy

\* A search hits every row that it ought to find, as table, index and inverted index
\* agree on it.
LEMMA SearchFinds ==
    ASSUME IndexInv, KeywordsAgree, NEW c \in Clients, Search(c), NEW i \in due'[c]
    PROVE  Found(c, i)'
<1> USE DEF IndexInv, TypeInv, TypeOK
<1> DEFINE q == request[c]
<1>1. /\ UNCHANGED <<rows, clock, request>>
      /\ hits'[c] \in Limited(Matches(q), MaxHits(q))
      /\ i \in Ids /\ Settled(i) /\ rows[i].topic \in q.topics /\ Mentions(q, rows[i])
  BY DEF Search, memory
<1>2. IsLong(i) /\ rows[i] \in Row /\ rows[i] # Unwritten
  BY <1>1, RowFacts DEF Settled, IsLong, Stored
<1>3. ASSUME Future(rows[i].expires, clock) PROVE i \in Matches(q)
  <2>1. index[i] = rows[i] /\ Indexed(i)
    BY <1>1, <1>2, <1>3 DEF IndexedOnceWritten, Indexed
  <2>2. ~Past(index[i].expires, clock)
    BY <1>2, <1>3, <2>1, RowFacts, MemoryAssumption DEF Past, Future
  <2>3. Mentions(q, index[i])
    BY <1>1, <2>1
  <2>4. q.words = {} \/ i \in UNION {keywordIndex[k] : k \in q.words}
    <3>1. q.words \subseteq Keywords
      BY MemoryAssumption DEF Search, StageInv, Reading, Answering
    <3>2. SUFFICES ASSUME q.words # {} PROVE \E k \in q.words : i \in keywordIndex[k]
      OBVIOUS
    <3>3. PICK k \in q.words : k \in Words[index[i].content]
      BY <2>3, <3>2 DEF Mentions
    <3> QED BY <1>1, <2>1, <3>1, <3>3 DEF KeywordsAgree, Rebuilt, Indexed
  <2> QED BY <1>1, <2>1, <2>2, <2>3, <2>4 DEF Matches
<1>4. ASSUME Future(rows[i].expires, clock)
      PROVE  i \in hits'[c] \/ Cardinality(hits'[c]) = MaxHits(q)
  BY <1>1, <1>3, <1>4, LimitedFacts
<1> QED BY <1>1, <1>2, <1>4 DEF Found, IsLong, Stored, MaxHits

\* The last SELECT of a context keeps the hits, or fills it.
LEMMA ReadLongKeeps ==
    ASSUME NEW c \in Clients, ReadLong(c), TypeInv, NEW i \in Ids, Found(c, i)
    PROVE  Kept(c, i)'
<1>1. UNCHANGED <<rows, clock, request, hits>>
  BY DEF ReadLong, memory
<1>2. PICK records \in LongRecords(c) :
          memories'[c] \in Limited(memories[c] \cup records, request[c].limit)
  <2>1. PICK records \in LongRecords(c) :
            \E best \in Limited(memories[c] \cup records, request[c].limit) :
                memories' = [memories EXCEPT ![c] = best]
    BY DEF ReadLong
  <2> QED BY <2>1 DEF TypeInv, TypeOK
<1>3. SUFFICES ASSUME Live(i), i \in hits[c]
               PROVE  i \in memories'[c] \/ Cardinality(memories'[c]) = request[c].limit
  BY <1>1 DEF Kept, Live, IsLong, Stored
<1>4. i \in Visible(c, "long_term")
  BY <1>3 DEF Found, Visible, Live, IsLong
<1>5. i \in records
  BY <1>3, <1>4, <1>2 DEF LongRecords
<1> QED BY <1>5, <1>2, LimitedFacts

\* A context that is built was built before, or has just read its long-term rows.
LEMMA ContextFrame ==
    ASSUME TypeInv, [Next]_vars, NEW d \in Clients, stage'[d] = "context", ~ReadLong(d)
    PROVE  stage[d] = "context" /\ memories'[d] = memories[d]
<1> USE DEF TypeInv, TypeOK, memory, local, history
<1>1. ASSUME NEW c \in Clients, Finish(c)
      PROVE  stage[d] = "context" /\ memories'[d] = memories[d]
  BY <1>1, FinishFacts
<1>2. ASSUME NEW c \in Clients, NEW s \in Stage \ {"context"}, Goto(c, s), memories' = memories
      PROVE  stage[d] = "context" /\ memories'[d] = memories[d]
  BY <1>2 DEF Goto
<1>3. ASSUME NEW c \in Clients, c # d, ReadShort(c) \/ ReadLong(c) \/ Compact(c)
      PROVE  stage[d] = "context" /\ memories'[d] = memories[d]
  BY <1>3 DEF ReadShort, ReadLong, Compact, Goto
<1>4. ASSUME ReadShort(d) \/ Compact(d) PROVE FALSE
  BY <1>4 DEF ReadShort, Compact, Goto
<1>5. CASE UNCHANGED vars \/ Tick
  BY <1>5 DEF vars, Tick
<1>6. CASE Restart
  BY <1>6 DEF Restart
<1>7. ASSUME NEW c \in Clients, Write(c)
      PROVE  Finish(c) \/ (memories' = memories /\ \E s \in Stage \ {"context"} : Goto(c, s))
  BY <1>7, Zenon DEF Write, Ask, FindExact, SearchSimilar, FindSimilar, Insert, Touch, Refresh,
                     Refused, Upsert, Stage
<1>8. ASSUME NEW c \in Clients, Read(c) \/ Reload(c)
      PROVE  \/ Finish(c) \/ ReadShort(c) \/ ReadLong(c) \/ Compact(c)
             \/ memories' = memories /\ \E s \in Stage \ {"context"} : Goto(c, s)
  BY <1>8 DEF Read, Reload, Sweep, RemoveExpired, Listing, Search, Answer, Load, Replace, Stage
<1> QED BY <1>1, <1>2, <1>3, <1>4, <1>5, <1>6, <1>7, <1>8 DEF Next

\* What a context has to find, it has found.
LEMMA ContextNext ==
    ASSUME IndexInv, KeywordsAgree, ContextInv, [Next]_vars
    PROVE  ContextInv'
<1> SUFFICES ASSUME NEW d \in Clients, stage'[d] \in Answering, NEW i \in due'[d]
             PROVE  Found(d, i)' /\ (stage'[d] = "context" => Kept(d, i)')
  BY DEF ContextInv
<1>1. CASE Search(d)
  <2>1. stage'[d] = "hits"
    BY <1>1 DEF Search, Goto, IndexInv, TypeInv, TypeOK
  <2> QED BY <1>1, <2>1, SearchFinds
<1>2. CASE ~Search(d)
  <2>1. /\ stage[d] \in Answering /\ i \in due[d] /\ Found(d, i)
        /\ hits'[d] = hits[d] /\ request'[d] = request[d]
    BY <1>2, HitsFrame DEF ContextInv, IndexInv
  <2>2. i \in Ids
    BY <2>1 DEF IndexInv, TypeInv, TypeOK
  <2>3. RowStep(i) /\ rows[i] # Unwritten
    BY <2>1, <2>2, RowsStep DEF IndexInv, Found
  <2>4. Found(d, i)'
    <3>1. CASE rows'[i] = rows[i]
      <4>1. Future(rows'[i].expires, clock') /\ Stored(i) => Future(rows[i].expires, clock)
        BY <2>2, <3>1, RowsStep, RowFacts, TimePasses DEF Stored, IndexInv, TypeInv, TypeOK
      <4> QED BY <2>1, <3>1, <4>1 DEF Found, IsLong, Stored, MaxHits
    <3>2. CASE rows'[i] = Swept
      BY <3>2, RowFacts DEF Found, Stored
    <3> QED BY <2>3, <3>1, <3>2, RowFacts DEF RowStep
  <2>5. ASSUME stage'[d] = "context" PROVE Kept(d, i)'
    <3>1. CASE ReadLong(d)
      BY <2>1, <2>2, <3>1, ReadLongKeeps DEF IndexInv
    <3>2. CASE ~ReadLong(d)
      <4>1. stage[d] = "context" /\ memories'[d] = memories[d]
        BY <2>5, <3>2, ContextFrame DEF IndexInv
      <4>2. Kept(d, i)
        BY <2>1, <4>1 DEF ContextInv
      <4>3. Live(i)' => Live(i)
        BY <2>2, <2>3, LiveBefore DEF IndexInv
      <4> QED BY <2>1, <4>1, <4>2, <4>3 DEF Kept
    <3> QED BY <3>1, <3>2
  <2> QED BY <2>4, <2>5
<1> QED BY <1>1, <1>2

\* A long-term memory that a context ought to find is left out of it only for better
\* ones: the index gave as many hits as it may, or the context is full.
THEOREM ContextsFind == Spec => []ContextFindsWritten
<1>1. Init => ContextInv
  BY DEF Init, ContextInv, Answering
<1>2. IndexInv /\ KeywordsAgree /\ ContextInv /\ [Next]_vars => ContextInv'
  BY ContextNext
<1>3. IndexInv /\ ContextInv => ContextFindsWritten
  <2> SUFFICES ASSUME IndexInv, ContextInv, NEW c \in Clients, stage[c] = "context",
                      NEW i \in due[c], Stored(i), Future(rows[i].expires, clock)
               PROVE  \/ i \in memories[c]
                      \/ i \in hits[c] /\ Cardinality(memories[c]) = request[c].limit
                      \/ i \notin hits[c] /\ Cardinality(hits[c]) = MaxHits(request[c])
    BY DEF ContextFindsWritten
  <2>1. Found(c, i) /\ Kept(c, i)
    BY DEF ContextInv, Answering
  <2> QED BY <2>1 DEF Found, Kept, Live
<1> QED BY <1>1, <1>2, <1>3, IndexHolds, KeywordsHold, PTL DEF Spec

---------------------------------------------------------------------------
\* A row that a write of r would have to be merged with.
Twin(r, i) ==
    /\ SameTopic(i, r)
    /\ \/ rows[i].content = r.content
       \/ Alike(Words[r.content], Words[rows[i].content])

\* What a write of r knows at stage s: no row has its content; no row is similar.
Knows(s, r) ==
    /\ s \in {"unmatched", "ranked"} => Exact(r) = {}
    /\ s = "new" /\ r.scope = "long_term" => \A i \in Ids : ~Twin(r, i)

ApartInv == \A c \in Clients : rivals[c] = FALSE => Knows(stage[c], request[c])

DupInv == TypeInv /\ ApartInv /\ NoDuplicatesWhenApart

\* Being alike is symmetric.
LEMMA AlikeSymmetric == \A v, w : Alike(v, w) => Alike(w, v)
<1> SUFFICES ASSUME NEW v, NEW w, Alike(v, w) PROVE Alike(w, v)
  OBVIOUS
<1>1. v \cap w = w \cap v /\ v \cup w = w \cup v
  OBVIOUS
<1> QED BY <1>1 DEF Alike

\* The writes that have not inserted in this step see less than before, if anything.
LEMMA FewerTwins ==
    ASSUME NEW i \in Ids, NEW r, rows'[i] = rows[i] \/ rows'[i] = Swept
    PROVE  /\ Twin(r, i)' => Twin(r, i)
           /\ (i \in Exact(r))' => i \in Exact(r)
           /\ IsLong(i)' => IsLong(i) /\ rows'[i] = rows[i]
  BY RowFacts DEF Twin, SameTopic, Exact, IsLong, Stored

\* Without an insertion the table only loses rows.
LEMMA NoOtherInsert ==
    ASSUME TypeInv, [Next]_vars, \A c \in Clients : ~Insert(c)
    PROVE  /\ \A i \in Ids : rows'[i] = rows[i] \/ rows'[i] = Swept
           /\ doubtful' = doubtful
<1> USE DEF memory, local, history
<1>1. CASE UNCHANGED vars
  BY <1>1 DEF vars
<1>2. CASE Tick
  BY <1>2 DEF Tick
<1>3. CASE Restart
  BY <1>3 DEF Restart
<1>4. ASSUME NEW c \in Clients, Write(c) PROVE UNCHANGED <<rows, doubtful>>
  BY <1>4 DEF Write, Ask, FindExact, SearchSimilar, FindSimilar, Touch, Refresh, Refused, Upsert
<1>5. ASSUME NEW c \in Clients, NEW q, NEW b, Sweep(c, q, b)
      PROVE  /\ \A i \in Ids : rows'[i] = rows[i] \/ rows'[i] = Swept
             /\ doubtful' = doubtful
  BY <1>5 DEF Sweep
<1>6. ASSUME NEW c \in Clients,
             \/ RemoveExpired(c) \/ Listing(c) \/ Search(c) \/ ReadShort(c) \/ ReadLong(c)
             \/ Answer(c) \/ Compact(c) \/ Load(c) \/ Replace(c)
      PROVE  UNCHANGED <<rows, doubtful>>
  BY <1>6 DEF RemoveExpired, Listing, Search, ReadShort, ReadLong, Answer, Compact, Load, Replace
<1>7. ASSUME NEW c \in Clients, Read(c) \/ Reload(c)
      PROVE  /\ \A i \in Ids : rows'[i] = rows[i] \/ rows'[i] = Swept
             /\ doubtful' = doubtful
  BY <1>5, <1>6, <1>7 DEF Read, Reload
<1> QED BY <1>1, <1>2, <1>3, <1>4, <1>7 DEF Next

\* An insertion that knows of no twin makes none.
LEMMA NoDuplicatesNext ==
    ASSUME TypeInv, ApartInv, NoDuplicatesWhenApart, [Next]_vars
    PROVE  NoDuplicatesWhenApart'
<1>1. ASSUME NEW c \in Clients, Insert(c) PROVE NoDuplicatesWhenApart'
  <2>1. PICK n \in Ids : /\ rows[n] = Unwritten /\ rows' = [rows EXCEPT ![n] = NewRow(c)]
                         /\ doubtful' = IF rivals[c] THEN doubtful \cup {n} ELSE doubtful
    BY <1>1 DEF Insert
  <2>2. \A j \in Ids \ {n} : rows'[j] = rows[j]
    BY <2>1 DEF TypeInv, TypeOK
  <2>3. rows'[n] = NewRow(c)
    BY <2>1 DEF TypeInv, TypeOK
  <2>4. ASSUME NEW j \in Ids \ {n}, IsLong(n)', IsLong(j)', rows'[n].topic = rows'[j].topic,
               \/ rows'[n].content = rows'[j].content
               \/ Alike(Words[rows'[n].content], Words[rows'[j].content])
        PROVE  n \in doubtful'
    <3>1. request[c].scope = "long_term" /\ stage[c] = "new"
      BY <1>1, <2>3, <2>4 DEF NewRow, IsLong, Insert
    <3>2. Twin(request[c], j)
      BY <2>2, <2>3, <2>4 DEF Twin, SameTopic, NewRow, IsLong, Stored
    <3>3. rivals[c] = TRUE
      BY <3>1, <3>2 DEF ApartInv, Knows, TypeInv, TypeOK
    <3> QED BY <2>1, <3>3
  <2>5. ASSUME NEW i \in Ids, NEW j \in Ids, i # j, IsLong(i)', IsLong(j)',
               rows'[i].topic = rows'[j].topic,
               \/ rows'[i].content = rows'[j].content
               \/ Alike(Words[rows'[i].content], Words[rows'[j].content])
        PROVE  i \in doubtful' \/ j \in doubtful'
    <3>1. CASE i = n
      BY <2>4, <2>5, <3>1
    <3>2. CASE j = n
      BY <2>4, <2>5, <3>2, AlikeSymmetric
    <3>3. CASE i # n /\ j # n
      BY <2>1, <2>2, <2>5, <3>3 DEF NoDuplicatesWhenApart, IsLong, Stored
    <3> QED BY <3>1, <3>2, <3>3
  <2> QED BY <2>5 DEF NoDuplicatesWhenApart
<1>2. CASE \A c \in Clients : ~Insert(c)
  <2>1. \A i \in Ids : rows'[i] = rows[i] \/ rows'[i] = Swept
    BY <1>2, NoOtherInsert
  <2>2. doubtful' = doubtful
    BY <1>2, NoOtherInsert
  <2> QED BY <2>1, <2>2, FewerTwins DEF NoDuplicatesWhenApart
<1> QED BY <1>1, <1>2

\* What a write knows remains true until the next insertion.
LEMMA StillKnows ==
    ASSUME TypeInv, [Next]_vars, \A c \in Clients : ~Insert(c), NEW s, NEW r, Knows(s, r)
    PROVE  Knows(s, r)'
<1>1. \A i \in Ids : rows'[i] = rows[i] \/ rows'[i] = Swept
  BY NoOtherInsert
<1>2. \A i \in Ids : /\ Twin(r, i)' => Twin(r, i)
                     /\ (i \in Exact(r))' => i \in Exact(r)
  BY <1>1, FewerTwins
<1>3. Exact(r)' \subseteq Ids
  BY DEF Exact
<1> QED BY <1>2, <1>3 DEF Knows

\* A write that is deciding has been at the same stage before, or has just looked for
\* duplicates.
LEMMA DecidingFrame ==
    ASSUME TypeInv, [Next]_vars, \A c \in Clients : ~Insert(c),
           NEW d \in Clients, stage'[d] \in Deciding,
           ~ (FindExact(d) \/ SearchSimilar(d) \/ FindSimilar(d))
    PROVE  stage'[d] = stage[d] /\ request'[d] = request[d] /\ rivals'[d] = rivals[d]
<1> USE DEF TypeInv, TypeOK, memory, local, history, Deciding
<1>1. CASE UNCHANGED vars
  BY <1>1 DEF vars
<1>2. CASE Tick
  BY <1>2 DEF Tick
<1>3. CASE Restart
  BY <1>3 DEF Restart
<1>4. ASSUME NEW c \in Clients, NEW r \in Requests, Ask(c, r)
      PROVE  stage'[d] = stage[d] /\ request'[d] = request[d] /\ rivals'[d] = rivals[d]
  BY <1>4 DEF Ask, Goto
<1>5. ASSUME NEW c \in Clients, c # d, FindExact(c) \/ SearchSimilar(c) \/ FindSimilar(c)
      PROVE  stage'[d] = stage[d] /\ request'[d] = request[d] /\ rivals'[d] = rivals[d]
  <2>1. request' = request /\ \E t \in Stage : stage' = [stage EXCEPT ![c] = t]
    BY <1>5 DEF FindExact, SearchSimilar, FindSimilar, Goto, Stage
  <2>2. rivals' = rivals \/ \E b : rivals' = [rivals EXCEPT ![c] = b]
    BY <1>5, Zenon DEF FindExact, SearchSimilar, FindSimilar
  <2> QED BY <1>5, <2>1, <2>2
<1>6. ASSUME NEW c \in Clients, Finish(c), rivals' = rivals
      PROVE  stage'[d] = stage[d] /\ request'[d] = request[d] /\ rivals'[d] = rivals[d]
  BY <1>6, FinishFacts
<1>7. ASSUME NEW c \in Clients, Touch(c)
      PROVE  stage'[d] = stage[d] /\ request'[d] = request[d] /\ rivals'[d] = rivals[d]
  <2>1. CASE Finish(c)
    BY <1>6, <1>7, <2>1 DEF Touch
  <2>2. CASE ~Finish(c)
    BY <1>7, <2>2 DEF Touch, Goto
  <2> QED BY <2>1, <2>2
<1>8. ASSUME NEW c \in Clients, Refresh(c)
      PROVE  stage'[d] = stage[d] /\ request'[d] = request[d] /\ rivals'[d] = rivals[d]
  <2>1. CASE Finish(c)
    BY <1>6, <1>8, <2>1 DEF Refresh
  <2>2. CASE ~Finish(c)
    BY <1>8, <2>2 DEF Refresh, Goto
  <2> QED BY <2>1, <2>2
<1>9. ASSUME NEW c \in Clients,
             Refused(c) \/ Upsert(c) \/ Listing(c) \/ Answer(c) \/ Replace(c)
      PROVE  stage'[d] = stage[d] /\ request'[d] = request[d] /\ rivals'[d] = rivals[d]
  BY <1>6, <1>9 DEF Refused, Upsert, Listing, Answer, Replace
<1>10. ASSUME NEW c \in Clients, NEW q, NEW b, Sweep(c, q, b)
       PROVE  stage'[d] = stage[d] /\ request'[d] = request[d] /\ rivals'[d] = rivals[d]
  BY <1>10 DEF Sweep, Goto
<1>11. ASSUME NEW c \in Clients, RemoveExpired(c) \/ Search(c) \/ ReadShort(c) \/ ReadLong(c) \/ Load(c)
       PROVE  stage'[d] = stage[d] /\ request'[d] = request[d] /\ rivals'[d] = rivals[d]
  BY <1>11 DEF RemoveExpired, Search, ReadShort, ReadLong, Load, Goto
<1>12. ASSUME NEW c \in Clients, Compact(c)
       PROVE  stage'[d] = stage[d] /\ request'[d] = request[d] /\ rivals'[d] = rivals[d]
  BY <1>12 DEF Compact, Goto
<1> QED
  BY <1>1, <1>2, <1>3, <1>4, <1>5, <1>7, <1>8, <1>9, <1>10, <1>11, <1>12
  DEF Next, Write, Read, Reload

\* A write that has no rival knows what there is.
LEMMA ApartNext ==
    ASSUME TypeInv, ApartInv, [Next]_vars
    PROVE  ApartInv'
<1> SUFFICES ASSUME NEW d \in Clients, rivals'[d] = FALSE, stage'[d] \in Deciding
             PROVE  Knows(stage[d], request[d])'
  BY DEF ApartInv, Knows, Deciding
<1> USE DEF TypeInv, TypeOK
<1>1. ASSUME NEW c \in Clients, Insert(c) PROVE FALSE
  <2>1. /\ stage' = [stage EXCEPT ![c] = "saved"]
        /\ rivals'[d] = (d # c /\ (rivals[d] \/ stage[d] \in Deciding))
    BY <1>1 DEF Insert, Goto
  <2>2. d # c /\ stage[d] \in Deciding
    BY <2>1 DEF Deciding
  <2> QED BY <2>1, <2>2
<1>2. ASSUME \A c \in Clients : ~Insert(c) PROVE Knows(stage[d], request[d])'
  <2>1. SUFFICES Knows(stage'[d], request'[d])
    BY <1>2, StillKnows DEF Knows
  <2>2. CASE FindExact(d)
    <3>1. request' = request
      BY <2>2 DEF FindExact
    <3>2. \/ stage'[d] = "new" /\ request[d].scope = "short_term"
          \/ stage'[d] = "duplicate"
          \/ stage'[d] = "unmatched" /\ Exact(request[d]) = {}
      BY <2>2 DEF FindExact, Goto
    <3> QED BY <3>1, <3>2 DEF Knows, Deciding
  <2>3. CASE SearchSimilar(d)
    <3>1. /\ request' = request /\ rivals' = rivals
          /\ stage[d] = "unmatched" /\ stage'[d] = "ranked"
      BY <2>3 DEF SearchSimilar, Goto, history
    <3> QED BY <3>1 DEF Knows, ApartInv
  <2>4. CASE FindSimilar(d)
    <3>1. request' = request /\ stage[d] = "ranked"
      BY <2>4 DEF FindSimilar
    <3>2. PICK scanned \in Limited(Siblings(request[d]), MaxScanned) :
            /\ stage'[d] = "new" /\ Similar(d, scanned) = {}
            /\ rivals'[d] = (rivals[d] \/ found[d] # NoId \/ scanned # Siblings(request[d]))
      BY <2>4 DEF FindSimilar, Goto, Deciding
    <3>3. rivals[d] = FALSE /\ found[d] = NoId /\ scanned = Siblings(request[d])
      BY <3>2
    <3>4. Exact(request[d]) = {}
      BY <3>1, <3>3 DEF ApartInv, Knows
    <3>5. \A i \in Ids : ~Twin(request[d], i)
      BY <3>2, <3>3, <3>4 DEF Similar, Siblings, Twin, Exact
    <3> QED BY <3>1, <3>2, <3>5 DEF Knows
  <2>5. CASE ~ (FindExact(d) \/ SearchSimilar(d) \/ FindSimilar(d))
    BY <1>2, <2>5, DecidingFrame DEF ApartInv
  <2> QED BY <2>2, <2>3, <2>4, <2>5
<1> QED BY <1>1, <1>2

\* Two long-term rows of one topic that are alike: one of them was inserted beside
\* another write, by a write that the index sent to a row that had gone, or by one that
\* has not scanned all rows of the topic.
THEOREM DuplicatesHaveRivals == Spec => []NoDuplicatesWhenApart
<1>1. Init => DupInv
  <2>1. Init => ApartInv /\ NoDuplicatesWhenApart
    BY RowFacts DEF Init, ApartInv, Knows, NoDuplicatesWhenApart, IsLong, Stored
  <2> QED BY <2>1, TypeInit DEF DupInv
<1>2. DupInv /\ [Next]_vars => DupInv'
  BY TypeNext, ApartNext, NoDuplicatesNext DEF DupInv
<1>3. DupInv => NoDuplicatesWhenApart
  BY DEF DupInv
<1> QED BY <1>1, <1>2, <1>3, PTL DEF Spec
=============================================================================
