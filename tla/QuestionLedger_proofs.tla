------------------------ MODULE QuestionLedger_proofs ------------------------
(***************************************************************************)
(* Proofs about the version store and the question ledger of a browser,    *)
(* for every number of tabs, versions, runs and reviews: the libraries keep*)
(* numbered, unbroken histories that can be walked back, material for      *)
(* regression stays out of research, and no run or review is lost.         *)
(***************************************************************************)
EXTENDS QuestionLedger, SequenceTheorems, TLAPS

-----------------------------------------------------------------------------
(* Lists of versions.                                                      *)

(* The versions of a numbered list bear the numbers from 2 to one more than*)
(* its length, the latest of them the greatest.                            *)
LEMMA NumberedIds ==
  ASSUME NEW list \in Seq(Version), Numbered(list)
  PROVE  /\ IdsOf(list) \cup {Baseline} = 1..(Len(list) + 1)
         /\ LatestOf(list) = Len(list) + 1
<1>1. \A i \in 1..Len(list) : list[i].id = i + 1
  BY DEF Numbered
<1>2. IdsOf(list) = {i + 1 : i \in 1..Len(list)}
  BY <1>1 DEF IdsOf
<1>3. LatestOf(list) = Len(list) + 1
  <2>1. CASE list = <<>>
    BY <2>1 DEF LatestOf, Baseline
  <2>2. CASE list # <<>>
    BY <2>2, <1>1 DEF LatestOf
  <2> QED BY <2>1, <2>2
<1>4. ASSUME NEW n \in 1..(Len(list) + 1), n # 1 PROVE n \in IdsOf(list)
  <2>1. n - 1 \in 1..Len(list) /\ n = (n - 1) + 1
    BY <1>4
  <2> QED BY <2>1, <1>2
<1>5. ASSUME NEW n \in IdsOf(list) PROVE n \in 1..(Len(list) + 1)
  BY <1>2
<1> QED BY <1>3, <1>4, <1>5 DEF Baseline

(* A saved pointer, wherever it points, is read as the number of a version *)
(* of the list or of the built-in one.                                     *)
LEMMA ActiveInList ==
  ASSUME NEW list \in Seq(Version), Numbered(list), NEW saved
  PROVE  /\ ActiveOf(list, saved) \in 1..(Len(list) + 1)
         /\ saved \in 1..(Len(list) + 1) => ActiveOf(list, saved) = saved
<1>1. IdsOf(list) \cup {Baseline} = 1..(Len(list) + 1) /\ LatestOf(list) = Len(list) + 1
  BY NumberedIds
<1> QED BY <1>1 DEF ActiveOf

(* Looking a version up by its number finds the one that bears it.         *)
LEMMA ContentByNumber ==
  ASSUME NEW list \in Seq(Version), Numbered(list), NEW id \in 1..(Len(list) + 1)
  PROVE  ContentOf(list, id) = NumberedContent(list, id)
<1>1. CASE id = 1
  BY <1>1 DEF ContentOf, NumberedContent, Baseline
<1>2. CASE id # 1
  <2>1. id - 1 \in DOMAIN list /\ list[id - 1].id = id
    BY <1>2 DEF Numbered
  <2>2. \A i \in DOMAIN list : list[i].id = id <=> i = id - 1
    BY <2>1 DEF Numbered
  <2>3. (CHOOSE i \in DOMAIN list : list[i].id = id) = id - 1
    BY <2>1, <2>2
  <2>4. ContentOf(list, id) = list[CHOOSE i \in DOMAIN list : list[i].id = id].content
    BY <1>2 DEF ContentOf, Baseline
  <2>5. NumberedContent(list, id) = list[id - 1].content
    BY <1>2 DEF NumberedContent, Baseline
  <2> QED BY <2>3, <2>4, <2>5, Zenon
<1> QED BY <1>1, <1>2

(* The number allocated next is one more than the greatest in use.         *)
LEMMA NextNumber ==
  ASSUME NEW w \in Libraries, versions[w] \in Seq(Version), Numbered(versions[w])
  PROVE  NextId(w) = Len(versions[w]) + 2
<1> DEFINE top == Len(versions[w]) + 1
<1>1. SavedIds(w) \cup {Baseline} = 1..top
  BY NumberedIds DEF SavedIds
<1>2. top \in 1..top /\ \A m \in 1..top : m <= top
  OBVIOUS
<1>3. \A n \in 1..top : (\A m \in SavedIds(w) : m <= n) => n = top
  <2> TAKE n \in 1..top
  <2> HAVE \A m \in SavedIds(w) : m <= n
  <2>1. CASE top = 1
    BY <2>1
  <2>2. CASE top # 1
    <3>1. top \in SavedIds(w)
      BY <2>2, <1>1, <1>2 DEF Baseline
    <3>2. top <= n /\ n <= top
      BY <3>1
    <3> QED BY <3>2
  <2> QED BY <2>1, <2>2
<1>4. \A m \in SavedIds(w) : m <= top
  BY <1>1
<1>5. (CHOOSE n \in SavedIds(w) \cup {Baseline} : \A m \in SavedIds(w) : m <= n) = top
  BY <1>1, <1>2, <1>3, <1>4
<1>6. NextId(w) = 1 + top
  BY <1>5, Zenon DEF NextId
<1>7. Len(versions[w]) \in Nat
  OBVIOUS
<1> QED BY <1>6, <1>7

(* What appending a version to a list leaves and adds.                     *)
LEMMA Appended ==
  ASSUME NEW list \in Seq(Version), NEW new \in Version, NEW long, long = Append(list, new)
  PROVE  /\ long \in Seq(Version) /\ Len(long) = Len(list) + 1 /\ long # <<>>
         /\ DOMAIN long = 1..(Len(list) + 1)
         /\ \A i \in 1..Len(list) : long[i] = list[i]
         /\ long[Len(list) + 1] = new
  OBVIOUS

(* What a version of a list follows is the list up to it.                  *)
LEMMA Prefix ==
  ASSUME NEW list \in Seq(Version), NEW i \in 1..Len(list)
  PROVE  /\ SubSeq(list, 1, i - 1) \in Seq(Version)
         /\ Len(SubSeq(list, 1, i - 1)) = i - 1
         /\ \A j \in 1..(i - 1) : SubSeq(list, 1, i - 1)[j] = list[j]
         /\ Numbered(list) => Numbered(SubSeq(list, 1, i - 1))
<1>1. ASSUME NEW j \in 1..(i - 1) PROVE list[j] \in Version
  <2>1. j \in 1..Len(list)
    OBVIOUS
  <2> QED BY <2>1, ElementOfSeq
<1>2. /\ SubSeq(list, 1, i - 1) \in Seq(Version)
      /\ Len(SubSeq(list, 1, i - 1)) = IF 1 <= i - 1 THEN (i - 1) - 1 + 1 ELSE 0
      /\ \A j \in 1..((i - 1) - 1 + 1) : SubSeq(list, 1, i - 1)[j] = list[1 + j - 1]
  <2>1. 1 \in Int /\ i - 1 \in Int
    OBVIOUS
  <2>2. ASSUME NEW m \in Int, NEW n \in Int, \A k \in m..n : list[k] \in Version
        PROVE  /\ SubSeq(list, m, n) \in Seq(Version)
               /\ Len(SubSeq(list, m, n)) = IF m <= n THEN n - m + 1 ELSE 0
               /\ \A k \in 1..(n - m + 1) : SubSeq(list, m, n)[k] = list[m + k - 1]
    BY <2>2
  <2> QED BY <1>1, <2>1, <2>2
<1>3. /\ Len(SubSeq(list, 1, i - 1)) = i - 1
      /\ \A j \in 1..(i - 1) : SubSeq(list, 1, i - 1)[j] = list[j]
  BY <1>2
<1> QED BY <1>2, <1>3 DEF Numbered

-----------------------------------------------------------------------------
(* The version store: the lists grow.                                      *)

(* Every list that list is the beginning of gives its versions the same    *)
(* contents under the same numbers.                                        *)
LEMMA ContentStays ==
  ASSUME NEW list \in Seq(Version), NEW long \in Seq(Version), Len(list) <= Len(long),
         \A i \in 1..Len(list) : long[i] = list[i],
         NEW id \in 1..(Len(list) + 1)
  PROVE  id \in 1..(Len(long) + 1) /\ NumberedContent(long, id) = NumberedContent(list, id)
<1>1. CASE id = 1
  BY <1>1 DEF NumberedContent, Baseline
<1>2. CASE id # 1
  <2>1. id - 1 \in 1..Len(list)
    BY <1>2
  <2>2. long[id - 1] = list[id - 1]
    BY <2>1
  <2> QED BY <1>2, <2>2 DEF NumberedContent, Baseline
<1> QED BY <1>1, <1>2

(* What the types say of one library and of one tab.                       *)
LEMMA Typed ==
  ASSUME VersionTypeOK
  PROVE  /\ \A w \in Libraries : versions[w] \in Seq(Version)
         /\ \A t \in Tabs : step[t] # "idle" =>
              request[t] \in Request /\ request[t].library \in Libraries
         /\ \A t \in Readers : page[t].library \in Libraries /\ page[t].list \in Seq(Version)
BY DEF VersionTypeOK, Request

(* What an accepted append writes: the library of the request, numbered on.*)
LEMMA AppendWrites ==
  ASSUME VersionInv, NEW t \in Tabs, AppendVersion(t), Accepts(request[t].library, saving[t])
  PROVE  LET w == request[t].library IN
         /\ w \in Libraries /\ saving[t] \in Version
         /\ versions' = [versions EXCEPT ![w] = Append(@, saving[t])]
         /\ versions'[w] \in Seq(Version) /\ Numbered(versions'[w])
         /\ Len(versions'[w]) = Len(versions[w]) + 1
         /\ \A i \in 1..Len(versions[w]) : versions'[w][i] = versions[w][i]
         /\ versions'[w][Len(versions[w]) + 1] = saving[t]
         /\ \A v \in Libraries : v # w => versions'[v] = versions[v]
<1>1. VersionTypeOK /\ step[t] = "append"
  BY DEF VersionInv, AppendVersion
<1>2. PICK w \in Libraries : w = request[t].library
  BY <1>1, Typed
<1>3. versions[w] \in Seq(Version) /\ Numbered(versions[w])
  BY <1>1, Typed DEF VersionInv, ListInv
<1>4. saving[t] \in Version /\ saving[t].id = Len(versions[w]) + 2
  BY <1>1, <1>2 DEF VersionInv, HolderInv
<1>5. versions' = [versions EXCEPT ![w] = Append(@, saving[t])]
  BY <1>2 DEF AppendVersion
<1>6. versions'[w] = Append(versions[w], saving[t]) /\ \A v \in Libraries : v # w => versions'[v] = versions[v]
  BY <1>1, <1>5 DEF VersionTypeOK
<1>7. /\ versions'[w] \in Seq(Version) /\ Len(versions'[w]) = Len(versions[w]) + 1
      /\ DOMAIN versions'[w] = 1..(Len(versions[w]) + 1)
      /\ \A i \in 1..Len(versions[w]) : versions'[w][i] = versions[w][i]
      /\ versions'[w][Len(versions[w]) + 1] = saving[t]
  BY <1>3, <1>4, <1>6, Appended
<1>8. Numbered(versions'[w])
  BY <1>3, <1>4, <1>7 DEF Numbered
<1> QED BY <1>2, <1>4, <1>5, <1>6, <1>7, <1>8

(* Only an accepted append writes a list.                                  *)
LEMMA OnlyAppends ==
  ASSUME VersionNext
  PROVE  \/ versions' = versions
         \/ \E t \in Tabs : AppendVersion(t) /\ Accepts(request[t].library, saving[t])
BY VersionAssumption DEF VersionNext, VersionStep, HistoryPage, ShowLibrary, SaveVersion, PerformRollback,
   Ask, Begin, AppendVersion, SetActiveVersion, Interrupt

(* No step takes a version away from a list or changes one.                *)
LEMMA ListsGrow ==
  ASSUME VersionInv, VersionNext, NEW w \in Libraries
  PROVE  /\ versions'[w] \in Seq(Version) /\ Numbered(versions'[w])
         /\ Len(versions[w]) <= Len(versions'[w])
         /\ \A i \in 1..Len(versions[w]) : versions'[w][i] = versions[w][i]
<1>1. VersionTypeOK /\ versions[w] \in Seq(Version) /\ Numbered(versions[w])
  BY Typed DEF VersionInv, ListInv
<1>2. CASE versions' = versions
  BY <1>1, <1>2
<1>3. ASSUME NEW t \in Tabs, AppendVersion(t), Accepts(request[t].library, saving[t])
      PROVE  /\ versions'[w] \in Seq(Version) /\ Numbered(versions'[w])
             /\ Len(versions[w]) <= Len(versions'[w])
             /\ \A i \in 1..Len(versions[w]) : versions'[w][i] = versions[w][i]
  <2>1. CASE w = request[t].library
    BY <1>1, <1>3, <2>1, AppendWrites
  <2>2. CASE w # request[t].library
    BY <1>1, <1>3, <2>2, AppendWrites
  <2> QED BY <2>1, <2>2
<1>4. versions' = versions \/ \E t \in Tabs : AppendVersion(t) /\ Accepts(request[t].library, saving[t])
  BY OnlyAppends
<1> QED BY <1>2, <1>3, <1>4

-----------------------------------------------------------------------------
(* The version store: types.                                               *)

(* The actions keep every variable in its type: what is allocated, noted   *)
(* as the parent or displayed is a version of some list.                   *)
LEMMA VersionTypes ==
  ASSUME VersionInv, VersionNext
  PROVE  VersionTypeOK'
<1> USE VersionAssumption
<1>0. VersionTypeOK /\ \A w \in Libraries : Numbered(versions[w])
  BY DEF VersionInv, ListInv
<1>1. ASSUME NEW w \in Libraries
      PROVE  /\ versions[w] \in Seq(Version) /\ NextId(w) \in Ids
             /\ \A saved : ActiveOf(versions[w], saved) \in Ids
  <2>1. versions[w] \in Seq(Version)
    BY <1>0 DEF VersionTypeOK
  <2>2. NextId(w) = Len(versions[w]) + 2
    BY <1>0, <2>1, NextNumber
  <2>3. \A saved : ActiveOf(versions[w], saved) \in 1..(Len(versions[w]) + 1)
    BY <1>0, <2>1, ActiveInList
  <2> QED BY <2>1, <2>2, <2>3 DEF Ids
<1>2. ASSUME NEW w \in Libraries
      PROVE  /\ versions'[w] \in Seq(Version)
             /\ \A saved : ActiveOf(versions'[w], saved) \in Ids
  <2>1. versions'[w] \in Seq(Version) /\ Numbered(versions'[w])
    BY ListsGrow
  <2>2. \A saved : ActiveOf(versions'[w], saved) \in 1..(Len(versions'[w]) + 1)
    BY <2>1, ActiveInList
  <2> QED BY <2>1, <2>2 DEF Ids
<1>3. ASSUME NEW t \in Readers, NEW w \in Libraries, ShowLibrary(t, w) PROVE VersionTypeOK'
  BY <1>0, <1>1, <1>3 DEF VersionTypeOK, ShowLibrary, Display
<1>4. ASSUME NEW t \in Tabs, NEW c \in Contents, SaveVersion(t, c) PROVE VersionTypeOK'
  BY <1>0, <1>4 DEF VersionTypeOK, SaveVersion, Ask, Request, LibraryOf, Libraries
<1>5. ASSUME NEW t \in Tabs, NEW w \in Libraries, Begin(t, w) PROVE VersionTypeOK'
  <2>1. /\ NextId(w) \in Ids /\ ActiveVersion(w) \in Ids /\ request[t] \in Request
        /\ t \in Tabs \cup {"free"}
    BY <1>0, <1>1, <1>5 DEF VersionTypeOK, Begin, ActiveVersion
  <2>2. saving'[t] \in Version
    BY <1>0, <1>5, <2>1 DEF VersionTypeOK, Begin, Version, Request
  <2> QED BY <1>0, <1>5, <2>1, <2>2 DEF VersionTypeOK, Begin
<1>6. ASSUME NEW t \in Tabs, Leave(t)
      PROVE  /\ vlock' \in [Libraries -> Tabs \cup {"free"}]
             /\ request' \in [Tabs -> Request \cup {Nil}]
             /\ saving' \in [Tabs -> Version \cup {Nil}]
             /\ step' \in [Tabs -> {"idle", "wait", "append", "activate"}]
             /\ \A s \in Tabs : step'[s] # "idle" => request'[s] \in Request
  BY <1>0, <1>6 DEF VersionTypeOK, Leave
<1>7. ASSUME NEW t \in Tabs, AppendVersion(t) PROVE VersionTypeOK'
  <2>1. PICK w \in Libraries : w = request[t].library
    BY <1>0, <1>7 DEF VersionTypeOK, AppendVersion, Request
  <2>2. saving[t] \in Version /\ saving[t].id \in Ids
    BY <1>7 DEF VersionInv, HolderInv, AppendVersion, Version
  <2>3. CASE Accepts(w, saving[t])
    <3>1. versions' = [versions EXCEPT ![w] = Append(@, saving[t])]
      BY <1>7, <2>1, <2>3 DEF AppendVersion
    <3>2. versions' \in [Libraries -> Seq(Version)]
      BY <1>0, <1>2, <3>1 DEF VersionTypeOK
    <3>3. page' \in [Readers -> [library : Libraries, list : Seq(Version), active : Ids]]
      BY <1>0, <1>2, <1>7, <2>1, <2>3 DEF VersionTypeOK, AppendVersion, Refreshed, Display
    <3> QED BY <1>0, <1>7, <2>1, <2>3, <3>2, <3>3 DEF VersionTypeOK, AppendVersion
  <2>4. CASE ~Accepts(w, saving[t])
    BY <1>0, <1>6, <1>7, <2>1, <2>4 DEF VersionTypeOK, AppendVersion
  <2> QED BY <2>3, <2>4
<1>8. ASSUME NEW t \in Tabs, SetActiveVersion(t) PROVE VersionTypeOK'
  <2>1. PICK w \in Libraries : w = request[t].library
    BY <1>0, <1>8 DEF VersionTypeOK, SetActiveVersion, Request
  <2>2. saving[t].id \in Ids
    BY <1>8 DEF VersionInv, HolderInv, SetActiveVersion, Version
  <2>3. active' \in [Libraries -> Ids \cup {Nil}] /\ misplaced' \in BOOLEAN
    BY <1>0, <1>8, <2>1, <2>2 DEF VersionTypeOK, SetActiveVersion
  <2>4. page' \in [Readers -> [library : Libraries, list : Seq(Version), active : Ids]]
    BY <1>0, <1>1, <1>8, <2>1 DEF VersionTypeOK, SetActiveVersion, Refreshed, Display
  <2> QED BY <1>0, <1>6, <1>8, <2>3, <2>4 DEF VersionTypeOK, SetActiveVersion
<1>9. ASSUME NEW t \in Tabs, Interrupt(t) PROVE VersionTypeOK'
  BY <1>0, <1>6, <1>9 DEF VersionTypeOK, Interrupt
<1>10. ASSUME NEW t \in Readers, NEW old \in Timeline(t), PerformRollback(t, old)
       PROVE  VersionTypeOK'
  <2>1. t \in Tabs /\ page[t].list \in Seq(Version) /\ page[t].library \in Libraries
    BY <1>0 DEF VersionTypeOK
  <2>2. Numbered(page[t].list)
    BY DEF VersionInv, PageHolds
  <2>3. old \in 1..(Len(page[t].list) + 1)
    BY <2>1, <2>2, NumberedIds DEF Timeline
  <2>4. ContentOf(page[t].list, old) = NumberedContent(page[t].list, old)
    BY <2>1, <2>2, <2>3, ContentByNumber
  <2>5. NumberedContent(page[t].list, old) \in Contents \cup {Nil}
    <3>1. CASE old = 1
      BY <3>1 DEF NumberedContent, Baseline
    <3>2. CASE old # 1
      <4>1. old - 1 \in 1..Len(page[t].list)
        BY <2>1, <2>3, <3>2
      <4>2. page[t].list[old - 1] \in Version
        BY <2>1, <4>1, ElementOfSeq
      <4> QED BY <3>2, <4>2 DEF NumberedContent, Version, Baseline
    <3> QED BY <3>1, <3>2
  <2>6. old \in Ids
    BY <2>1, <2>3 DEF Ids
  <2>7. [library |-> page[t].library, restoredFrom |-> old, content |-> ContentOf(page[t].list, old)] \in Request
    BY <2>1, <2>4, <2>5, <2>6 DEF Request
  <2> QED BY <1>0, <1>10, <2>1, <2>7 DEF VersionTypeOK, PerformRollback, Ask
<1> QED BY <1>3, <1>4, <1>5, <1>7, <1>8, <1>9, <1>10 DEF VersionNext, VersionStep, HistoryPage
-----------------------------------------------------------------------------
(* The version store: the lists, the requests and the pages.               *)

(* Once a page displayed the wrong library, that is not forgotten, nor is  *)
(* an interrupted save.                                                    *)
LEMMA HistoryKept ==
  ASSUME VersionTypeOK, VersionNext
  PROVE  (misplaced => misplaced') /\ (interrupted => interrupted')
<1>1. ASSUME NEW t \in Tabs, SetActiveVersion(t) PROVE misplaced => misplaced'
  BY <1>1 DEF VersionTypeOK, SetActiveVersion
<1>2. ASSUME NEW t \in Tabs, Interrupt(t) PROVE interrupted => interrupted'
  BY <1>2 DEF VersionTypeOK, Interrupt
<1>3. \/ misplaced' = misplaced
      \/ \E t \in Tabs : SetActiveVersion(t)
  BY DEF VersionNext, VersionStep, HistoryPage, ShowLibrary, SaveVersion, PerformRollback, Ask, Begin,
     AppendVersion, Interrupt
<1>4. \/ interrupted' = interrupted
      \/ \E t \in Tabs : Interrupt(t)
  BY DEF VersionNext, VersionStep, HistoryPage, ShowLibrary, SaveVersion, PerformRollback, Ask, Begin,
     AppendVersion, SetActiveVersion
<1> QED BY <1>1, <1>2, <1>3, <1>4

(* The lists stay numbered, and every version follows what is before it: a *)
(* new one was noted to follow an active version of the list, and to be as *)
(* its request wants it.                                                   *)
LEMMA ListStep ==
  ASSUME VersionInv, VersionNext, NEW w \in Libraries
  PROVE  ListInv(w)'
<1>0. /\ VersionTypeOK /\ versions[w] \in Seq(Version) /\ Numbered(versions[w])
      /\ \A i \in 1..Len(versions[w]) : Follows(versions[w], i)
  <2>1. VersionTypeOK /\ ListInv(w)
    BY DEF VersionInv
  <2>2. versions[w] \in Seq(Version) /\ DOMAIN versions[w] = 1..Len(versions[w])
    BY <2>1, Typed
  <2> QED BY <2>1, <2>2 DEF ListInv
<1>1. /\ versions'[w] \in Seq(Version) /\ Numbered(versions'[w])
      /\ Len(versions[w]) <= Len(versions'[w])
      /\ \A i \in 1..Len(versions[w]) : versions'[w][i] = versions[w][i]
  BY ListsGrow
<1>2. misplaced => misplaced'
  BY <1>0, HistoryKept
<1>3. \A id \in 1..(Len(versions[w]) + 1) :
        NumberedContent(versions'[w], id) = NumberedContent(versions[w], id)
  BY <1>0, <1>1, ContentStays
<1>4. ASSUME NEW i \in 1..Len(versions[w]) PROVE Follows(versions[w], i)'
  <2>1. Follows(versions[w], i) /\ versions'[w][i] = versions[w][i]
    BY <1>0, <1>1
  <2>2. \A id \in 1..i : id \in 1..(Len(versions[w]) + 1)
    OBVIOUS
  <2> QED BY <1>2, <1>3, <2>1, <2>2 DEF Follows
<1>5. CASE versions'[w] = versions[w]
  BY <1>0, <1>1, <1>4, <1>5 DEF ListInv
<1>6. ASSUME NEW t \in Tabs, AppendVersion(t), Accepts(request[t].library, saving[t]), w = request[t].library
      PROVE  ListInv(w)'
  <2>1. /\ Len(versions'[w]) = Len(versions[w]) + 1
        /\ versions'[w][Len(versions[w]) + 1] = saving[t]
    BY <1>6, AppendWrites
  <2>2. /\ step[t] = "append" /\ saving[t].parent = ActiveVersion(w)
        /\ saving[t].restoredFrom = request[t].restoredFrom
        /\ saving[t].content = request[t].content
    BY <1>6 DEF VersionInv, HolderInv, AppendVersion
  <2>3. saving[t].parent \in 1..(Len(versions[w]) + 1)
    BY <1>0, <2>2, ActiveInList DEF ActiveVersion
  <2>4. ~misplaced /\ saving[t].restoredFrom # Nil =>
          /\ saving[t].restoredFrom \in 1..(Len(versions[w]) + 1)
          /\ saving[t].content = NumberedContent(versions[w], saving[t].restoredFrom)
    BY <1>6, <2>2 DEF VersionInv, RequestHolds
  <2>5. PICK n \in Nat : n = Len(versions[w]) + 1
    BY <1>0
  <2>6. Follows(versions[w], n)'
    BY <1>2, <1>3, <2>1, <2>3, <2>4, <2>5 DEF Follows
  <2>7. \A i \in 1..Len(versions'[w]) : i \in 1..Len(versions[w]) \/ i = n
    BY <1>0, <1>1, <2>1, <2>5
  <2>8. \A i \in DOMAIN versions'[w] : Follows(versions[w], i)'
    BY <1>1, <1>4, <2>6, <2>7
  <2> QED BY <1>1, <2>8 DEF ListInv
<1>7. \/ versions'[w] = versions[w]
      \/ \E t \in Tabs : /\ AppendVersion(t) /\ Accepts(request[t].library, saving[t])
                         /\ w = request[t].library
  <2>1. versions' = versions \/ \E t \in Tabs : AppendVersion(t) /\ Accepts(request[t].library, saving[t])
    BY OnlyAppends
  <2> QED BY <2>1, AppendWrites
<1> QED BY <1>5, <1>6, <1>7
(* What a tab asks for stays as it was, or the tab has nothing to ask.     *)
LEMMA RequestFrame ==
  ASSUME VersionInv, VersionNext, NEW t \in Tabs,
         step'[t] # "idle" => step[t] # "idle" /\ request'[t] = request[t]
  PROVE  RequestHolds(t)'
<1>1. CASE ~misplaced' /\ step'[t] # "idle" /\ request'[t].restoredFrom # Nil
  <2>1. /\ VersionTypeOK /\ ~misplaced /\ step[t] # "idle" /\ request'[t] = request[t]
    BY <1>1, HistoryKept DEF VersionInv
  <2>2. PICK w \in Libraries : w = request[t].library
    BY <2>1, Typed
  <2>3. /\ request[t].restoredFrom \in 1..(Len(versions[w]) + 1)
        /\ request[t].content = NumberedContent(versions[w], request[t].restoredFrom)
    BY <1>1, <2>1, <2>2 DEF VersionInv, RequestHolds
  <2>4. /\ request[t].restoredFrom \in 1..(Len(versions'[w]) + 1)
        /\ NumberedContent(versions'[w], request[t].restoredFrom) =
             NumberedContent(versions[w], request[t].restoredFrom)
    BY <2>1, <2>2, <2>3, Typed, ListsGrow, ContentStays
  <2> QED BY <2>1, <2>2, <2>3, <2>4 DEF RequestHolds
<1> QED BY <1>1 DEF RequestHolds

(* A restore that is asked for is one of a version the page displays, which*)
(* is one of the library as it is stored.                                  *)
LEMMA RequestStep ==
  ASSUME VersionInv, VersionNext, NEW t \in Tabs
  PROVE  RequestHolds(t)'
<1>0. VersionTypeOK
  BY DEF VersionInv
<1>1. ASSUME NEW c \in Contents, SaveVersion(t, c) PROVE RequestHolds(t)'
  BY <1>0, <1>1 DEF VersionTypeOK, SaveVersion, Ask, RequestHolds
<1>2. ASSUME t \in Readers, NEW old \in Timeline(t), PerformRollback(t, old)
      PROVE  RequestHolds(t)'
  <2>1. PICK w \in Libraries : w = page[t].library
    BY <1>0, <1>2, Typed
  <2>2. /\ page[t].list \in Seq(Version) /\ versions[w] \in Seq(Version) /\ Numbered(page[t].list)
        /\ ~misplaced => /\ Len(page[t].list) <= Len(versions[w])
                         /\ \A i \in 1..Len(page[t].list) : page[t].list[i] = versions[w][i]
    BY <1>0, <1>2, <2>1, Typed DEF VersionInv, PageHolds
  <2>3. old \in 1..(Len(page[t].list) + 1)
    BY <2>2, NumberedIds DEF Timeline
  <2>4. ContentOf(page[t].list, old) = NumberedContent(page[t].list, old)
    BY <2>2, <2>3, ContentByNumber
  <2>5. ~misplaced => /\ old \in 1..(Len(versions[w]) + 1)
                      /\ NumberedContent(versions[w], old) = NumberedContent(page[t].list, old)
    BY <2>2, <2>3, ContentStays
  <2>6. /\ request'[t] = [library |-> w, restoredFrom |-> old, content |-> ContentOf(page[t].list, old)]
        /\ versions' = versions /\ misplaced' = misplaced
    BY <1>0, <1>2, <2>1 DEF VersionTypeOK, PerformRollback, Ask
  <2> QED BY <2>4, <2>5, <2>6 DEF RequestHolds
<1>3. \/ \E c \in Contents : SaveVersion(t, c)
      \/ t \in Readers /\ \E old \in Timeline(t) : PerformRollback(t, old)
      \/ step'[t] # "idle" => step[t] # "idle" /\ request'[t] = request[t]
  <2>1. ASSUME NEW s \in Tabs, s # t, VersionStep(s) \/ (s \in Readers /\ HistoryPage(s))
        PROVE  step'[t] = step[t] /\ request'[t] = request[t]
    BY <1>0, <2>1 DEF VersionTypeOK, VersionStep, HistoryPage, ShowLibrary, SaveVersion, PerformRollback, Ask,
       Begin, AppendVersion, SetActiveVersion, Interrupt, Leave
  <2>2. ASSUME NEW w \in Libraries, ShowLibrary(t, w) \/ Begin(t, w)
        PROVE  step'[t] # "idle" => step[t] # "idle" /\ request'[t] = request[t]
    BY <1>0, <2>2 DEF VersionTypeOK, ShowLibrary, Begin
  <2>3. ASSUME AppendVersion(t) \/ SetActiveVersion(t) \/ Interrupt(t)
        PROVE  step'[t] # "idle" => step[t] # "idle" /\ request'[t] = request[t]
    BY <1>0, <2>3 DEF VersionTypeOK, AppendVersion, SetActiveVersion, Interrupt, Leave
  <2> QED BY <2>1, <2>2, <2>3, VersionAssumption DEF VersionNext, VersionStep, HistoryPage
<1> QED BY <1>1, <1>2, <1>3, RequestFrame

(* A page that is not refreshed keeps displaying the beginning of a list.  *)
LEMMA PageFrame ==
  ASSUME VersionInv, VersionNext, NEW t \in Readers, page'[t] = page[t]
  PROVE  PageHolds(t)'
<1>1. PICK w \in Libraries : w = page[t].library
  BY Typed DEF VersionInv
<1>2. VersionTypeOK /\ page[t].list \in Seq(Version) /\ versions[w] \in Seq(Version) /\ PageHolds(t)
  BY Typed DEF VersionInv
<1>3. misplaced => misplaced'
  BY <1>2, HistoryKept
<1>4. /\ versions'[w] \in Seq(Version) /\ Len(versions[w]) <= Len(versions'[w])
      /\ \A i \in 1..Len(versions[w]) : versions'[w][i] = versions[w][i]
  BY ListsGrow
<1> QED BY <1>1, <1>2, <1>3, <1>4 DEF PageHolds

(* A page that is refreshed displays a whole list, and only a rollback can *)
(* make it the list of another library than the page says.                 *)
LEMMA PageRefreshed ==
  ASSUME VersionInv, VersionNext, NEW t \in Readers, NEW w \in Libraries, NEW v \in Libraries,
         page'[t].library = w, page'[t].list = versions'[v], ~misplaced' => v = w
  PROVE  PageHolds(t)'
<1>1. versions'[v] \in Seq(Version) /\ Numbered(versions'[v])
  BY ListsGrow
<1> QED BY <1>1 DEF PageHolds, Numbered

LEMMA PageStep ==
  ASSUME VersionInv, VersionNext, NEW t \in Readers
  PROVE  PageHolds(t)'
<1>0. VersionTypeOK /\ page[t].library \in Libraries /\ t \in Tabs
  BY Typed, VersionAssumption DEF VersionInv
<1>1. ASSUME NEW w \in Libraries, ShowLibrary(t, w) PROVE PageHolds(t)'
  <2>1. page'[t] = Display(w, versions[w], active[w]) /\ versions' = versions
    BY <1>0, <1>1 DEF VersionTypeOK, ShowLibrary
  <2> QED BY <2>1, PageRefreshed DEF Display
<1>2. ASSUME AppendVersion(t) PROVE PageHolds(t)'
  <2>1. CASE page'[t] = page[t]
    BY <2>1, PageFrame
  <2>2. CASE Accepts(request[t].library, saving[t])
    <3>1. page'[t] = Display(page[t].library, versions'[page[t].library], active[page[t].library])
      BY <1>2, <2>2 DEF AppendVersion, Refreshed
    <3> QED BY <1>0, <3>1, PageRefreshed DEF Display
  <2> QED BY <1>2, <2>1, <2>2 DEF AppendVersion
<1>3. ASSUME SetActiveVersion(t) PROVE PageHolds(t)'
  <2>1. PICK w \in Libraries : w = request[t].library
    BY <1>0, <1>3, Typed DEF SetActiveVersion
  <2>2. PICK own \in Libraries : own = page[t].library
    BY <1>0
  <2>3. PICK from \in Libraries : from = IF request[t].restoredFrom # Nil THEN w ELSE own
    OBVIOUS
  <2>4. page'[t] = Display(own, versions[from], active'[from])
    BY <1>3, <2>1, <2>2, <2>3 DEF SetActiveVersion, Refreshed
  <2>5. misplaced' = (misplaced \/ (request[t].restoredFrom # Nil /\ own # w)) /\ versions' = versions
    BY <1>3, <2>1, <2>2 DEF SetActiveVersion
  <2>6. ~misplaced' => from = own
    BY <2>3, <2>5
  <2> QED BY <2>4, <2>5, <2>6, PageRefreshed DEF Display
<1>4. \/ page'[t] = page[t]
      \/ \E w \in Libraries : ShowLibrary(t, w)
      \/ AppendVersion(t) \/ SetActiveVersion(t)
  <2>1. ASSUME NEW s \in Tabs, s # t, AppendVersion(s) PROVE page'[t] = page[t]
    BY <2>1 DEF AppendVersion, Refreshed
  <2>2. ASSUME NEW s \in Tabs, s # t, SetActiveVersion(s) PROVE page'[t] = page[t]
    BY <2>2 DEF SetActiveVersion, Refreshed
  <2>3. ASSUME NEW s \in Readers, NEW w \in Libraries, s # t, ShowLibrary(s, w) PROVE page'[t] = page[t]
    BY <1>0, <2>3 DEF VersionTypeOK, ShowLibrary
  <2>4. \/ page' = page
        \/ \E s \in Readers, w \in Libraries : ShowLibrary(s, w)
        \/ \E s \in Tabs : AppendVersion(s) \/ SetActiveVersion(s)
    BY DEF VersionNext, VersionStep, HistoryPage, SaveVersion, PerformRollback, Ask, Begin, Interrupt
  <2> QED BY <2>1, <2>2, <2>3, <2>4
<1> QED BY <1>1, <1>2, <1>3, <1>4, PageFrame
-----------------------------------------------------------------------------
(* The version store: the lock and the line.                               *)

(* Two tabs between their writes are in different libraries.               *)
LEMMA HoldersApart ==
  ASSUME VersionInv, NEW s \in Tabs, NEW t \in Tabs, s # t,
         step[s] \in {"append", "activate"}, step[t] \in {"append", "activate"}
  PROVE  request[s].library # request[t].library
BY DEF VersionInv, HolderInv

(* What the holder of a lock relies on is left alone.                      *)
LEMMA HolderFrame ==
  ASSUME NEW t \in Tabs, HolderInv(t),
         step'[t] = step[t], request'[t] = request[t], saving'[t] = saving[t],
         NEW w, w = request[t].library,
         step[t] \in {"append", "activate"} =>
           vlock'[w] = vlock[w] /\ versions'[w] = versions[w] /\ active'[w] = active[w]
  PROVE  HolderInv(t)'
BY DEF HolderInv, ActiveVersion

LEMMA HolderStep ==
  ASSUME VersionInv, VersionNext, NEW t \in Tabs
  PROVE  HolderInv(t)'
<1>0. VersionTypeOK /\ HolderInv(t) /\ t # "free"
  BY VersionAssumption DEF VersionInv
<1>1. CASE step'[t] \notin {"append", "activate"}
  BY <1>1 DEF HolderInv
<1>2. ASSUME NEW w \in Libraries, Begin(t, w) PROVE HolderInv(t)'
  <2>1. versions[w] \in Seq(Version) /\ Numbered(versions[w]) /\ request[t] \in Request
    BY <1>0, <1>2, Typed DEF VersionInv, ListInv, Begin
  <2>2. NextId(w) = Len(versions[w]) + 2 /\ ActiveVersion(w) \in 1..(Len(versions[w]) + 1)
    BY <2>1, NextNumber, ActiveInList DEF ActiveVersion
  <2>3. /\ saving'[t] = [id |-> NextId(w), parent |-> ActiveVersion(w),
                         restoredFrom |-> request[t].restoredFrom, content |-> request[t].content]
        /\ step'[t] = "append" /\ vlock'[w] = t
        /\ request' = request /\ versions' = versions /\ active' = active /\ request[t].library = w
    BY <1>0, <1>2 DEF VersionTypeOK, Begin
  <2>4. saving'[t] \in Version
    BY <2>1, <2>2, <2>3 DEF Version, Request, Ids
  <2> QED BY <2>2, <2>3, <2>4 DEF HolderInv, ActiveVersion
<1>3. ASSUME AppendVersion(t), Accepts(request[t].library, saving[t]) PROVE HolderInv(t)'
  <2>1. PICK w \in Libraries : w = request[t].library
    BY <1>0, <1>3, Typed DEF AppendVersion
  <2>2. /\ versions'[w] \in Seq(Version) /\ versions[w] \in Seq(Version)
        /\ Len(versions'[w]) = Len(versions[w]) + 1
        /\ versions'[w][Len(versions[w]) + 1] = saving[t] /\ saving[t] \in Version
    BY <1>0, <1>3, <2>1, AppendWrites, Typed
  <2>3. versions'[w] # <<>> /\ versions'[w][Len(versions'[w])] = saving[t]
    BY <2>2
  <2>4. vlock[w] = t
    BY <1>0, <1>3, <2>1 DEF HolderInv, AppendVersion
  <2>5. step'[t] = "activate" /\ request' = request /\ saving' = saving /\ vlock' = vlock
    BY <1>0, <1>3 DEF VersionTypeOK, AppendVersion
  <2> QED BY <2>1, <2>2, <2>3, <2>4, <2>5 DEF HolderInv
<1>4. ASSUME NEW s \in Tabs, s # t, VersionStep(s), step[t] \in {"append", "activate"}
      PROVE  HolderInv(t)'
  <2>1. PICK w \in Libraries : w = request[t].library
    BY <1>0, <1>4, Typed
  <2>2. step'[t] = step[t] /\ request'[t] = request[t] /\ saving'[t] = saving[t]
    BY <1>0, <1>4 DEF VersionTypeOK, VersionStep, SaveVersion, Ask, Begin, AppendVersion, SetActiveVersion,
       Interrupt, Leave
  <2>3. vlock[w] = t
    BY <1>0, <1>4, <2>1 DEF HolderInv
  <2>4. step[s] \in {"append", "activate"} => request[s].library # w
    BY <1>4, <2>1, HoldersApart
  <2>5. vlock'[w] = vlock[w]
    BY <1>0, <1>4, <2>3 DEF VersionTypeOK, VersionStep, SaveVersion, Ask, Begin, AppendVersion, SetActiveVersion,
       Interrupt, Leave
  <2>6. versions'[w] = versions[w]
    BY <1>0, <1>4, <2>4 DEF VersionTypeOK, VersionStep, SaveVersion, Ask, Begin, AppendVersion, SetActiveVersion,
       Interrupt
  <2>7. active'[w] = active[w]
    BY <1>0, <1>4, <2>4 DEF VersionTypeOK, VersionStep, SaveVersion, Ask, Begin, AppendVersion, SetActiveVersion,
       Interrupt
  <2> QED BY <1>0, <2>1, <2>2, <2>5, <2>6, <2>7, HolderFrame
<1>5. ASSUME NEW s \in Readers, HistoryPage(s), step[t] \in {"append", "activate"} PROVE HolderInv(t)'
  <2>1. step'[t] = step[t] /\ request'[t] = request[t] /\ saving' = saving
    BY <1>0, <1>5 DEF VersionTypeOK, HistoryPage, ShowLibrary, PerformRollback, Ask
  <2>2. vlock' = vlock /\ versions' = versions /\ active' = active
    BY <1>5 DEF HistoryPage, ShowLibrary, PerformRollback, Ask
  <2> QED BY <1>0, <2>1, <2>2, HolderFrame
<1>6. CASE step[t] \notin {"append", "activate"}
  <2>1. step'[t] \notin {"append", "activate"} \/ \E w \in Libraries : Begin(t, w)
    BY <1>0, <1>6 DEF VersionTypeOK, VersionNext, VersionStep, HistoryPage, ShowLibrary, SaveVersion,
       PerformRollback, Ask, Begin, AppendVersion, SetActiveVersion, Interrupt, Leave
  <2> QED BY <1>1, <1>2, <2>1
<1>7. CASE VersionStep(t) /\ step[t] \in {"append", "activate"}
  <2>1. \/ step'[t] \notin {"append", "activate"}
        \/ AppendVersion(t) /\ Accepts(request[t].library, saving[t])
    BY <1>0, <1>7 DEF VersionTypeOK, VersionStep, SaveVersion, Ask, Begin, AppendVersion, SetActiveVersion,
       Interrupt, Leave
  <2> QED BY <1>1, <1>3, <2>1
<1> QED BY <1>4, <1>5, <1>6, <1>7 DEF VersionNext
(* The parents of a list are in order, and its latest version is active    *)
(* except between the two writes of a save.                                *)
LEMMA LineStep ==
  ASSUME VersionInv, VersionNext, NEW w \in Libraries
  PROVE  LineInv(w)'
<1>0. VersionTypeOK /\ LineInv(w) /\ versions[w] \in Seq(Version) /\ Numbered(versions[w])
  BY Typed DEF VersionInv, ListInv
<1>1. interrupted => interrupted'
  BY <1>0, HistoryKept
<1>2. CASE /\ interrupted' = interrupted /\ versions'[w] = versions[w] /\ active'[w] = active[w]
           /\ \A t \in Tabs : step[t] = "activate" /\ request[t].library = w =>
                step'[t] = "activate" /\ request'[t].library = w
  BY <1>0, <1>2 DEF LineInv, ActiveVersion
<1>3. ASSUME NEW t \in Tabs, AppendVersion(t), Accepts(request[t].library, saving[t]), w = request[t].library
      PROVE  LineInv(w)'
  <2>1. /\ versions'[w] \in Seq(Version) /\ Len(versions'[w]) = Len(versions[w]) + 1
        /\ versions'[w][Len(versions[w]) + 1] = saving[t]
        /\ \A i \in 1..Len(versions[w]) : versions'[w][i] = versions[w][i]
    BY <1>3, AppendWrites
  <2>2. step[t] = "append" /\ saving[t].parent = ActiveVersion(w)
    BY <1>3 DEF VersionInv, HolderInv, AppendVersion
  <2>3. \A s \in Tabs : step[s] = "activate" => request[s].library # w
    BY <1>3, <2>2, HoldersApart
  <2>4. LatestOf(versions[w]) = Len(versions[w]) + 1
    BY <1>0, NumberedIds
  <2>5. /\ interrupted' = interrupted
        /\ step'[t] = "activate" /\ request'[t].library = w
    BY <1>0, <1>3 DEF VersionTypeOK, AppendVersion
  <2>6. ~interrupted => saving[t].parent = Len(versions[w]) + 1
    BY <1>0, <2>2, <2>3, <2>4 DEF LineInv
  <2>7. ~interrupted => \A i \in DOMAIN versions'[w] : versions'[w][i].parent = i
    BY <1>0, <2>1, <2>6 DEF LineInv
  <2> QED BY <2>5, <2>7 DEF LineInv
<1>4. ASSUME NEW t \in Tabs, SetActiveVersion(t), w = request[t].library PROVE LineInv(w)'
  <2>1. /\ versions[w] # <<>> /\ saving[t] = versions[w][Len(versions[w])]
    BY <1>4 DEF VersionInv, HolderInv, SetActiveVersion
  <2>2. versions' = versions /\ interrupted' = interrupted /\ active'[w] = saving[t].id
    BY <1>0, <1>4 DEF VersionTypeOK, SetActiveVersion
  <2>3. saving[t].id = LatestOf(versions[w]) /\ LatestOf(versions[w]) = Len(versions[w]) + 1
    BY <1>0, <2>1, NumberedIds DEF LatestOf
  <2>4. Len(versions[w]) + 1 \in 1..(Len(versions[w]) + 1)
    BY <1>0
  <2>5. ActiveOf(versions[w], saving[t].id) = LatestOf(versions[w])
    BY <1>0, <2>3, <2>4, ActiveInList
  <2>6. ActiveVersion(w)' = LatestOf(versions[w])'
    BY <2>2, <2>5 DEF ActiveVersion
  <2> QED BY <1>0, <2>2, <2>6 DEF LineInv
<1>5. ASSUME NEW t \in Tabs, Interrupt(t) PROVE LineInv(w)'
  <2>1. CASE step[t] = "activate"
    BY <1>5, <2>1 DEF Interrupt, LineInv
  <2>2. CASE step[t] # "activate"
    <3>1. interrupted' = interrupted /\ versions' = versions /\ active' = active
      BY <1>0, <1>5, <2>2 DEF VersionTypeOK, Interrupt
    <3>2. \A s \in Tabs : s # t => step'[s] = step[s] /\ request'[s] = request[s]
      BY <1>0, <1>5 DEF VersionTypeOK, Interrupt, Leave
    <3> QED BY <1>2, <2>2, <3>1, <3>2
  <2> QED BY <2>1, <2>2
<1>6. ASSUME NEW t \in Tabs, (AppendVersion(t) /\ ~Accepts(request[t].library, saving[t])) \/
                             ((AppendVersion(t) \/ SetActiveVersion(t)) /\ w # request[t].library)
      PROVE  LineInv(w)'
  <2>1. interrupted' = interrupted /\ versions'[w] = versions[w] /\ active'[w] = active[w]
    BY <1>0, <1>6 DEF VersionTypeOK, AppendVersion, SetActiveVersion
  <2>2. \A s \in Tabs : s # t => step'[s] = step[s] /\ request'[s] = request[s]
    BY <1>0, <1>6 DEF VersionTypeOK, AppendVersion, SetActiveVersion, Leave
  <2>3. step[t] = "activate" => request[t].library # w
    BY <1>6 DEF AppendVersion
  <2> QED BY <1>2, <2>1, <2>2, <2>3
<1>7. ASSUME NEW t \in Tabs,
             \/ \E c \in Contents : SaveVersion(t, c)
             \/ \E v \in Libraries : Begin(t, v)
             \/ t \in Readers /\ HistoryPage(t)
      PROVE  LineInv(w)'
  <2>1. interrupted' = interrupted /\ versions' = versions /\ active' = active
    BY <1>7 DEF SaveVersion, Begin, HistoryPage, ShowLibrary, PerformRollback, Ask
  <2>2. \A s \in Tabs : step[s] = "activate" => step'[s] = "activate" /\ request'[s] = request[s]
    BY <1>0, <1>7 DEF VersionTypeOK, SaveVersion, Begin, HistoryPage, ShowLibrary, PerformRollback, Ask
  <2> QED BY <1>2, <2>1, <2>2
<1> QED BY <1>3, <1>4, <1>5, <1>6, <1>7, VersionAssumption DEF VersionNext, VersionStep

-----------------------------------------------------------------------------
(* The version store: what its histories are.                              *)

LEMMA VersionInitially == VersionInit => VersionInv
<1> HAVE VersionInit
<1>1. VersionTypeOK
  <2>1. versions \in [Libraries -> Seq(Version)]
    <3>1. <<>> \in Seq(Version)
      OBVIOUS
    <3> QED BY <3>1 DEF VersionInit
  <2>2. page \in [Readers -> [library : Libraries, list : Seq(Version), active : Ids]]
    <3>1. <<>> \in Seq(Version) /\ "research" \in Libraries /\ Baseline \in Ids
      BY DEF Libraries, Baseline, Ids
    <3> QED BY <3>1 DEF VersionInit
  <2>3. /\ active \in [Libraries -> Ids \cup {Nil}]
        /\ vlock \in [Libraries -> Tabs \cup {"free"}]
        /\ request \in [Tabs -> Request \cup {Nil}]
        /\ saving \in [Tabs -> Version \cup {Nil}]
        /\ step \in [Tabs -> {"idle", "wait", "append", "activate"}]
        /\ \A t \in Tabs : step[t] = "idle"
        /\ interrupted \in BOOLEAN /\ misplaced \in BOOLEAN
    BY DEF VersionInit
  <2> QED BY <2>1, <2>2, <2>3 DEF VersionTypeOK
<1>2. ASSUME NEW w \in Libraries PROVE ListInv(w) /\ LineInv(w)
  <2>1. versions[w] = <<>> /\ active[w] = Nil
    BY DEF VersionInit
  <2>2. ActiveOf(<<>>, Nil) = LatestOf(<<>>)
    BY DEF ActiveOf, LatestOf, IdsOf
  <2> QED BY <2>1, <2>2 DEF ListInv, LineInv, Numbered, ActiveVersion
<1>3. ASSUME NEW t \in Tabs PROVE HolderInv(t) /\ RequestHolds(t)
  BY DEF VersionInit, HolderInv, RequestHolds
<1>4. ASSUME NEW t \in Readers PROVE PageHolds(t)
  BY DEF VersionInit, PageHolds, Numbered, Libraries
<1> QED BY <1>1, <1>2, <1>3, <1>4 DEF VersionInv

LEMMA VersionStepInv == VersionInv /\ [VersionNext]_versionVars => VersionInv'
<1> SUFFICES ASSUME VersionInv, [VersionNext]_versionVars PROVE VersionInv'
  OBVIOUS
<1>1. CASE VersionNext
  BY <1>1, VersionTypes, ListStep, LineStep, HolderStep, RequestStep, PageStep DEF VersionInv
<1>2. CASE UNCHANGED versionVars
  BY <1>2 DEF versionVars, VersionInv, VersionTypeOK, ListInv, LineInv, HolderInv, RequestHolds, PageHolds,
     Follows, ActiveVersion
<1> QED BY <1>1, <1>2

(* Every step of the ledger is one of the version store, or leaves it be.  *)
LEMMA LedgerMovesVersions == [Next]_vars => [VersionNext]_versionVars
BY DEF Next, vars, LedgerStep, AskAbout, ReceiveRun, BeginReview, Enter, AppendQuestionRun, ReadActive,
   AppendQuestionReview, Abandon

LEMMA VersionsSettled == Spec => []VersionInv
<1>1. Init => VersionInv
  BY VersionInitially DEF Init
<1>2. VersionInv /\ [Next]_vars => VersionInv'
  BY VersionStepInv, LedgerMovesVersions
<1> QED BY <1>1, <1>2, PTL DEF Spec

(* The history of a library is one line, whatever tabs do at the same time:*)
(* every version follows the one before it, and between saves the latest is*)
(* the active one, unless a save was interrupted between its two writes    *)
(* (saveVersion and performRollback under the lock of the list).           *)
THEOREM HistoryIsOneLine == Spec => []OneLine
<1>1. VersionInv => OneLine
  <2> SUFFICES ASSUME VersionInv, ~interrupted, NEW w \in Libraries
               PROVE  /\ \A i \in DOMAIN versions[w] :
                           versions[w][i].parent = IF i = 1 THEN Baseline ELSE versions[w][i - 1].id
                      /\ vlock[w] = "free" => ActiveVersion(w) = LatestOf(versions[w])
    BY DEF OneLine
  <2>1. /\ versions[w] \in Seq(Version)
        /\ \A i \in 1..Len(versions[w]) : versions[w][i].id = i + 1 /\ versions[w][i].parent = i
    <3>1. versions[w] \in Seq(Version) /\ DOMAIN versions[w] = 1..Len(versions[w])
      BY Typed DEF VersionInv
    <3> QED BY <3>1 DEF VersionInv, ListInv, LineInv, Numbered
  <2>2. ASSUME NEW i \in DOMAIN versions[w]
        PROVE  versions[w][i].parent = IF i = 1 THEN Baseline ELSE versions[w][i - 1].id
    <3>1. i \in 1..Len(versions[w]) /\ versions[w][i].parent = i
      BY <2>1
    <3>2. CASE i = 1
      BY <3>1, <3>2 DEF Baseline
    <3>3. CASE i # 1
      <4>1. i - 1 \in 1..Len(versions[w])
        BY <3>1, <3>3
      <4>2. versions[w][i - 1].id = i
        BY <2>1, <3>1, <4>1
      <4> QED BY <3>1, <3>3, <4>2
    <3> QED BY <3>2, <3>3
  <2>3. ASSUME vlock[w] = "free" PROVE ActiveVersion(w) = LatestOf(versions[w])
    BY <2>3, VersionAssumption DEF VersionInv, HolderInv, LineInv
  <2> QED BY <2>2, <2>3
<1> QED BY <1>1, VersionsSettled, PTL

(* Identifiers are given out in order, and the history can be walked back  *)
(* to the built-in version from every version; a restored version is one   *)
(* of its own library and has the content it restores (nextVersionId and   *)
(* appendVersion), unless a page displayed one library as the other.       *)
THEOREM HistoryWalksBack == Spec => []WalksBack
<1>1. VersionInv => WalksBack
  <2> SUFFICES ASSUME VersionInv, NEW w \in Libraries, NEW i \in DOMAIN versions[w]
               PROVE  LET older == SubSeq(versions[w], 1, i - 1)
                          new == versions[w][i] IN
                      /\ new.id = i + 1
                      /\ new.parent \in IdsOf(older) \cup {Baseline}
                      /\ ~misplaced /\ new.restoredFrom # Nil =>
                           /\ new.restoredFrom \in IdsOf(older) \cup {Baseline}
                           /\ new.content = ContentOf(older, new.restoredFrom)
    BY DEF WalksBack
  <2>1. versions[w] \in Seq(Version) /\ Numbered(versions[w]) /\ i \in 1..Len(versions[w])
    BY Typed DEF VersionInv, ListInv
  <2>2. Follows(versions[w], i)
    BY DEF VersionInv, ListInv
  <2>3. PICK older : older = SubSeq(versions[w], 1, i - 1)
    OBVIOUS
  <2>4. /\ older \in Seq(Version) /\ Len(older) = i - 1 /\ Numbered(older)
        /\ \A j \in 1..Len(older) : versions[w][j] = older[j]
    BY <2>1, <2>3, Prefix
  <2>5. IdsOf(older) \cup {Baseline} = 1..i
    BY <2>1, <2>4, NumberedIds
  <2>6. \A id \in 1..i : ContentOf(older, id) = NumberedContent(versions[w], id)
    <3> TAKE id \in 1..i
    <3>1. id \in 1..(Len(older) + 1) /\ Len(older) <= Len(versions[w])
      BY <2>1, <2>4
    <3> QED BY <2>1, <2>4, <3>1, ContentByNumber, ContentStays
  <2> QED BY <2>1, <2>2, <2>3, <2>5, <2>6 DEF Follows, Numbered
<1> QED BY <1>1, VersionsSettled, PTL

(* The research library never holds material registered for regression     *)
(* only (appendVersion), whatever page it is restored from.                *)
THEOREM ResearchStaysApart == Spec => []LibrariesApart
<1>1. Init => LibrariesApart
  BY DEF Init, VersionInit, LibrariesApart, Libraries
<1>2. VersionInv /\ LibrariesApart /\ [Next]_vars => LibrariesApart'
  <2> SUFFICES ASSUME VersionInv, LibrariesApart, [Next]_vars PROVE LibrariesApart'
    OBVIOUS
  <2>1. CASE versions'["research"] = versions["research"]
    BY <2>1 DEF LibrariesApart
  <2>2. ASSUME NEW t \in Tabs, AppendVersion(t), Accepts(request[t].library, saving[t]),
               request[t].library = "research"
        PROVE  LibrariesApart'
    <3>1. saving[t].content \notin RegressionOnly
      BY <2>2 DEF Accepts
    <3>2. versions["research"] \in Seq(Version)
      BY Typed DEF VersionInv, Libraries
    <3> QED BY <2>2, <3>1, <3>2, AppendWrites DEF LibrariesApart
  <2>3. \/ versions'["research"] = versions["research"]
        \/ \E t \in Tabs : /\ AppendVersion(t) /\ Accepts(request[t].library, saving[t])
                           /\ request[t].library = "research"
    <3>1. versions' = versions \/ \E t \in Tabs : AppendVersion(t) /\ Accepts(request[t].library, saving[t])
      BY LedgerMovesVersions, OnlyAppends DEF versionVars
    <3> QED BY <3>1, AppendWrites DEF Libraries
  <2> QED BY <2>1, <2>2, <2>3
<1> QED BY <1>1, <1>2, VersionsSettled, PTL DEF Spec
-----------------------------------------------------------------------------
(* The ledger.                                                             *)

(* What appending to a list of runs leaves and adds.                       *)
LEMMA RunAppended ==
  ASSUME NEW list \in Seq(Run), NEW new \in Run, NEW long, long = Append(list, new)
  PROVE  /\ long \in Seq(Run) /\ Len(long) = Len(list) + 1
         /\ DOMAIN long = 1..(Len(list) + 1)
         /\ \A i \in 1..Len(list) : long[i] = list[i]
         /\ long[Len(list) + 1] = new
         /\ StartsWith(long, list)
<1>1. /\ long \in Seq(Run) /\ Len(long) = Len(list) + 1
      /\ DOMAIN long = 1..(Len(list) + 1)
      /\ \A i \in 1..Len(list) : long[i] = list[i]
      /\ long[Len(list) + 1] = new
  OBVIOUS
<1> QED BY <1>1 DEF StartsWith

LEMMA StartsWithItself ==
  ASSUME NEW list \in Seq(Run)
  PROVE  StartsWith(list, list)
BY DEF StartsWith

(* The active version of the research library is a number.                 *)
LEMMA ActiveIsANumber ==
  ASSUME VersionInv
  PROVE  ActiveVersion("research") \in Ids
<1>1. versions["research"] \in Seq(Version) /\ Numbered(versions["research"])
  BY Typed DEF VersionInv, ListInv, Libraries
<1>2. ActiveVersion("research") \in 1..(Len(versions["research"]) + 1)
  BY <1>1, ActiveInList DEF ActiveVersion
<1> QED BY <1>1, <1>2 DEF Ids

(* The types of the ledger alone.                                          *)
LedgerTypeOK ==
  /\ runs \in Seq(Run)
  /\ reviews \in Seq(Run)
  /\ qlock \in Tabs \cup {"free"}
  /\ busy \in [Tabs -> {"idle", "run", "review", "checked"}]
  /\ read \in [Tabs -> [runs : Seq(Run), reviews : Seq(Run), run : Run \cup {Nil},
                        current : Ids \cup {Nil}]]
  /\ asked \in [Runs -> Ids \cup {Nil}]
  /\ \A t \in Tabs : busy[t] # "idle" => read[t].run \in Run

LEMMA TypesApart == TypeOK <=> VersionTypeOK /\ LedgerTypeOK
BY DEF TypeOK, LedgerTypeOK

(* A tab that enters the ledger knows what the run was asked about, and    *)
(* notes the ledger as it is.                                              *)
LEMMA EnterTypes ==
  ASSUME LedgerTypeOK, NEW t \in Tabs, NEW r \in Runs, NEW what \in {"run", "review"}, asked[r] \in Ids,
         Enter(t, r, what)
  PROVE  /\ LedgerTypeOK'
         /\ read'[t].run = [id |-> r, version |-> asked[r]]
         /\ read'[t].runs = runs /\ read'[t].reviews = reviews
<1>1. [id |-> r, version |-> asked[r]] \in Run
  BY DEF Run
<1>2. read'[t] = [runs |-> runs, reviews |-> reviews, current |-> Nil, run |-> [id |-> r, version |-> asked[r]]]
  BY DEF LedgerTypeOK, Enter
<1>3. /\ read' \in [Tabs -> [runs : Seq(Run), reviews : Seq(Run), run : Run \cup {Nil}, current : Ids \cup {Nil}]]
      /\ \A s \in Tabs : s # t => read'[s] = read[s]
  BY <1>1 DEF LedgerTypeOK, Enter
<1>4. /\ busy' \in [Tabs -> {"idle", "run", "review", "checked"}]
      /\ \A s \in Tabs : s # t => busy'[s] = busy[s]
  BY DEF LedgerTypeOK, Enter
<1> QED BY <1>1, <1>2, <1>3, <1>4 DEF LedgerTypeOK, Enter

(* A tab that leaves it keeps nothing.                                     *)
LEMMA DoneTypes ==
  ASSUME LedgerTypeOK, NEW t \in Tabs, Done(t), runs' \in Seq(Run), reviews' \in Seq(Run), asked' = asked
  PROVE  LedgerTypeOK'
<1>1. Idle \in [runs : Seq(Run), reviews : Seq(Run), run : Run \cup {Nil}, current : Ids \cup {Nil}]
  <2>1. <<>> \in Seq(Run)
    OBVIOUS
  <2> QED BY <2>1 DEF Idle
<1>2. /\ read' \in [Tabs -> [runs : Seq(Run), reviews : Seq(Run), run : Run \cup {Nil}, current : Ids \cup {Nil}]]
      /\ \A s \in Tabs : s # t => read'[s] = read[s]
  BY <1>1 DEF LedgerTypeOK, Done
<1>3. /\ busy' \in [Tabs -> {"idle", "run", "review", "checked"}] /\ busy'[t] = "idle"
      /\ \A s \in Tabs : s # t => busy'[s] = busy[s]
  BY DEF LedgerTypeOK, Done
<1>4. qlock' \in Tabs \cup {"free"}
  BY DEF LedgerTypeOK, Done
<1> QED BY <1>2, <1>3, <1>4 DEF LedgerTypeOK

(* Only a run that was asked about is in the ledger.                       *)
LEMMA RecordedWasAsked ==
  ASSUME LedgerInv, NEW r \in Runs, Recorded(runs, r)
  PROVE  asked[r] \in Ids /\ \E j \in DOMAIN runs : runs[j] = [id |-> r, version |-> asked[r]]
<1>1. PICK j \in DOMAIN runs : runs[j].id = r
  BY DEF Recorded
<1>2. runs[j] \in Run
  BY <1>1 DEF LedgerInv, TypeOK
<1>3. asked[r] = runs[j].version
  BY <1>1 DEF LedgerInv, RunsBound
<1> QED BY <1>1, <1>2, <1>3 DEF Run

(* The tab that enters finds itself alone, with what it has read.          *)
LEMMA EnterInv ==
  ASSUME LedgerInv, NEW t \in Tabs, NEW r \in Runs, NEW what \in {"run", "review"}, asked[r] \in Ids,
         Enter(t, r, what), what = "review" => Recorded(runs, r)
  PROVE  LedgerTypeOK' /\ (\A s \in Tabs : InsideInv(s)') /\ RunsBound' /\ RecordedOnce'
<1>1. LedgerTypeOK
  BY TypesApart DEF LedgerInv
<1>2. /\ LedgerTypeOK'
      /\ read'[t].run = [id |-> r, version |-> asked[r]]
      /\ read'[t].runs = runs /\ read'[t].reviews = reviews
  BY <1>1, EnterTypes
<1>3. runs' = runs /\ reviews' = reviews /\ asked' = asked
  BY DEF Enter
<1>4. InsideInv(t)'
  <2>1. busy'[t] = what /\ qlock' = t
    BY <1>1 DEF LedgerTypeOK, Enter
  <2>2. what = "review" => \E j \in DOMAIN runs : runs[j] = [id |-> r, version |-> asked[r]]
    BY RecordedWasAsked
  <2> QED BY <1>2, <1>3, <2>1, <2>2 DEF InsideInv
<1>5. ASSUME NEW s \in Tabs, s # t PROVE InsideInv(s)'
  BY <1>1, <1>5, VersionAssumption DEF LedgerInv, LedgerTypeOK, InsideInv, Enter
<1>6. RunsBound' /\ RecordedOnce'
  BY <1>3 DEF LedgerInv, RunsBound, RecordedOnce
<1> QED BY <1>2, <1>4, <1>5, <1>6

(* A tab that leaves the ledger lets go of what it has read; it was alone. *)
LEMMA DoneInside ==
  ASSUME LedgerInv, NEW t \in Tabs, busy[t] # "idle", Done(t), NEW s \in Tabs
  PROVE  InsideInv(s)'
<1>1. LedgerTypeOK
  BY TypesApart DEF LedgerInv
<1>2. busy'[s] = "idle"
  <2>1. CASE s = t
    BY <1>1, <2>1 DEF LedgerTypeOK, Done
  <2>2. CASE s # t
    BY <1>1, <2>2 DEF LedgerTypeOK, LedgerInv, InsideInv, Done
  <2> QED BY <2>1, <2>2
<1> QED BY <1>2 DEF InsideInv

(* A run is recorded if it is not there yet.                               *)
LEMMA RunInv ==
  ASSUME LedgerInv, NEW t \in Tabs, AppendQuestionRun(t)
  PROVE  /\ LedgerTypeOK' /\ (\A s \in Tabs : InsideInv(s)') /\ RunsBound' /\ RecordedOnce'
         /\ StartsWith(runs', runs) /\ StartsWith(reviews', reviews)
<1>1. /\ LedgerTypeOK /\ busy[t] = "run" /\ Done(t) /\ asked' = asked
      /\ runs \in Seq(Run) /\ reviews \in Seq(Run)
  BY TypesApart DEF LedgerInv, LedgerTypeOK, AppendQuestionRun
<1>2. \A s \in Tabs : InsideInv(s)'
  BY <1>1, DoneInside
<1>3. /\ read[t].runs = runs /\ read[t].reviews = reviews /\ read[t].run \in Run
      /\ asked[read[t].run.id] = read[t].run.version
  BY <1>1 DEF LedgerInv, LedgerTypeOK, InsideInv
<1>4. CASE Recorded(runs, read[t].run.id)
  <2>1. runs' = runs /\ reviews' = reviews
    BY <1>3, <1>4 DEF AppendQuestionRun
  <2>2. LedgerTypeOK'
    BY <1>1, <2>1, DoneTypes
  <2>3. RunsBound' /\ RecordedOnce'
    BY <1>1, <2>1 DEF LedgerInv, RunsBound, RecordedOnce
  <2> QED BY <1>1, <1>2, <2>1, <2>2, <2>3, StartsWithItself
<1>5. CASE ~Recorded(runs, read[t].run.id)
  <2>1. runs' = Append(runs, read[t].run) /\ reviews' = reviews
    BY <1>3, <1>5 DEF AppendQuestionRun
  <2>2. /\ runs' \in Seq(Run) /\ DOMAIN runs' = 1..(Len(runs) + 1)
        /\ \A i \in 1..Len(runs) : runs'[i] = runs[i]
        /\ runs'[Len(runs) + 1] = read[t].run /\ StartsWith(runs', runs)
    <3>1. PICK long : long = runs'
      OBVIOUS
    <3>2. long = Append(runs, read[t].run)
      BY <2>1, <3>1
    <3>3. long \in Seq(Run) /\ StartsWith(long, runs)
      BY <1>1, <1>3, <3>2, RunAppended
    <3>4. DOMAIN long = 1..(Len(runs) + 1)
      BY <1>1, <1>3, <3>2, RunAppended
    <3> QED BY <1>1, <1>3, <3>1, <3>2, <3>3, <3>4, RunAppended
  <2>3. LedgerTypeOK'
    BY <1>1, <2>1, <2>2, DoneTypes
  <2>4. DOMAIN runs = 1..Len(runs) /\ Len(runs) \in Nat
    BY <1>1
  <2>5. RunsBound'
    BY <1>1, <1>3, <2>2, <2>4 DEF LedgerInv, RunsBound
  <2>6. \A i, j \in DOMAIN runs' : runs'[i].id = runs'[j].id => i = j
    BY <1>5, <2>2, <2>4 DEF LedgerInv, RecordedOnce, Recorded
  <2>7. \A i \in DOMAIN reviews' : \E j \in DOMAIN runs' : runs'[j] = reviews'[i]
    <3> TAKE i \in DOMAIN reviews'
    <3>1. PICK j \in DOMAIN runs : runs[j] = reviews[i]
      BY <2>1 DEF LedgerInv, RecordedOnce
    <3> QED BY <2>1, <2>2, <2>4, <3>1
  <2> QED BY <1>1, <1>2, <2>1, <2>2, <2>3, <2>5, <2>6, <2>7, StartsWithItself DEF RecordedOnce
<1> QED BY <1>4, <1>5

(* A review is recorded of a run that is; the rest is written as read.     *)
LEMMA ReviewInv ==
  ASSUME LedgerInv, NEW t \in Tabs, AppendQuestionReview(t)
  PROVE  /\ LedgerTypeOK' /\ (\A s \in Tabs : InsideInv(s)') /\ RunsBound' /\ RecordedOnce'
         /\ StartsWith(runs', runs) /\ StartsWith(reviews', reviews)
<1>1. /\ LedgerTypeOK /\ busy[t] = "checked" /\ Done(t) /\ asked' = asked
      /\ runs \in Seq(Run) /\ reviews \in Seq(Run)
  BY TypesApart DEF LedgerInv, LedgerTypeOK, AppendQuestionReview
<1>2. \A s \in Tabs : InsideInv(s)'
  BY <1>1, DoneInside
<1>3. /\ read[t].runs = runs /\ read[t].reviews = reviews /\ read[t].run \in Run
      /\ \E j \in DOMAIN runs : runs[j] = read[t].run
  BY <1>1 DEF LedgerInv, LedgerTypeOK, InsideInv
<1>4. runs' = runs /\ (reviews' = reviews \/ reviews' = Append(reviews, read[t].run))
  BY <1>3 DEF AppendQuestionReview
<1>5. RunsBound'
  BY <1>1, <1>4 DEF LedgerInv, RunsBound
<1>6. CASE reviews' = reviews
  BY <1>1, <1>2, <1>4, <1>5, <1>6, DoneTypes, StartsWithItself DEF LedgerInv, RecordedOnce
<1>7. CASE reviews' = Append(reviews, read[t].run)
  <2>1. /\ reviews' \in Seq(Run) /\ DOMAIN reviews' = 1..(Len(reviews) + 1)
        /\ \A i \in 1..Len(reviews) : reviews'[i] = reviews[i]
        /\ reviews'[Len(reviews) + 1] = read[t].run /\ StartsWith(reviews', reviews)
    <3>1. PICK long : long = reviews'
      OBVIOUS
    <3>2. long = Append(reviews, read[t].run)
      BY <1>7, <3>1
    <3>3. long \in Seq(Run) /\ StartsWith(long, reviews)
      BY <1>1, <1>3, <3>2, RunAppended
    <3>4. DOMAIN long = 1..(Len(reviews) + 1)
      BY <1>1, <1>3, <3>2, RunAppended
    <3> QED BY <1>1, <1>3, <3>1, <3>2, <3>3, <3>4, RunAppended
  <2>2. DOMAIN reviews = 1..Len(reviews) /\ Len(reviews) \in Nat
    BY <1>1
  <2>3. RecordedOnce'
    BY <1>3, <1>4, <2>1, <2>2 DEF LedgerInv, RecordedOnce
  <2> QED BY <1>1, <1>2, <1>4, <1>5, <2>1, <2>3, DoneTypes, StartsWithItself
<1> QED BY <1>4, <1>6, <1>7

(* Every step keeps the ledger's invariant, and only adds to the ledger.   *)
LEMMA LedgerStepInv ==
  ASSUME VersionInv, VersionInv', LedgerInv, [Next]_vars
  PROVE  LedgerInv' /\ StartsWith(runs', runs) /\ StartsWith(reviews', reviews)
<1>0. LedgerTypeOK /\ runs \in Seq(Run) /\ reviews \in Seq(Run)
  BY TypesApart DEF LedgerInv, LedgerTypeOK
<1>1. VersionTypeOK'
  BY DEF VersionInv
<1>2. LedgerTypeOK' /\ VersionTypeOK' => TypeOK'
  BY DEF LedgerTypeOK, TypeOK
<1>3. ASSUME NEW r \in Runs, AskAbout(r)
      PROVE  /\ LedgerTypeOK' /\ (\A s \in Tabs : InsideInv(s)') /\ RunsBound' /\ RecordedOnce'
             /\ runs' = runs /\ reviews' = reviews
  <2>1. /\ asked[r] = Nil /\ asked' = [asked EXCEPT ![r] = ActiveVersion("research")]
        /\ runs' = runs /\ reviews' = reviews /\ qlock' = qlock /\ busy' = busy /\ read' = read
    BY <1>3 DEF AskAbout
  <2>2. ActiveVersion("research") \in Ids
    BY ActiveIsANumber
  <2>3. LedgerTypeOK'
    BY <1>0, <2>1, <2>2 DEF LedgerTypeOK
  <2>4. \A v \in Runs : asked[v] # Nil => asked'[v] = asked[v]
    BY <1>0, <2>1 DEF LedgerTypeOK
  <2>5. Nil \notin Ids
    BY VersionAssumption DEF Ids
  <2>6. \A s \in Tabs : InsideInv(s)'
    <3> TAKE s \in Tabs
    <3>1. CASE busy[s] # "idle"
      <4>1. read[s].run.id \in Runs /\ read[s].run.version \in Ids /\ InsideInv(s)
        BY <1>0, <3>1 DEF LedgerTypeOK, Run, LedgerInv
      <4>2. asked'[read[s].run.id] = asked[read[s].run.id]
        BY <2>4, <2>5, <3>1, <4>1 DEF InsideInv
      <4> QED BY <2>1, <4>1, <4>2 DEF InsideInv
    <3> QED BY <2>1, <3>1 DEF InsideInv
  <2>7. RunsBound'
    <3>1. ASSUME NEW i \in DOMAIN runs PROVE asked'[runs[i].id] = runs[i].version
      <4>1. runs[i] \in Run
        BY <1>0
      <4>2. runs[i].id \in Runs /\ runs[i].version \in Ids /\ asked[runs[i].id] = runs[i].version
        BY <4>1 DEF Run, LedgerInv, RunsBound
      <4> QED BY <2>4, <2>5, <4>2
    <3> QED BY <2>1, <3>1 DEF RunsBound
  <2> QED BY <2>1, <2>3, <2>6, <2>7 DEF LedgerInv, RecordedOnce
<1>4. ASSUME NEW t \in Tabs, NEW r \in Runs, ReceiveRun(t, r) \/ BeginReview(t, r)
      PROVE  /\ LedgerTypeOK' /\ (\A s \in Tabs : InsideInv(s)') /\ RunsBound' /\ RecordedOnce'
             /\ runs' = runs /\ reviews' = reviews
  <2>1. CASE ReceiveRun(t, r)
    <3>1. asked[r] \in Ids /\ Enter(t, r, "run")
      BY <1>0, <2>1 DEF LedgerTypeOK, ReceiveRun
    <3> QED BY <3>1, EnterInv DEF Enter
  <2>2. CASE BeginReview(t, r)
    <3>1. asked[r] \in Ids /\ Recorded(runs, r) /\ Enter(t, r, "review")
      BY <2>2, RecordedWasAsked DEF BeginReview
    <3> QED BY <3>1, EnterInv DEF Enter
  <2> QED BY <1>4, <2>1, <2>2
<1>5. ASSUME NEW t \in Tabs, ReadActive(t)
      PROVE  /\ LedgerTypeOK' /\ (\A s \in Tabs : InsideInv(s)') /\ RunsBound' /\ RecordedOnce'
             /\ runs' = runs /\ reviews' = reviews
  <2>1. /\ busy[t] = "review" /\ busy' = [busy EXCEPT ![t] = "checked"]
        /\ runs' = runs /\ reviews' = reviews /\ qlock' = qlock /\ asked' = asked
    BY <1>5 DEF ReadActive
  <2>2. ActiveVersion("research") \in Ids
    BY ActiveIsANumber
  <2>3. /\ read' \in [Tabs -> [runs : Seq(Run), reviews : Seq(Run), run : Run \cup {Nil}, current : Ids \cup {Nil}]]
        /\ \A s \in Tabs : read'[s].run = read[s].run /\ read'[s].runs = read[s].runs
                            /\ read'[s].reviews = read[s].reviews
    BY <1>0, <1>5, <2>2 DEF LedgerTypeOK, ReadActive
  <2>4. /\ busy' \in [Tabs -> {"idle", "run", "review", "checked"}]
        /\ \A s \in Tabs : busy'[s] # "idle" =>
             busy[s] # "idle" /\ (busy'[s] # "run" => busy[s] # "run")
    BY <1>0, <2>1 DEF LedgerTypeOK
  <2>5. LedgerTypeOK'
    BY <1>0, <2>1, <2>3, <2>4 DEF LedgerTypeOK
  <2>6. \A s \in Tabs : InsideInv(s)'
    BY <2>1, <2>3, <2>4 DEF LedgerInv, InsideInv
  <2> QED BY <2>1, <2>5, <2>6 DEF LedgerInv, RunsBound, RecordedOnce
<1>6. ASSUME NEW t \in Tabs, Abandon(t)
      PROVE  /\ LedgerTypeOK' /\ (\A s \in Tabs : InsideInv(s)') /\ RunsBound' /\ RecordedOnce'
             /\ runs' = runs /\ reviews' = reviews
  <2>1. busy[t] # "idle" /\ Done(t) /\ runs' = runs /\ reviews' = reviews /\ asked' = asked
    BY <1>6 DEF Abandon
  <2>2. LedgerTypeOK' /\ \A s \in Tabs : InsideInv(s)'
    BY <1>0, <2>1, DoneTypes, DoneInside
  <2> QED BY <2>1, <2>2 DEF LedgerInv, RunsBound, RecordedOnce
<1>7. CASE UNCHANGED ledgerVars
  <2>1. /\ runs' = runs /\ reviews' = reviews /\ qlock' = qlock /\ busy' = busy /\ read' = read
        /\ asked' = asked
    BY <1>7 DEF ledgerVars
  <2>2. LedgerTypeOK' /\ \A s \in Tabs : InsideInv(s)'
    BY <1>0, <2>1 DEF LedgerInv, LedgerTypeOK, InsideInv
  <2>3. RunsBound' /\ RecordedOnce'
    BY <2>1 DEF LedgerInv, RunsBound, RecordedOnce
  <2> QED BY <1>0, <1>1, <1>2, <2>1, <2>2, <2>3, StartsWithItself DEF LedgerInv
<1>8. ASSUME NEW t \in Tabs, AppendQuestionRun(t) \/ AppendQuestionReview(t)
      PROVE  LedgerInv' /\ StartsWith(runs', runs) /\ StartsWith(reviews', reviews)
  BY <1>1, <1>2, <1>8, RunInv, ReviewInv DEF LedgerInv
<1> QED
  BY <1>0, <1>1, <1>3, <1>4, <1>5, <1>6, <1>7, <1>2, <1>8, StartsWithItself
  DEF LedgerInv, Next, LedgerStep, vars
LEMMA LedgerInitially == Init => LedgerInv
<1> HAVE Init
<1>1. VersionTypeOK
  BY VersionInitially DEF Init, VersionInv
<1>2. runs \in Seq(Run) /\ reviews \in Seq(Run) /\ runs = <<>> /\ reviews = <<>>
  BY DEF Init
<1>3. Idle \in [runs : Seq(Run), reviews : Seq(Run), run : Run \cup {Nil}, current : Ids \cup {Nil}]
  <2>1. <<>> \in Seq(Run)
    OBVIOUS
  <2> QED BY <2>1 DEF Idle
<1>4. /\ qlock = "free" /\ busy = [t \in Tabs |-> "idle"] /\ read = [t \in Tabs |-> Idle]
      /\ asked = [r \in Runs |-> Nil]
  BY DEF Init
<1>5. LedgerTypeOK
  BY <1>2, <1>3, <1>4 DEF LedgerTypeOK
<1>6. \A t \in Tabs : InsideInv(t)
  BY <1>4 DEF InsideInv
<1>7. RunsBound /\ RecordedOnce
  BY <1>2 DEF RunsBound, RecordedOnce
<1> QED BY <1>1, <1>5, <1>6, <1>7, TypesApart DEF LedgerInv

LEMMA LedgerSettled == Spec => []LedgerInv
<1>1. Init => LedgerInv
  BY LedgerInitially
<1>2. VersionInv /\ VersionInv' /\ LedgerInv /\ [Next]_vars => LedgerInv'
  BY LedgerStepInv
<1> QED BY <1>1, <1>2, VersionsSettled, PTL DEF Spec

(* Every state is well typed: identifiers are numbers, a tab that waits    *)
(* for or holds the lock of a list has a request, and one inside the ledger*)
(* a run.                                                                  *)
THEOREM LedgerTyped == Spec => []TypeOK
<1>1. LedgerInv => TypeOK
  BY DEF LedgerInv
<1> QED BY <1>1, LedgerSettled, PTL

(* A run that several tabs receive is recorded once (appendQuestionRun),   *)
(* and every review is of a recorded run (appendQuestionReview).           *)
THEOREM RunsRecordedOnce == Spec => []RecordedOnce
<1>1. LedgerInv => RecordedOnce
  BY DEF LedgerInv
<1> QED BY <1>1, LedgerSettled, PTL

(* Writing the whole ledger as it was read some awaits ago, with one entry *)
(* more, loses and reorders nothing another tab wrote.                     *)
THEOREM LedgerOnlyGrows == Spec => NothingLost
<1>1. VersionInv /\ VersionInv' /\ LedgerInv /\ [Next]_vars
        => [StartsWith(runs', runs) /\ StartsWith(reviews', reviews)]_ledgerVars
  BY LedgerStepInv
<1> QED BY <1>1, VersionsSettled, LedgerSettled, PTL DEF Spec, NothingLost
=============================================================================
