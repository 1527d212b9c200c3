----------------------------- MODULE VersionStore ----------------------------
(***************************************************************************)
(* The research versions of a browser, in the local storage that all its   *)
(* tabs share: one library for research, one for the regression material.  *)
(* Two keys of a library hold the list of versions and the active one.     *)
(* Saving an update and rolling back are both an append to the list        *)
(* followed by a move of the active pointer, under a named Web Lock that   *)
(* the browser releases when the tab goes away.  Each write of a key is a  *)
(* step: storage may be full, or the tab be closed, between the two.  The  *)
(* history page displays one library and rolls back what it displays.      *)
(***************************************************************************)
EXTENDS Integers, Sequences

CONSTANTS
  Tabs,
  Readers,         \* the tabs that have the history page open
  Contents,        \* what a saved version can say
  RegressionOnly,  \* contents from material registered for regression only
  MaxVersions,     \* bound: versions saved
  Nil              \* no such key, no such version

ASSUME VersionAssumption ==
  /\ MaxVersions \in Nat /\ Nil \notin Nat \cup Contents /\ "free" \notin Tabs
  /\ RegressionOnly \subseteq Contents /\ Readers \subseteq Tabs

(* V-01 is built in; it is never in the list.                              *)
Baseline == 1
Ids == Nat \ {0}

(* The scopes of storageKeys.                                              *)
Libraries == {"research", "regression"}

(* An update has restoredFrom Nil, the content of the baseline is Nil.     *)
Version == [id : Ids, parent : Ids, restoredFrom : Ids \cup {Nil}, content : Contents \cup {Nil}]

(* What a tab asks for before it waits for the lock: a save, or a restore  *)
(* of the displayed version restoredFrom.                                  *)
Request == [library : Libraries, restoredFrom : Ids \cup {Nil}, content : Contents \cup {Nil}]

VARIABLES
  versions,     \* versions[w]: the list of library w, oldest first
  active,       \* active[w]: its active pointer
  vlock,        \* vlock[w]: the Web Lock named after the list, the tab that holds it
  page,         \* page[t]: what the history page of tab t displays, and as which library
  request,      \* request[t]: what tab t is saving or restoring
  saving,       \* saving[t]: the version it is about to append or activate
  step,         \* step[t]: how far it is
  interrupted,  \* some append was never followed by its activation (history)
  misplaced     \* some page displayed one library as the other (history)

versionVars == <<versions, active, vlock, page, request, saving, step, interrupted, misplaced>>

VersionTypeOK ==
  /\ versions \in [Libraries -> Seq(Version)]
  /\ active \in [Libraries -> Ids \cup {Nil}]
  /\ vlock \in [Libraries -> Tabs \cup {"free"}]
  /\ page \in [Readers -> [library : Libraries, list : Seq(Version), active : Ids]]
  /\ request \in [Tabs -> Request \cup {Nil}]
  /\ saving \in [Tabs -> Version \cup {Nil}]
  /\ step \in [Tabs -> {"idle", "wait", "append", "activate"}]
  /\ \A t \in Tabs : step[t] # "idle" => request[t] \in Request
  /\ interrupted \in BOOLEAN /\ misplaced \in BOOLEAN

VersionInit ==
  /\ versions = [w \in Libraries |-> <<>>]
  /\ active = [w \in Libraries |-> Nil]
  /\ vlock = [w \in Libraries |-> "free"]
  /\ page = [t \in Readers |-> [library |-> "research", list |-> <<>>, active |-> Baseline]]
  /\ request = [t \in Tabs |-> Nil]
  /\ saving = [t \in Tabs |-> Nil]
  /\ step = [t \in Tabs |-> "idle"]
  /\ interrupted = FALSE /\ misplaced = FALSE

-----------------------------------------------------------------------------

IdsOf(list) == {list[i].id : i \in DOMAIN list}
SavedIds(w) == IdsOf(versions[w])
LatestOf(list) == IF list = <<>> THEN Baseline ELSE list[Len(list)].id

(* readActiveVersionId: a pointer that is missing or points nowhere means  *)
(* the latest version.                                                     *)
ActiveOf(list, saved) == IF saved \in IdsOf(list) \cup {Baseline} THEN saved ELSE LatestOf(list)
ActiveVersion(w) == ActiveOf(versions[w], active[w])

(* Variant: the number of versions, without the built-in one.              *)
NextIdUncounted(w) == 1 + Len(versions[w])

(* nextVersionId: one more than the highest number in use.                 *)
NextId(w) == 1 + CHOOSE n \in SavedIds(w) \cup {Baseline} : \A m \in SavedIds(w) : m <= n

(* The content of a displayed version; the baseline's own is Nil.          *)
ContentOf(list, id) ==
  IF id = Baseline THEN Nil ELSE list[CHOOSE i \in DOMAIN list : list[i].id = id].content

(* The library a material is saved to.                                     *)
LibraryOf(c) == IF c \in RegressionOnly THEN "regression" ELSE "research"

(* syncVersions: the page displays library w as it is stored now.          *)
Display(w, list, saved) == [library |-> w, list |-> list, active |-> ActiveOf(list, saved)]

(* The history page of tab t, if it has one, displays something else.      *)
Refreshed(t, Displayed(_)) ==
  [r \in Readers |-> IF r = t THEN Displayed(page[r].library) ELSE page[r]]

-----------------------------------------------------------------------------

(* The page is opened, the other library chosen on it, or a storage event  *)
(* of another tab arrives.                                                 *)
ShowLibrary(t, w) ==
  /\ page' = [page EXCEPT ![t] = Display(w, versions[w], active[w])]
  /\ UNCHANGED <<versions, active, vlock, request, saving, step, interrupted, misplaced>>

(* Ask for the lock, with what is to be written once it is granted.        *)
Ask(t, what) ==
  /\ step[t] = "idle"
  /\ request' = [request EXCEPT ![t] = what]
  /\ step' = [step EXCEPT ![t] = "wait"]
  /\ UNCHANGED <<versions, active, vlock, page, saving, interrupted, misplaced>>

(* saveVersion: a reviewed update of the material.                         *)
SaveVersion(t, c) ==
  Ask(t, [library |-> LibraryOf(c), restoredFrom |-> Nil, content |-> c])

(* The timeline offers every displayed version and V-01; a version can be  *)
(* restored when something is saved at all and it is not the active one.   *)
Timeline(t) == IdsOf(page[t].list) \cup {Baseline}
CanRollback(t, old) == page[t].list # <<>> /\ old # page[t].active

(* performRollback: what the page displays may be out of date.             *)
PerformRollback(t, old) ==
  /\ CanRollback(t, old)
  /\ Ask(t, [library |-> page[t].library, restoredFrom |-> old,
             content |-> ContentOf(page[t].list, old)])

(* Variant: the lock is not waited for.                                    *)
BeginUnlocked(t, w) ==
  /\ step[t] = "wait" /\ request[t].library = w
  /\ Len(versions["research"]) + Len(versions["regression"]) < MaxVersions
  /\ vlock' = [vlock EXCEPT ![w] = t]
  /\ saving' = [saving EXCEPT ![t] =
       [id |-> NextId(w), parent |-> ActiveVersion(w),
        restoredFrom |-> request[t].restoredFrom, content |-> request[t].content]]
  /\ step' = [step EXCEPT ![t] = "append"]
  /\ UNCHANGED <<versions, active, page, request, interrupted, misplaced>>

(* The lock is granted; then, with nothing awaited, allocate the           *)
(* identifier and note the parent.                                         *)
Begin(t, w) ==
  /\ step[t] = "wait" /\ request[t].library = w /\ vlock[w] = "free"
  /\ Len(versions["research"]) + Len(versions["regression"]) < MaxVersions
  /\ vlock' = [vlock EXCEPT ![w] = t]
  /\ saving' = [saving EXCEPT ![t] =
       [id |-> NextId(w), parent |-> ActiveVersion(w),
        restoredFrom |-> request[t].restoredFrom, content |-> request[t].content]]
  /\ step' = [step EXCEPT ![t] = "append"]
  /\ UNCHANGED <<versions, active, page, request, interrupted, misplaced>>

(* Give the lock back and forget the request.                              *)
Leave(t) ==
  /\ step' = [step EXCEPT ![t] = "idle"]
  /\ request' = [request EXCEPT ![t] = Nil]
  /\ saving' = [saving EXCEPT ![t] = Nil]
  /\ vlock' = [w \in Libraries |-> IF vlock[w] = t THEN "free" ELSE vlock[w]]

(* Variant: the library is the only thing that is looked at.               *)
AcceptsUnchecked(w, version) == version.id \notin SavedIds(w)

(* The checks of appendVersion: the identifier is not taken, and material  *)
(* for regression only stays out of the research library.                  *)
Accepts(w, version) ==
  /\ version.id \notin SavedIds(w)
  /\ w = "research" => version.content \notin RegressionOnly

(* appendVersion reads the list again and refuses, or writes the list it   *)
(* has just read with the version appended, which passes the prefix check. *)
(* The event of the write makes the tab's own page read its library again. *)
AppendVersion(t) ==
  LET w == request[t].library IN
  /\ step[t] = "append"
  /\ IF Accepts(w, saving[t])
     THEN /\ versions' = [versions EXCEPT ![w] = Append(@, saving[t])]
          /\ step' = [step EXCEPT ![t] = "activate"]
          /\ page' = Refreshed(t, LAMBDA own : Display(own, versions'[own], active[own]))
          /\ UNCHANGED <<request, saving, vlock>>
     ELSE Leave(t) /\ UNCHANGED <<versions, page>>
  /\ UNCHANGED <<active, interrupted, misplaced>>

(* The pointer moves.  The page reads its library again; after a rollback  *)
(* it then displays the list of the request's library, whichever it shows. *)
SetActiveVersion(t) ==
  LET w == request[t].library
      restored == request[t].restoredFrom # Nil IN
  /\ step[t] = "activate"
  /\ active' = [active EXCEPT ![w] = saving[t].id]
  /\ page' = Refreshed(t, LAMBDA own :
       LET from == IF restored THEN w ELSE own IN Display(own, versions[from], active'[from]))
  /\ misplaced' = (misplaced \/ (restored /\ page[t].library # w))
  /\ Leave(t)
  /\ UNCHANGED <<versions, interrupted>>

(* The tab is closed, or storage is full: the rest of the save is lost.    *)
Interrupt(t) ==
  /\ step[t] # "idle"
  /\ interrupted' = (interrupted \/ step[t] = "activate")
  /\ Leave(t)
  /\ UNCHANGED <<versions, active, page, misplaced>>

VersionStep(t) ==
  \/ \E c \in Contents : SaveVersion(t, c)
  \/ \E w \in Libraries : Begin(t, w)
  \/ AppendVersion(t) \/ SetActiveVersion(t) \/ Interrupt(t)

HistoryPage(t) ==
  \/ \E w \in Libraries : ShowLibrary(t, w)
  \/ \E old \in Timeline(t) : PerformRollback(t, old)

VersionNext == (\E t \in Tabs : VersionStep(t)) \/ (\E t \in Readers : HistoryPage(t))

VersionSpec == VersionInit /\ [][VersionNext]_versionVars

-----------------------------------------------------------------------------
(* Properties.                                                             *)

(* The history of a library is one line: every version follows the one     *)
(* before it, and between saves the latest version is the active one,      *)
(* whatever tabs do at the same time.  Only an interruption between the two*)
(* writes can leave a version that is saved but not active, from whose back*)
(* the history forks.                                                      *)
OneLine ==
  ~interrupted => \A w \in Libraries :
    /\ \A i \in DOMAIN versions[w] :
         versions[w][i].parent = IF i = 1 THEN Baseline ELSE versions[w][i - 1].id
    /\ vlock[w] = "free" => ActiveVersion(w) = LatestOf(versions[w])

(* Identifiers are given out in order, and a version follows only older    *)
(* ones of its library, interruptions or not: the history can be walked    *)
(* back to V-01.  A restored version too is one of its own library, as the *)
(* content it has, unless a page displayed one library as the other.       *)
WalksBack ==
  \A w \in Libraries : \A i \in DOMAIN versions[w] :
    LET older == SubSeq(versions[w], 1, i - 1)
        new == versions[w][i] IN
    /\ new.id = i + 1
    /\ new.parent \in IdsOf(older) \cup {Baseline}
    /\ ~misplaced /\ new.restoredFrom # Nil =>
         /\ new.restoredFrom \in IdsOf(older) \cup {Baseline}
         /\ new.content = ContentOf(older, new.restoredFrom)

(* The research library never holds material registered for regression     *)
(* only, even when a page that displays the regression library as the      *)
(* research one is asked to restore it, in one detour or several.          *)
LibrariesApart ==
  \A i \in DOMAIN versions["research"] : versions["research"][i].content \notin RegressionOnly
-----------------------------------------------------------------------------
(* What the proofs of these properties need: a stronger invariant.         *)

(* The versions of a list are numbered from 2.                             *)
Numbered(list) == \A i \in DOMAIN list : list[i].id = i + 1

(* The content of version id of a numbered list.                           *)
NumberedContent(list, id) == IF id = Baseline THEN Nil ELSE list[id - 1].content

(* The parent of the version at i, and the version it restores, come       *)
(* before it.                                                              *)
Follows(list, i) ==
  /\ list[i].parent \in 1..i
  /\ ~misplaced /\ list[i].restoredFrom # Nil =>
       /\ list[i].restoredFrom \in 1..i
       /\ list[i].content = NumberedContent(list, list[i].restoredFrom)

(* What tab t asks for is, if a restore, one of a version that is there.   *)
RequestHolds(t) ==
  ~misplaced /\ step[t] # "idle" /\ request[t].restoredFrom # Nil =>
    LET list == versions[request[t].library] IN
    /\ request[t].restoredFrom \in 1..(Len(list) + 1)
    /\ request[t].content = NumberedContent(list, request[t].restoredFrom)

(* What tab t displays is the beginning of the list it is displayed as.    *)
PageHolds(t) ==
  LET list == versions[page[t].library] IN
  /\ Numbered(page[t].list)
  /\ ~misplaced =>
       /\ Len(page[t].list) <= Len(list)
       /\ \A i \in DOMAIN page[t].list : page[t].list[i] = list[i]

(* The lock holder appends, then activates, what it allocated.             *)
HolderInv(t) ==
  LET w == request[t].library
      list == versions[w] IN
  step[t] \in {"append", "activate"} =>
    /\ vlock[w] = t /\ saving[t] \in Version
    /\ step[t] = "append" =>
         /\ saving[t].id = Len(list) + 2 /\ saving[t].parent = ActiveVersion(w)
         /\ saving[t].restoredFrom = request[t].restoredFrom
         /\ saving[t].content = request[t].content
    /\ step[t] = "activate" => list # <<>> /\ saving[t] = list[Len(list)]

(* Unless a save was interrupted, the latest version of a library is its   *)
(* active one, except while a tab is between the two writes.               *)
LineInv(w) ==
  ~interrupted =>
    /\ \A i \in DOMAIN versions[w] : versions[w][i].parent = i
    /\ (\A t \in Tabs : step[t] = "activate" => request[t].library # w)
         => ActiveVersion(w) = LatestOf(versions[w])

ListInv(w) ==
  /\ Numbered(versions[w])
  /\ \A i \in DOMAIN versions[w] : Follows(versions[w], i)

VersionInv ==
  /\ VersionTypeOK
  /\ \A w \in Libraries : ListInv(w) /\ LineInv(w)
  /\ \A t \in Tabs : HolderInv(t) /\ RequestHolds(t)
  /\ \A t \in Readers : PageHolds(t)
=============================================================================
