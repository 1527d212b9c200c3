---------------------------- MODULE MemoRevisions ----------------------------
(***************************************************************************)
(* Human revisions of a model's memo, and the reviews of those revisions,  *)
(* beside the memo ledger whose runs are revised.                          *)
(*                                                                         *)
(* The ledger is one storage key, but what may be appended to it depends on*)
(* two more: the memo ledger, with the run that is revised, and the list of*)
(* versions, with the snapshot the run is bound to.  Each key has a Web    *)
(* Lock of its own, and an append awaits several hashes between reading and*)
(* writing.  So it remembers the bytes of all three keys and compares them *)
(* just before it writes.                                                  *)
(*                                                                         *)
(* Each tab shows a run with a revision its user selected, and knows of a  *)
(* latest one as it last read it; an editor starts from that latest one.   *)
(* A click captures what the page holds at that moment.  The append then   *)
(* waits for its lock, and until it ends the page may read the records     *)
(* again, select another revision, give up the draft or show another run.  *)
(***************************************************************************)
EXTENDS MemoLedger

CONSTANTS
  Memos,         \* texts of a memo
  MaxRevisions,  \* bound: revisions saved
  MaxReviews,    \* bound: reviews saved
  Nil            \* no revision

ASSUME RevisionAssumption ==
  MaxRevisions \in Nat /\ MaxReviews \in Nat /\ Nil \notin Nat \cup Runs

VARIABLES
  revisions,  \* [id, run, parent, memo] records, oldest first
  reviews,    \* [revision, run] records, oldest first
  mlock,      \* the Web Lock of the ledger
  shown,      \* shown[t]: the run that tab t displays, the revision selected
              \*   there, and the one tab t takes for the latest
  draft,      \* draft[t]: the revision the editor of tab t started from
  busy,       \* busy[t]: the panel of tab t waits for the append it began
  op          \* op[t]: the append in progress; it has the lock or waits for it

revisionVars == <<revisions, reviews, mlock, shown, draft, busy, op>>
vars == <<memoVars, revisionVars>>

RevisionIds == 1..MaxRevisions
Revision == [id : RevisionIds, run : Runs, parent : RevisionIds \cup {Nil}, memo : Memos]
Review == [revision : RevisionIds, run : Runs]
Draft == [run : Runs, revision : RevisionIds \cup {Nil}]
View == [run : Runs \cup {Nil}, selected : RevisionIds \cup {Nil}, latest : RevisionIds \cup {Nil}]

(* The bytes of the three keys.  The two ledgers only grow.                *)
OwnBytes == <<Len(revisions), Len(reviews)>>
Bytes == <<OwnBytes, Len(runs), Len(runReviews), altered>>

NoOp == [what |-> "none", asked |-> Nil, bytes |-> Nil, entry |-> Nil]
NoView == [run |-> Nil, selected |-> Nil, latest |-> Nil]

TypeOK ==
  /\ MemoTypeOK
  /\ revisions \in Seq(Revision)
  /\ reviews \in Seq(Review)
  /\ mlock \in Tabs \cup {"free"}
  /\ shown \in [Tabs -> View]
  /\ draft \in [Tabs -> Draft \cup {Nil}]
  /\ busy \in [Tabs -> BOOLEAN]
  /\ op \in [Tabs -> [what : {"none", "revise", "review"}, asked : Draft \cup {Nil},
                      bytes : {Nil} \cup ((Nat \X Nat) \X Nat \X Nat \X Nat),
                      entry : Revision \cup Review \cup {Nil}]]

Init ==
  /\ MemoInit
  /\ revisions = <<>> /\ reviews = <<>>
  /\ mlock = "free"
  /\ shown = [t \in Tabs |-> NoView]
  /\ draft = [t \in Tabs |-> Nil]
  /\ busy = [t \in Tabs |-> FALSE]
  /\ op = [t \in Tabs |-> NoOp]

-----------------------------------------------------------------------------

(* Where the revisions of a run stand, and the last of some or all of them.*)
OfRun(r) == {k \in DOMAIN revisions : revisions[k].run = r}
IsRevision(i, r) == IF i = Nil THEN OfRun(r) = {} ELSE \E k \in OfRun(r) : revisions[k].id = i
LatestAmong(places) == IF places = {} THEN Nil ELSE revisions[Max(places)].id
Latest(r) == LatestAmong(OfRun(r))

(* readMemoRevisionLedger: the ledger is read as a whole or not at all.  No*)
(* identifier occurs twice, the parent of each revision is the latest one  *)
(* of its run before it, and each review is of a revision of its run.      *)
LedgerHolds ==
  /\ \A k \in DOMAIN revisions :
       /\ \A j \in DOMAIN revisions : revisions[j].id = revisions[k].id => j = k
       /\ revisions[k].parent = LatestAmong({j \in OfRun(revisions[k].run) : j < k})
  /\ \A k \in DOMAIN reviews :
       \E j \in OfRun(reviews[k].run) : revisions[j].id = reviews[k].revision

(* readBoundMemoRevisions: the run, and the ledger that says what follows. *)
Readable(r) == Intact(r) /\ LedgerHolds

(* What the panel offers: nothing before it has read the records or while  *)
(* it waits for an append; to save, as long as it knows of no later        *)
(* revision than the draft is based on; to review, what it takes for the   *)
(* latest revision and shows, which it does not while an editor is open.   *)
CanWrite(t) == shown[t].run # Nil /\ ~busy[t]
CanSave(t) == CanWrite(t) /\ draft[t] # Nil /\ draft[t].revision = shown[t].latest
CanReview(t) ==
  /\ CanWrite(t) /\ draft[t] = Nil
  /\ shown[t].selected # Nil /\ shown[t].selected = shown[t].latest

(* Another run, or the same one shown anew, is another panel, which starts *)
(* without a draft and knows nothing of an append begun in the one before. *)
ShowRun(t, r) ==
  /\ r \in panel[t] /\ Readable(r)
  /\ shown' = [shown EXCEPT ![t] = [run |-> r, selected |-> Latest(r), latest |-> Latest(r)]]
  /\ draft' = [draft EXCEPT ![t] = Nil] /\ busy' = [busy EXCEPT ![t] = FALSE]
  /\ UNCHANGED <<memoVars, revisions, reviews, mlock, op>>

(* Read the bound records again, display them and select a revision, also  *)
(* while an append is under way: the events that ask for it come at any    *)
(* time, late or not at all.                                               *)
Sync(t, selected) ==
  LET r == shown[t].run IN
  /\ r # Nil /\ Readable(r) /\ IsRevision(selected, r)
  /\ shown' = [shown EXCEPT ![t] = [run |-> r, selected |-> selected, latest |-> Latest(r)]]
  /\ UNCHANGED <<memoVars, revisions, reviews, mlock, draft, busy, op>>

(* Open the editor on the latest text, as far as the tab knows.  Bound: no *)
(* draft is begun, saved or reviewed that there would be no place for.     *)
BeginDraft(t) ==
  /\ CanWrite(t) /\ draft[t] = Nil /\ shown[t].selected = shown[t].latest
  /\ Len(revisions) < MaxRevisions
  /\ draft' = [draft EXCEPT ![t] = [run |-> shown[t].run, revision |-> shown[t].latest]]
  /\ UNCHANGED <<memoVars, revisions, reviews, mlock, shown, busy, op>>

(* The question about unsaved changes gives a draft up, saved or not.      *)
DiscardDraft(t) ==
  /\ draft[t] # Nil
  /\ draft' = [draft EXCEPT ![t] = Nil]
  /\ UNCHANGED <<memoVars, revisions, reviews, mlock, shown, busy, op>>

(* A click captures what it is about; bound: one append of a tab at a time.*)
Act(t, what, asked) ==
  /\ op[t].what = "none"
  /\ op' = [op EXCEPT ![t] = [what |-> what, asked |-> asked, bytes |-> Nil, entry |-> Nil]]
  /\ busy' = [busy EXCEPT ![t] = TRUE]
  /\ UNCHANGED <<memoVars, revisions, reviews, mlock, shown, draft>>

Save(t) == CanSave(t) /\ Len(revisions) < MaxRevisions /\ Act(t, "revise", draft[t])

ReviewDraft(t) ==
  /\ CanReview(t) /\ Len(reviews) < MaxReviews
  /\ Act(t, "review", [run |-> shown[t].run, revision |-> shown[t].selected])

(* Obtain the lock, capture the bytes, and check what is to be appended.   *)
Enter(t, entry) ==
  /\ mlock = "free" /\ mlock' = t
  /\ op' = [op EXCEPT ![t] = [what |-> op[t].what, asked |-> op[t].asked,
                              bytes |-> Bytes, entry |-> entry]]
  /\ UNCHANGED <<memoVars, revisions, reviews, shown, draft, busy>>

NewRevision(r, m) == [id |-> Len(revisions) + 1, run |-> r, parent |-> Latest(r), memo |-> m]

(* Variant: whatever the draft is based on, it follows the latest revision.*)
ReviseAnything(t, m) ==
  /\ op[t].what = "revise" /\ Readable(op[t].asked.run)
  /\ Len(revisions) < MaxRevisions
  /\ Enter(t, NewRevision(op[t].asked.run, m))

(* appendMemoRevision, up to its last await: the run and its version must  *)
(* be those the revisions are bound to, the draft must be based on the     *)
(* latest revision, and the text, which nothing looks at before, must      *)
(* differ from it.                                                         *)
AppendMemoRevision(t, m) ==
  LET asked == op[t].asked IN
  /\ op[t].what = "revise" /\ Readable(asked.run)
  /\ Len(revisions) < MaxRevisions
  /\ asked.revision = Latest(asked.run)
  /\ asked.revision # Nil => m # revisions[asked.revision].memo
  /\ Enter(t, NewRevision(asked.run, m))

(* appendMemoRevisionReview: only the latest revision can be reviewed.     *)
AppendMemoRevisionReview(t) ==
  LET asked == op[t].asked IN
  /\ op[t].what = "review" /\ Readable(asked.run) /\ Len(reviews) < MaxReviews
  /\ asked.revision # Nil /\ asked.revision = Latest(asked.run)
  /\ Enter(t, [revision |-> Latest(asked.run), run |-> asked.run])

Leave(t) ==
  /\ op' = [op EXCEPT ![t] = NoOp] /\ busy' = [busy EXCEPT ![t] = FALSE]
  /\ mlock' = "free"

(* Variant: the other keys are not compared.                               *)
UnchangedHere(t) == op[t].bytes[1] = OwnBytes

(* unchanged(): the three keys hold the bytes captured at the start.       *)
Unchanged(t) == op[t].bytes = Bytes

(* writeLedger: compare and write with no await between them.  The panel,  *)
(* if it is still there, closes its editor and selects the new revision;   *)
(* until it has read that one it shows the one it takes for the latest.    *)
WriteRevision(t) ==
  /\ op[t].what = "revise" /\ mlock = t /\ Unchanged(t)
  /\ revisions' = Append(revisions, op[t].entry)
  /\ IF busy[t]
     THEN /\ draft' = [draft EXCEPT ![t] = Nil]
          /\ shown' = [shown EXCEPT ![t].selected = shown[t].latest]
     ELSE UNCHANGED <<draft, shown>>
  /\ Leave(t)
  /\ UNCHANGED <<memoVars, reviews>>

WriteReview(t) ==
  /\ op[t].what = "review" /\ mlock = t /\ Unchanged(t)
  /\ reviews' = Append(reviews, op[t].entry)
  /\ Leave(t)
  /\ UNCHANGED <<memoVars, revisions, shown, draft>>

(* A check fails as soon as the lock is obtained, the bytes changed, or    *)
(* storage is full.                                                        *)
Refuse(t) ==
  /\ op[t].what # "none" /\ mlock \in {t, "free"}
  /\ Leave(t)
  /\ UNCHANGED <<memoVars, revisions, reviews, shown, draft>>

CloseTab(t) ==
  /\ CloseMemo(t)
  /\ op' = [op EXCEPT ![t] = NoOp] /\ busy' = [busy EXCEPT ![t] = FALSE]
  /\ mlock' = IF mlock = t THEN "free" ELSE mlock
  /\ draft' = [draft EXCEPT ![t] = Nil] /\ shown' = [shown EXCEPT ![t] = NoView]
  /\ UNCHANGED <<revisions, reviews>>

Next ==
  \/ MemoNext /\ UNCHANGED revisionVars
  \/ \E t \in Tabs :
       \/ CloseTab(t)
       \/ \E r \in Runs : ShowRun(t, r)
       \/ \E i \in RevisionIds \cup {Nil} : Sync(t, i)
       \/ BeginDraft(t) \/ DiscardDraft(t) \/ Save(t) \/ ReviewDraft(t)
       \/ \E m \in Memos : AppendMemoRevision(t, m)
       \/ AppendMemoRevisionReview(t)
       \/ WriteRevision(t) \/ WriteReview(t) \/ Refuse(t)

Spec == Init /\ [][Next]_vars

-----------------------------------------------------------------------------
(* Properties.                                                             *)

(* Nobody's revision is overwritten unseen and none is accepted unseen,    *)
(* however long an append waits for its lock and whatever the page shows   *)
(* meanwhile: at the moment a revision is written, the draft its author    *)
(* saved was based on the revision just before it; at the moment a review  *)
(* is written, it is of the latest revision and of the one its reviewer had*)
(* on the screen at the click (save, reviewDraft, appendMemoRevision,      *)
(* appendMemoRevisionReview).                                              *)
SeenBeforeWritten ==
  [][/\ revisions' # revisions =>
          LET new == Last(revisions') IN
          \E t \in Tabs : /\ op[t].what = "revise"
                          /\ op[t].asked = [run |-> new.run, revision |-> Latest(new.run)]
     /\ reviews' # reviews =>
          LET new == Last(reviews') IN
          /\ new.revision = Latest(new.run)
          /\ \E t \in Tabs : /\ op[t].what = "review"
                            /\ op[t].asked = [run |-> new.run, revision |-> new.revision]
    ]_vars

(* A revision or its review is recorded only of a completed run that is in *)
(* the memo ledger, unaltered like its version, even when something changes*)
(* during the awaits of the append: appendMemoRun looks at the version     *)
(* before it waits for its lock, and cannot rule out a damaged run itself. *)
SourceHoldsStill ==
  [][/\ revisions' # revisions => Intact(Last(revisions').run)
     /\ reviews' # reviews => Intact(Last(reviews').run)]_vars
=============================================================================
