------------------------------- MODULE Document -------------------------------
(***************************************************************************)
(* A document of the document server: its content, its state and its       *)
(* undo and redo lists, as operators on a record.  Translated from         *)
(* src/Foundation/Document/Document.cpp for a document without links, so   *)
(* that what it is compiled to is what is in its file.                     *)
(*                                                                         *)
(* The content gives every path a value, a change sets the value of one    *)
(* path.  Insertions and removals in lists, which are changes like the     *)
(* others to everything but the content, are left out.                     *)
(***************************************************************************)
EXTENDS Integers, SequencesExt

CONSTANTS
    Paths,     \* paths of a document
    Values,    \* what may be at a path
    Empty,     \* one of them: what is there in an empty file
    Damaged    \* a file that cannot be parsed

Contents == [Paths -> Values]
Change == [path : Paths, value : Values]
Document ==
    [state : {"kLoaded", "kLoadFailure"}, content : Contents,
     undo : Seq(Seq(Change)), redo : Seq(Seq(Change))]

ASSUME DocumentAssumption == Empty \in Values /\ Damaged \notin Contents

EmptyFile == [p \in Paths |-> Empty]

ApplyChange(content, change) == [content EXCEPT ![change.path] = change.value]
ApplyChanges(content, changes) == FoldLeft(ApplyChange, content, changes)

\* The change that takes back changes[i].
ReverseChange(content, changes, i) ==
    LET p == changes[i].path IN
    [path |-> p, value |-> ApplyChanges(content, SubSeq(changes, 1, i - 1))[p]]

\* Mutant of ReverseChanges: it takes the changes back in the order they were
\* made in.
ReverseChangesForward(content, changes) ==
    [i \in DOMAIN changes |-> ReverseChange(content, changes, i)]

\* What CommitUndo and CommitRedo keep of changes: the last is taken back first.
ReverseChanges(content, changes) ==
    Reverse([i \in DOMAIN changes |-> ReverseChange(content, changes, i)])

-----------------------------------------------------------------------------
\* The changes of one message, and CommitUndo.  The redo list stays as it is:
\* nothing calls CleanRedoList.
Changed(doc, changes) ==
    [doc EXCEPT !.content = ApplyChanges(@, changes),
                !.undo = Append(@, ReverseChanges(doc.content, changes))]

UndoChanges(doc) ==
    [doc EXCEPT !.content = ApplyChanges(@, Last(doc.undo)),
                !.undo = Front(@),
                !.redo = Append(@, ReverseChanges(doc.content, Last(doc.undo)))]

RedoChanges(doc) ==
    [doc EXCEPT !.content = ApplyChanges(@, Last(doc.redo)),
                !.redo = Front(@),
                !.undo = Append(@, ReverseChanges(doc.content, Last(doc.redo)))]

\* ParseFull: a file that cannot be parsed leaves the document empty.  The undo
\* and redo lists are not touched.
Loaded(doc, file) ==
    [doc EXCEPT !.state = IF file = Damaged THEN "kLoadFailure" ELSE "kLoaded",
                !.content = IF file = Damaged THEN EmptyFile ELSE file]

NewDocument(file) ==
    Loaded([state |-> "kLoading", content |-> EmptyFile, undo |-> <<>>, redo |-> <<>>], file)

\* Save, as it changes the document: one that failed to load is loaded now.
Saved(doc) == [doc EXCEPT !.state = IF @ = "kLoadFailure" THEN "kLoaded" ELSE @]

\* The content once everything is undone.
Unwound(doc) == FoldLeft(ApplyChanges, doc.content, Reverse(doc.undo))
=============================================================================
