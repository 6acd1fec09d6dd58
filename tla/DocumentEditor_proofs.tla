------------------------ MODULE DocumentEditor_proofs ------------------------
(***************************************************************************)
(* Proofs about the documents and their editors: DocumentEditor.           *)
(***************************************************************************)
EXTENDS DocumentEditor, CollectionLemmas

-----------------------------------------------------------------------------
(* Changes of a document's content.                                         *)

Applying == [x \in Contents |-> [change \in Change |-> ApplyChange(x, change)]]

\* A change gives a content.
LEMMA ApplyingSteps == Applying \in Steps(Contents, Change)
<1>1. ASSUME NEW x \in Contents, NEW change \in Change
      PROVE  ApplyChange(x, change) \in Contents
  BY DEF ApplyChange, Contents, Change
<1>2. QED
  BY <1>1 DEF Applying, Steps

\* Changes are applied one after the other.
LEMMA ApplyChangesFolds ==
    ASSUME NEW x \in Contents, NEW s \in Seq(Change)
    PROVE  ApplyChanges(x, s) = Folded(Applying, x, s) /\ ApplyChanges(x, s) \in Contents
<1> DEFINE Is(k) == k = [t \in SUBSET DOMAIN s |->
                            IF t = {} THEN x ELSE ApplyChange(k[t \ {Max(t)}], s[Max(t)])]
<1>1. PICK g : FoldOf(g, Contents, Applying, x, s)
  BY ApplyingSteps, FoldExists DEF Steps
<1>2. FoldValues(g, Contents, Change, Applying, x, s)
  BY <1>1, ApplyingSteps, FoldFacts
<1>3. \A t \in SUBSET DOMAIN s : t # {} => g[t] = ApplyChange(g[t \ {Max(t)}], s[Max(t)])
  BY <1>2 DEF Applying, FoldValues
<1>4. Is(g)
  BY <1>2, <1>3 DEF FoldValues
<1>5. ASSUME NEW k, Is(k) PROVE k = g
  <2>1. Alike(k, g, s)
    BY <1>2, <1>3, <1>5 DEF Alike, FoldValues
  <2> HIDE DEF Is
  <2>2. QED BY <2>1, SameFold
<1>6. (CHOOSE k : Is(k)) = g
  BY <1>4, <1>5
<1>7. ApplyChanges(x, s) = (CHOOSE k : Is(k))[DOMAIN s]
  BY DEF ApplyChanges, FoldLeft, MapThenFoldSet
<1> HIDE DEF Is
<1>8. Folded(Applying, x, s) = g[DOMAIN s] /\ g[DOMAIN s] \in Contents
  BY <1>1, ApplyingSteps, FoldedIs
<1>9. QED
  BY <1>6, <1>7, <1>8

\* The laws of ApplyChanges: no changes, a last one, a first one.
LEMMA ApplyNothing ==
    ASSUME NEW x \in Contents
    PROVE  ApplyChanges(x, <<>>) = x
<1>1. <<>> \in Seq(Change)
  BY EmptySeq
<1>2. ApplyChanges(x, <<>>) = Folded(Applying, x, <<>>)
  BY <1>1, ApplyChangesFolds
<1>3. QED
  BY <1>2, ApplyingSteps, FoldedOfNothing

\* The last change is applied last.
LEMMA ApplyLast ==
    ASSUME NEW x \in Contents, NEW s \in Seq(Change), NEW e \in Change
    PROVE  ApplyChanges(x, Append(s, e)) = ApplyChange(ApplyChanges(x, s), e)
<1>1. Append(s, e) \in Seq(Change)
  BY AppendProperties
<1>2. /\ ApplyChanges(x, Append(s, e)) = Folded(Applying, x, Append(s, e))
      /\ ApplyChanges(x, s) = Folded(Applying, x, s) /\ ApplyChanges(x, s) \in Contents
  BY <1>1, ApplyChangesFolds
<1>3. Folded(Applying, x, Append(s, e)) = Applying[Folded(Applying, x, s)][e]
  BY ApplyingSteps, FoldedAppend
<1>4. QED
  BY <1>2, <1>3 DEF Applying

\* The first change is applied first.
LEMMA ApplyFirst ==
    ASSUME NEW x \in Contents, NEW s \in Seq(Change), s # <<>>
    PROVE  /\ Head(s) \in Change /\ Tail(s) \in Seq(Change) /\ ApplyChange(x, Head(s)) \in Contents
           /\ ApplyChanges(x, s) = ApplyChanges(ApplyChange(x, Head(s)), Tail(s))
<1>1. /\ Head(s) \in Change /\ Tail(s) \in Seq(Change) /\ Applying[x][Head(s)] \in Contents
      /\ Folded(Applying, x, s) = Folded(Applying, Applying[x][Head(s)], Tail(s))
  BY ApplyingSteps, FoldedHead
<1>2. Applying[x][Head(s)] = ApplyChange(x, Head(s))
  BY <1>1 DEF Applying
<1>3. QED
  BY <1>1, <1>2, ApplyChangesFolds

\* The paths that changes write.
PathsOf(changes) == {changes[i].path : i \in DOMAIN changes}

\* Changes leave the other paths alone.
LEMMA ApplyElsewhere ==
    ASSUME NEW x \in Contents, NEW s \in Seq(Change), NEW p \in Paths, p \notin PathsOf(s)
    PROVE  ApplyChanges(x, s)[p] = x[p]
<1> DEFINE N == Len(s)
<1>1. N \in Nat /\ DOMAIN s = 1 .. N
  BY LenProperties
<1>2. PICK f : Accumulates(f, Contents, Applying, x, s) /\ f[N] = Folded(Applying, x, s)
  BY ApplyingSteps, FoldedStepwise
<1>3. /\ f[0] = x /\ \A n \in 0 .. N : f[n] \in Contents
      /\ \A n \in 0 .. N - 1 : f[n + 1] = Applying[f[n]][s[n + 1]]
  BY <1>2 DEF Accumulates
<1> HIDE DEF N
<1> DEFINE S == {n \in Nat : n <= N => f[n][p] = x[p]}
<1>4. 0 \in S
  BY <1>3
<1>5. ASSUME NEW n \in Nat, n \in S PROVE n + 1 \in S
  <2> SUFFICES ASSUME n + 1 <= N PROVE f[n + 1][p] = x[p]
    OBVIOUS
  <2>1. n \in 0 .. N - 1 /\ n \in 0 .. N /\ n + 1 \in 1 .. N
    BY <1>1
  <2>2. f[n] \in Contents /\ s[n + 1] \in Change /\ s[n + 1].path # p
    BY <1>1, <1>3, <2>1, ElementOfSeq DEF PathsOf, N
  <2>3. f[n + 1] = ApplyChange(f[n], s[n + 1])
    BY <1>3, <2>1, <2>2 DEF Applying
  <2>4. f[n + 1][p] = f[n][p]
    BY <2>2, <2>3 DEF ApplyChange, Contents, Change
  <2>5. f[n][p] = x[p]
    BY <1>1, <1>5
  <2>6. QED BY <2>4, <2>5
<1> HIDE DEF S
<1>6. N \in S
  BY <1>1, <1>4, <1>5, Induction
<1>7. f[N][p] = x[p]
  BY <1>1, <1>6 DEF S
<1>8. QED
  BY <1>2, <1>7, ApplyChangesFolds

-----------------------------------------------------------------------------
(* Taking changes back.                                                     *)

\* The reverse of a change puts back what was at its path.
LEMMA ReverseChangeType ==
    ASSUME NEW x \in Contents, NEW s \in Seq(Change), NEW i \in 1 .. Len(s)
    PROVE  /\ SubSeq(s, 1, i - 1) \in Seq(Change)
           /\ ReverseChange(x, s, i) =
                 [path |-> s[i].path, value |-> ApplyChanges(x, SubSeq(s, 1, i - 1))[s[i].path]]
           /\ ReverseChange(x, s, i) \in Change
<1>1. Len(s) \in Nat /\ s[i] \in Change
  BY LenProperties, ElementOfSeq
<1>2. SubSeq(s, 1, i - 1) \in Seq(Change)
  BY <1>1, SubSeqProperties, ElementOfSeq
<1>3. ApplyChanges(x, SubSeq(s, 1, i - 1)) \in Contents
  BY <1>2, ApplyChangesFolds
<1>4. QED
  BY <1>1, <1>2, <1>3 DEF ReverseChange, Change, Contents

\* What ReverseChanges reverses is a sequence of changes.
LEMMA ReversedType ==
    ASSUME NEW x \in Contents, NEW s \in Seq(Change)
    PROVE  /\ [i \in DOMAIN s |-> ReverseChange(x, s, i)] \in Seq(Change)
           /\ Len([i \in DOMAIN s |-> ReverseChange(x, s, i)]) = Len(s)
           /\ ReverseChanges(x, s) \in Seq(Change)
<1> DEFINE r == [i \in DOMAIN s |-> ReverseChange(x, s, i)]
<1>1. Len(s) \in Nat /\ DOMAIN s = 1 .. Len(s)
  BY LenProperties
<1>2. \A i \in 1 .. Len(s) : ReverseChange(x, s, i) \in Change
  BY ReverseChangeType
<1>3. r \in [1 .. Len(s) -> Change]
  BY <1>1, <1>2
<1>4. r \in Seq(Change)
  BY <1>1, <1>3, SeqDef
<1>5. DOMAIN r = 1 .. Len(s) /\ DOMAIN r = 1 .. Len(r) /\ Len(r) \in Nat
  BY <1>1, <1>4, LenProperties
<1>6. Len(r) = Len(s)
  BY <1>1, <1>5
<1> HIDE DEF r
<1>7. Reverse(r) \in Seq(Change)
  BY <1>4, ReverseProperties
<1>8. QED
  BY <1>4, <1>6, <1>7 DEF r, ReverseChanges

\* The last change is the first to be taken back.
LEMMA ReverseChangesOfLast ==
    ASSUME NEW x \in Contents, NEW s \in Seq(Change), NEW e \in Change
    PROVE  LET u == ReverseChanges(x, Append(s, e)) IN
           /\ u \in Seq(Change) /\ u # <<>>
           /\ Head(u) = [path |-> e.path, value |-> ApplyChanges(x, s)[e.path]]
           /\ Tail(u) = ReverseChanges(x, s)
<1> DEFINE t == Append(s, e)
           n == Len(s)
           c == [path |-> e.path, value |-> ApplyChanges(x, s)[e.path]]
           r == [i \in DOMAIN s |-> ReverseChange(x, s, i)]
           q == [i \in DOMAIN t |-> ReverseChange(x, t, i)]
<1>1. /\ n \in Nat /\ DOMAIN s = 1 .. n /\ t \in Seq(Change) /\ Len(t) = n + 1 /\ t[n + 1] = e
      /\ DOMAIN t = 1 .. n + 1 /\ \A i \in 1 .. n : t[i] = s[i]
  BY LenProperties, AppendProperties
<1>2. \A i \in 1 .. n + 1 : i - 1 \in 0 .. n /\ SubSeq(t, 1, i - 1) = SubSeq(s, 1, i - 1)
  <2>1. ASSUME NEW i \in 1 .. n + 1 PROVE i - 1 \in 0 .. n
    BY <1>1
  <2>2. QED BY <2>1, SubSeqOfAppend
<1>3. c \in Change
  BY ApplyChangesFolds DEF Change, Contents
<1> HIDE DEF t
<1>4. r \in Seq(Change) /\ Len(r) = n
  BY ReversedType
<1>5. q \in Seq(Change) /\ Len(q) = n + 1
  BY <1>1, ReversedType
<1>6. ASSUME NEW i \in 1 .. n PROVE q[i] = r[i]
  <2>1. i \in DOMAIN s /\ i \in DOMAIN t /\ i \in 1 .. n + 1 /\ t[i] = s[i]
    BY <1>1
  <2>2. q[i] = ReverseChange(x, t, i) /\ r[i] = ReverseChange(x, s, i)
    BY <2>1
  <2>3. ReverseChange(x, t, i) = ReverseChange(x, s, i)
    BY <1>2, <2>1 DEF ReverseChange
  <2>4. QED BY <2>2, <2>3
<1>7. q[n + 1] = c
  <2>1. n + 1 \in 1 .. n + 1 /\ (n + 1) - 1 = n /\ n + 1 \in DOMAIN t
    BY <1>1
  <2>2. SubSeq(t, 1, (n + 1) - 1) = s
    <3>1. SubSeq(t, 1, (n + 1) - 1) = SubSeq(s, 1, n)
      BY <1>2, <2>1
    <3>2. QED BY <3>1, SubSeqFull
  <2>3. q[n + 1] = ReverseChange(x, t, n + 1)
    BY <2>1
  <2>4. ReverseChange(x, t, n + 1) = c
    BY <1>1, <2>2 DEF ReverseChange
  <2>5. QED BY <2>3, <2>4
<1> HIDE DEF q, r, c, n
<1>8. q = Append(r, c)
  <2>1. /\ Append(r, c) \in Seq(Change) /\ Len(Append(r, c)) = n + 1 /\ Append(r, c)[n + 1] = c
        /\ \A i \in 1 .. n : Append(r, c)[i] = r[i]
    BY <1>3, <1>4, AppendProperties
  <2>2. \A i \in 1 .. n + 1 : q[i] = Append(r, c)[i]
    BY <1>1, <1>6, <1>7, <2>1
  <2>3. QED BY <1>5, <2>1, <2>2, SeqEqual
<1>9. ReverseChanges(x, t) = Reverse(q) /\ ReverseChanges(x, s) = Reverse(r)
  BY DEF ReverseChanges, q, r
<1>10. /\ Reverse(Append(r, c)) \in Seq(Change) /\ Reverse(Append(r, c)) # <<>>
       /\ Head(Reverse(Append(r, c))) = c /\ Tail(Reverse(Append(r, c))) = Reverse(r)
  BY <1>3, <1>4, ReverseOfAppend
<1>11. QED
  BY <1>8, <1>9, <1>10 DEF t, c

\* A change and then what was there before.
LEMMA ChangeTakenBack ==
    ASSUME NEW y \in Contents, NEW e \in Change
    PROVE  ApplyChange(ApplyChange(y, e), [path |-> e.path, value |-> y[e.path]]) = y
<1> DEFINE z == [y EXCEPT ![e.path] = e.value]
           b == [z EXCEPT ![e.path] = y[e.path]]
<1>1. y \in [Paths -> Values] /\ e.path \in Paths
  BY DEF Contents, Change
<1>2. DOMAIN b = Paths /\ \A p \in Paths : b[p] = y[p]
  BY <1>1
<1>3. b = y
  BY <1>1, <1>2
<1>4. QED
  BY <1>3 DEF ApplyChange

\* Changes and then what CommitUndo keeps to take them back leave the content as
\* it was, also when one of them writes a path another has written.
THEOREM TakenBack ==
    ASSUME NEW x \in Contents, NEW s \in Seq(Change)
    PROVE  ApplyChanges(ApplyChanges(x, s), ReverseChanges(x, s)) = x
<1> DEFINE Back(u) == ApplyChanges(ApplyChanges(x, u), ReverseChanges(x, u)) = x
           S == {n \in Nat : n <= Len(s) => Back(SubSeq(s, 1, n))}
<1>1. Len(s) \in Nat
  BY LenProperties
<1>2. 0 \in S
  <2> DEFINE z == <<>>
  <2>1. SubSeq(s, 1, 0) = z
    BY SubSeqEmpty
  <2>2. z \in Seq(Change)
    BY EmptySeq
  <2>3. Len(ReverseChanges(x, z)) = 0 /\ ReverseChanges(x, z) \in Seq(Change)
    BY <2>2, ReversedType, ReverseProperties, EmptySeq DEF ReverseChanges
  <2>4. ReverseChanges(x, z) = <<>>
    BY <2>3, EmptySeq
  <2>5. ApplyChanges(x, z) = x
    BY ApplyNothing
  <2> HIDE DEF z
  <2>6. Back(z)
    BY <2>4, <2>5, ApplyNothing
  <2>7. QED BY <2>1, <2>6
<1>3. ASSUME NEW n \in Nat, n \in S PROVE n + 1 \in S
  <2> SUFFICES ASSUME n + 1 <= Len(s) PROVE Back(SubSeq(s, 1, n + 1))
    OBVIOUS
  <2> DEFINE u == SubSeq(s, 1, n)
             e == s[n + 1]
             y == ApplyChanges(x, u)
             t == Append(u, e)
             v == ReverseChanges(x, t)
  <2>1. u \in Seq(Change) /\ e \in Change /\ SubSeq(s, 1, n + 1) = t
    BY <1>1, SubSeqGrows
  <2>2. Back(u)
    BY <1>1, <1>3
  <2> HIDE DEF u, e
  <2>3. y \in Contents
    BY <2>1, ApplyChangesFolds
  <2>4. ApplyChanges(x, t) = ApplyChange(y, e)
    BY <2>1, ApplyLast
  <2>5. v \in Seq(Change) /\ v # <<>> /\ Head(v) = [path |-> e.path, value |-> y[e.path]]
        /\ Tail(v) = ReverseChanges(x, u)
    BY <2>1, ReverseChangesOfLast
  <2> HIDE DEF y, v
  <2>6. ApplyChange(y, e) \in Contents /\ ApplyChange(ApplyChange(y, e), Head(v)) = y
    <3>1. ApplyChange(y, e) \in Contents
      BY <2>1, <2>3 DEF ApplyChange, Contents, Change
    <3>2. QED BY <2>1, <2>3, <2>5, <3>1, ChangeTakenBack
  <2>7. ApplyChanges(ApplyChange(y, e), v) = ApplyChanges(y, Tail(v))
    BY <2>5, <2>6, ApplyFirst
  <2>8. QED BY <2>1, <2>2, <2>4, <2>5, <2>7 DEF y, v
<1> HIDE DEF S
<1>4. Len(s) \in S
  BY <1>1, <1>2, <1>3, Induction
<1>5. SubSeq(s, 1, Len(s)) = s
  BY SubSeqFull
<1>6. Back(SubSeq(s, 1, Len(s)))
  BY <1>1, <1>4 DEF S
<1>7. QED
  BY <1>5, <1>6

-----------------------------------------------------------------------------
(* Documents.                                                               *)

Undoing == [x \in Contents |-> [changes \in Seq(Change) |-> ApplyChanges(x, changes)]]

\* Undoing gives a content.
LEMMA UndoingSteps == Undoing \in Steps(Contents, Seq(Change))
  BY ApplyChangesFolds DEF Undoing, Steps

\* All that is in the undo list is taken back, the last first.
LEMMA UnwoundFolds ==
    ASSUME NEW x \in Contents, NEW s \in Seq(Seq(Change))
    PROVE  /\ FoldLeft(ApplyChanges, x, s) = Folded(Undoing, x, s)
           /\ FoldLeft(ApplyChanges, x, s) \in Contents
<1> DEFINE Is(k) == k = [t \in SUBSET DOMAIN s |->
                            IF t = {} THEN x ELSE ApplyChanges(k[t \ {Max(t)}], s[Max(t)])]
<1>1. PICK g : FoldOf(g, Contents, Undoing, x, s)
  BY UndoingSteps, FoldExists DEF Steps
<1>2. FoldValues(g, Contents, Seq(Change), Undoing, x, s)
  BY <1>1, UndoingSteps, FoldFacts
<1>3. \A t \in SUBSET DOMAIN s : t # {} => g[t] = ApplyChanges(g[t \ {Max(t)}], s[Max(t)])
  BY <1>2 DEF Undoing, FoldValues
<1>4. Is(g)
  BY <1>2, <1>3 DEF FoldValues
<1>5. ASSUME NEW k, Is(k) PROVE k = g
  <2>1. Alike(k, g, s)
    BY <1>2, <1>3, <1>5 DEF Alike, FoldValues
  <2> HIDE DEF Is
  <2>2. QED BY <2>1, SameFold
<1>6. (CHOOSE k : Is(k)) = g
  BY <1>4, <1>5
<1>7. FoldLeft(ApplyChanges, x, s) = (CHOOSE k : Is(k))[DOMAIN s]
  BY DEF FoldLeft, MapThenFoldSet
<1> HIDE DEF Is
<1>8. Folded(Undoing, x, s) = g[DOMAIN s] /\ g[DOMAIN s] \in Contents
  BY <1>1, UndoingSteps, FoldedIs
<1>9. QED
  BY <1>6, <1>7, <1>8

\* The content x once all of s is taken back.
Unwind(x, s) == FoldLeft(ApplyChanges, x, Reverse(s))

\* What was written last is taken back first.
LEMMA UnwoundByOne ==
    ASSUME NEW x \in Contents, NEW s \in Seq(Seq(Change)), NEW u \in Seq(Change)
    PROVE  Unwind(x, Append(s, u)) = Unwind(ApplyChanges(x, u), s)
<1> DEFINE r == Reverse(Append(s, u))
<1>1. r \in Seq(Seq(Change)) /\ r # <<>> /\ Head(r) = u /\ Tail(r) = Reverse(s)
  BY ReverseOfAppend
<1> HIDE DEF r
<1>2. Reverse(s) \in Seq(Seq(Change))
  BY ReverseProperties
<1>3. ApplyChanges(x, u) \in Contents /\ Undoing[x][u] = ApplyChanges(x, u)
  BY ApplyChangesFolds DEF Undoing
<1>4. Folded(Undoing, x, r) = Folded(Undoing, Undoing[x][Head(r)], Tail(r))
  BY <1>1, UndoingSteps, FoldedHead
<1>5. Unwind(x, Append(s, u)) = Folded(Undoing, x, r)
  BY <1>1, UnwoundFolds DEF r, Unwind
<1>6. Unwind(ApplyChanges(x, u), s) = Folded(Undoing, ApplyChanges(x, u), Reverse(s))
  BY <1>2, <1>3, UnwoundFolds DEF Unwind
<1>7. QED
  BY <1>1, <1>3, <1>4, <1>5, <1>6

\* An empty file is one of the contents.
LEMMA EmptyFileType == EmptyFile \in Contents
  BY DocumentAssumption DEF EmptyFile, Contents

\* Changes are kept in the undo list as what takes them back.
LEMMA ChangedDocument ==
    ASSUME NEW d \in Document, NEW changes \in Seq(Change)
    PROVE  LET e == Changed(d, changes) IN
           /\ e \in Document /\ e.state = d.state /\ e.content = ApplyChanges(d.content, changes)
           /\ Unwound(e) = Unwound(d) /\ e.undo # d.undo
<1> DEFINE y == ApplyChanges(d.content, changes)
           u == ReverseChanges(d.content, changes)
           e == Changed(d, changes)
<1>1. d.content \in Contents /\ d.undo \in Seq(Seq(Change)) /\ d.redo \in Seq(Seq(Change))
  BY DEF Document
<1>2. y \in Contents /\ u \in Seq(Change) /\ ApplyChanges(y, u) = d.content
  BY <1>1, ApplyChangesFolds, ReversedType, TakenBack
<1>3. /\ Append(d.undo, u) \in Seq(Seq(Change)) /\ Len(Append(d.undo, u)) = Len(d.undo) + 1
      /\ Len(d.undo) \in Nat
  BY <1>1, <1>2, AppendProperties, LenProperties
<1>4. e = [d EXCEPT !.content = y, !.undo = Append(d.undo, u)]
  BY DEF Changed
<1> HIDE DEF y, u, e
<1>5. /\ e \in Document /\ e.state = d.state /\ e.content = y /\ e.undo = Append(d.undo, u)
  BY <1>2, <1>3, <1>4 DEF Document
<1>6. Unwound(e) = Unwound(d)
  <2>1. Unwound(e) = Unwind(y, Append(d.undo, u)) /\ Unwound(d) = Unwind(d.content, d.undo)
    BY <1>5 DEF Unwound, Unwind
  <2>2. QED BY <1>1, <1>2, <2>1, UnwoundByOne
<1>7. e.undo # d.undo
  BY <1>3, <1>5
<1>8. QED
  BY <1>5, <1>6, <1>7 DEF y, e

\* An undo applies the last entry of the undo list and drops it.
LEMMA UndoneDocument ==
    ASSUME NEW d \in Document, d.undo # <<>>
    PROVE  LET e == UndoChanges(d) IN
           /\ Last(d.undo) \in Seq(Change)
           /\ e \in Document /\ e.state = d.state /\ e.content = ApplyChanges(d.content, Last(d.undo))
           /\ Unwound(e) = Unwound(d) /\ e.undo # d.undo
<1> DEFINE l == Last(d.undo)
           f == Front(d.undo)
           y == ApplyChanges(d.content, l)
           u == ReverseChanges(d.content, l)
           e == UndoChanges(d)
<1>1. d.content \in Contents /\ d.undo \in Seq(Seq(Change)) /\ d.redo \in Seq(Seq(Change))
  BY DEF Document
<1>2. /\ l \in Seq(Change) /\ f \in Seq(Seq(Change)) /\ d.undo = Append(f, l)
      /\ Len(f) = Len(d.undo) - 1 /\ Len(d.undo) \in Nat
  BY <1>1, FrontAndLast, LenProperties
<1>3. y \in Contents /\ u \in Seq(Change)
  BY <1>1, <1>2, ApplyChangesFolds, ReversedType
<1>4. Append(d.redo, u) \in Seq(Seq(Change))
  BY <1>1, <1>3, AppendProperties
<1>5. e = [d EXCEPT !.content = y, !.undo = f, !.redo = Append(d.redo, u)]
  BY DEF UndoChanges
<1> HIDE DEF l, f, y, u, e
<1>6. /\ e \in Document /\ e.state = d.state /\ e.content = y /\ e.undo = f
  BY <1>2, <1>3, <1>4, <1>5 DEF Document
<1>7. Unwound(e) = Unwound(d)
  <2>1. Unwound(e) = Unwind(y, f) /\ Unwound(d) = Unwind(d.content, d.undo)
    BY <1>6 DEF Unwound, Unwind
  <2>2. Unwind(d.content, Append(f, l)) = Unwind(y, f)
    BY <1>1, <1>2, UnwoundByOne DEF y
  <2>3. QED BY <1>2, <2>1, <2>2
<1>8. e.undo # d.undo
  BY <1>2, <1>6
<1>9. QED
  BY <1>2, <1>6, <1>7, <1>8 DEF l, y, e

\* A redo applies the last entry of the redo list and keeps what takes it back.
LEMMA RedoneDocument ==
    ASSUME NEW d \in Document, d.redo # <<>>
    PROVE  LET e == RedoChanges(d) IN
           /\ Last(d.redo) \in Seq(Change)
           /\ e \in Document /\ e.state = d.state /\ e.content = ApplyChanges(d.content, Last(d.redo))
           /\ Unwound(e) = Unwound(d) /\ e.undo # d.undo
<1> DEFINE l == Last(d.redo)
           f == Front(d.redo)
           y == ApplyChanges(d.content, l)
           u == ReverseChanges(d.content, l)
           e == RedoChanges(d)
<1>1. d.content \in Contents /\ d.undo \in Seq(Seq(Change)) /\ d.redo \in Seq(Seq(Change))
  BY DEF Document
<1>2. l \in Seq(Change) /\ f \in Seq(Seq(Change))
  BY <1>1, FrontAndLast
<1>3. y \in Contents /\ u \in Seq(Change) /\ ApplyChanges(y, u) = d.content
  BY <1>1, <1>2, ApplyChangesFolds, ReversedType, TakenBack
<1>4. /\ Append(d.undo, u) \in Seq(Seq(Change)) /\ Len(Append(d.undo, u)) = Len(d.undo) + 1
      /\ Len(d.undo) \in Nat
  BY <1>1, <1>3, AppendProperties, LenProperties
<1>5. e = [d EXCEPT !.content = y, !.redo = f, !.undo = Append(d.undo, u)]
  BY DEF RedoChanges
<1> HIDE DEF l, f, y, u, e
<1>6. /\ e \in Document /\ e.state = d.state /\ e.content = y /\ e.undo = Append(d.undo, u)
  BY <1>2, <1>3, <1>4, <1>5 DEF Document
<1>7. Unwound(e) = Unwound(d)
  <2>1. Unwound(e) = Unwind(y, Append(d.undo, u)) /\ Unwound(d) = Unwind(d.content, d.undo)
    BY <1>6 DEF Unwound, Unwind
  <2>2. QED BY <1>1, <1>3, <2>1, UnwoundByOne
<1>8. e.undo # d.undo
  BY <1>4, <1>6
<1>9. QED
  BY <1>2, <1>6, <1>7, <1>8 DEF l, y, e

\* Saving and loading leave the undo list as it is.
LEMMA SavedDocument ==
    ASSUME NEW d \in Document
    PROVE  /\ Saved(d) \in Document /\ Saved(d).content = d.content /\ Saved(d).undo = d.undo
           /\ Saved(d).state = IF d.state = "kLoadFailure" THEN "kLoaded" ELSE d.state
  BY DEF Saved, Document

\* A file that can be parsed is what the document holds, any other leaves it empty.
LEMMA LoadedDocument ==
    ASSUME NEW d \in Document, NEW file \in Contents \cup {Damaged}
    PROVE  Loaded(d, file) \in Document /\ Loaded(d, file).undo = d.undo
  BY EmptyFileType DEF Loaded, Document

\* A document that was just opened has nothing to undo.
LEMMA OpenedDocument ==
    ASSUME NEW file \in Contents \cup {Damaged}
    PROVE  NewDocument(file) \in Document /\ Unwound(NewDocument(file)) = NewDocument(file).content
<1> DEFINE d == NewDocument(file)
           z == <<>>
<1>1. z \in Seq(Seq(Change)) /\ z \in Seq(Change)
  BY EmptySeq
<1>2. /\ d.undo = z /\ d.redo = z /\ d.content \in Contents /\ d.state \in {"kLoaded", "kLoadFailure"}
      /\ d = [state |-> d.state, content |-> d.content, undo |-> z, redo |-> z]
  <2> DEFINE n == [state |-> "kLoading", content |-> EmptyFile, undo |-> z, redo |-> z]
             state == IF file = Damaged THEN "kLoadFailure" ELSE "kLoaded"
             content == IF file = Damaged THEN EmptyFile ELSE file
  <2>1. d = [n EXCEPT !.state = state, !.content = content]
    BY DEF NewDocument, Loaded
  <2>2. content \in Contents /\ state \in {"kLoaded", "kLoadFailure"}
    BY EmptyFileType
  <2> HIDE DEF z, state, content, d
  <2>3. d = [state |-> state, content |-> content, undo |-> z, redo |-> z]
    BY <2>1
  <2>4. QED BY <2>2, <2>3
<1>3. Reverse(z) = <<>>
  <2>1. Reverse(z) \in Seq(Change) /\ Len(Reverse(z)) = 0
    BY <1>1, EmptySeq, ReverseProperties
  <2>2. QED BY <2>1, EmptySeq
<1> HIDE DEF d
<1>4. d \in Document
  BY <1>1, <1>2 DEF Document
<1>5. Unwound(d) = FoldLeft(ApplyChanges, d.content, z)
  BY <1>2, <1>3 DEF Unwound
<1>6. FoldLeft(ApplyChanges, d.content, z) = Folded(Undoing, d.content, <<>>)
  BY <1>1, <1>2, UnwoundFolds
<1>7. Folded(Undoing, d.content, <<>>) = d.content
  BY <1>2, UndoingSteps, FoldedOfNothing
<1>8. QED
  BY <1>4, <1>5, <1>6, <1>7 DEF d

-----------------------------------------------------------------------------
(* Messages and tabs.                                                       *)

Conn == [client : Clients, id : Nat]

Message ==
    [type : {"kDocumentState"}, state : {"kLoading", "kLoaded", "kLoadFailure"}, content : Contents]
    \cup [type : {"kChange"}, changes : Seq(Change)]

Letter == [id : Nat, message : Message]

Command ==
    [type : {"kOpen", "kClose", "kSave", "kUndo", "kRedo", "kDisconnected"}, id : Nat]
    \cup [type : {"kChange"}, id : Nat, changes : Seq(Change)]

\* What the server tells is a message.
LEMMA MessageTypes ==
    /\ \A state \in {"kLoading", "kLoaded", "kLoadFailure"}, content \in Contents :
          StateMessage(state, content) \in Message
    /\ \A changes \in Seq(Change) : ChangeMessage(changes) \in Message
    /\ \A d \in Document : OpeningState(d) \in Message
  BY DEF StateMessage, ChangeMessage, OpeningState, Message, Document

\* A tab after a message about its state.
LEMMA HandledState ==
    ASSUME NEW tab \in Tab, NEW state \in {"kLoading", "kLoaded", "kLoadFailure"}, NEW content \in Contents
    PROVE  LET t == HandleMessage(tab, StateMessage(state, content)) IN
           /\ t \in Tab /\ t.state = state
           /\ IF state = "kLoaded" THEN t.serverCopy = content /\ t.clientCopy = content /\ t.hotSpots = {}
              ELSE /\ t.serverCopy = tab.serverCopy /\ t.clientCopy = tab.clientCopy
                   /\ t.hotSpots = tab.hotSpots
  BY DEF HandleMessage, StateMessage, GotDocumentStateChange, Tab

\* A tab after changes: outside the paths that were hot or written it keeps its copy.
LEMMA HandledChange ==
    ASSUME NEW tab \in Tab, NEW changes \in Seq(Change)
    PROVE  LET t == HandleMessage(tab, ChangeMessage(changes)) IN
           /\ t \in Tab /\ t.state = tab.state /\ t.hotSpots = {}
           /\ t.serverCopy = ApplyChanges(tab.serverCopy, changes)
           /\ \A p \in Paths : t.clientCopy[p] = IF p \in tab.hotSpots \cup PathsOf(changes)
                                                 THEN t.serverCopy[p] ELSE tab.clientCopy[p]
<1> DEFINE y == ApplyChanges(tab.serverCopy, changes)
           h == tab.hotSpots \cup PathsOf(changes)
           u == [tab EXCEPT !.serverCopy = y, !.hotSpots = h]
           v == [p \in Paths |-> IF p \in h THEN y[p] ELSE tab.clientCopy[p]]
           t == HandleMessage(tab, ChangeMessage(changes))
<1>1. y \in Contents /\ tab.clientCopy \in Contents
  BY ApplyChangesFolds DEF Tab
<1>2. h \in SUBSET Paths
  <2>1. \A i \in DOMAIN changes : changes[i] \in Change
    BY ElementOfSeq, LenProperties
  <2>2. QED BY <2>1 DEF PathsOf, Change, Tab
<1>3. v \in Contents
  BY <1>1 DEF Contents
<1>4. t = SyncHotSpots(u)
  BY DEF HandleMessage, ChangeMessage, GotChanges, PathsOf
<1> HIDE DEF y, h
<1>5. /\ u.serverCopy = y /\ u.hotSpots = h /\ u.clientCopy = tab.clientCopy /\ u.state = tab.state
      /\ u \in Tab
  BY <1>1, <1>2 DEF Tab
<1> HIDE DEF u, t
<1>6. t = [u EXCEPT !.clientCopy = v, !.hotSpots = {}]
  BY <1>4, <1>5 DEF SyncHotSpots
<1> HIDE DEF v
<1>7. /\ t \in Tab /\ t.state = tab.state /\ t.hotSpots = {} /\ t.serverCopy = y /\ t.clientCopy = v
  BY <1>3, <1>5, <1>6 DEF Tab
<1>8. QED
  BY <1>7 DEF v, y, h, t

\* The messages of a tab, and that handling one gives a tab.
LEMMA HandledType ==
    ASSUME NEW tab \in Tab, NEW m \in Message
    PROVE  /\ HandleMessage(tab, m) \in Tab
           /\ \/ \E state \in {"kLoading", "kLoaded", "kLoadFailure"}, content \in Contents :
                    m = StateMessage(state, content)
              \/ \E changes \in Seq(Change) : m = ChangeMessage(changes)
<1>1. \/ \E state \in {"kLoading", "kLoaded", "kLoadFailure"}, content \in Contents :
            m = StateMessage(state, content)
      \/ \E changes \in Seq(Change) : m = ChangeMessage(changes)
  BY DEF Message, StateMessage, ChangeMessage
<1>2. QED
  BY <1>1, HandledState, HandledChange

-----------------------------------------------------------------------------
(* Reading what is on its way.                                              *)

\* What a tab becomes once it has read the letters for id in pipe: CaughtUp.
Reads(tab, id, pipe) ==
    FoldLeft(LAMBDA t, m : IF m.id = id THEN HandleMessage(t, m.message) ELSE t, tab, pipe)

Reading(id) ==
    [tab \in Tab |-> [m \in Letter |-> IF m.id = id THEN HandleMessage(tab, m.message) ELSE tab]]

\* Reading a letter gives a tab.
LEMMA ReadingSteps == \A id : Reading(id) \in Steps(Tab, Letter)
<1>1. \A tab \in Tab, m \in Letter : HandleMessage(tab, m.message) \in Tab
  BY HandledType DEF Letter
<1>2. QED
  BY <1>1 DEF Reading, Steps

\* Letters are read one after the other.
LEMMA ReadsFolds ==
    ASSUME NEW tab \in Tab, NEW id, NEW s \in Seq(Letter)
    PROVE  Reads(tab, id, s) = Folded(Reading(id), tab, s) /\ Reads(tab, id, s) \in Tab
<1> DEFINE Is(k) == k = [t \in SUBSET DOMAIN s |->
                            IF t = {} THEN tab
                            ELSE IF s[Max(t)].id = id THEN HandleMessage(k[t \ {Max(t)}], s[Max(t)].message)
                            ELSE k[t \ {Max(t)}]]
           step == Reading(id)
<1>0. step \in Steps(Tab, Letter)
  BY ReadingSteps
<1> HIDE DEF step
<1>1. PICK g : FoldOf(g, Tab, step, tab, s)
  BY <1>0, FoldExists DEF Steps
<1>2. FoldValues(g, Tab, Letter, step, tab, s)
  BY <1>0, <1>1, FoldFacts
<1>3. \A t \in SUBSET DOMAIN s : t # {} =>
         g[t] = IF s[Max(t)].id = id THEN HandleMessage(g[t \ {Max(t)}], s[Max(t)].message)
                ELSE g[t \ {Max(t)}]
  BY <1>2 DEF Reading, FoldValues, step
<1>4. Is(g)
  BY <1>2, <1>3 DEF FoldValues
<1>5. ASSUME NEW k, Is(k) PROVE k = g
  <2>1. Alike(k, g, s)
    BY <1>2, <1>3, <1>5 DEF Alike, FoldValues
  <2> HIDE DEF Is
  <2>2. QED BY <2>1, SameFold
<1>6. (CHOOSE k : Is(k)) = g
  BY <1>4, <1>5
<1>7. Reads(tab, id, s) = (CHOOSE k : Is(k))[DOMAIN s]
  BY DEF Reads, FoldLeft, MapThenFoldSet
<1> HIDE DEF Is
<1>8. Folded(step, tab, s) = g[DOMAIN s] /\ g[DOMAIN s] \in Tab
  BY <1>0, <1>1, FoldedIs
<1>9. QED
  BY <1>6, <1>7, <1>8 DEF step

\* No letters, a last one, a first one.
LEMMA ReadsNothing ==
    ASSUME NEW tab \in Tab, NEW id
    PROVE  Reads(tab, id, <<>>) = tab
<1>1. <<>> \in Seq(Letter)
  BY EmptySeq
<1> DEFINE step == Reading(id)
<1>2. step \in Steps(Tab, Letter)
  BY ReadingSteps
<1>3. Reads(tab, id, <<>>) = Folded(step, tab, <<>>)
  BY <1>1, ReadsFolds
<1> HIDE DEF step
<1>4. QED
  BY <1>2, <1>3, FoldedOfNothing

\* The last letter is read last.
LEMMA ReadsLast ==
    ASSUME NEW tab \in Tab, NEW id, NEW s \in Seq(Letter), NEW m \in Letter
    PROVE  Reads(tab, id, Append(s, m)) =
           IF m.id = id THEN HandleMessage(Reads(tab, id, s), m.message) ELSE Reads(tab, id, s)
<1>1. Append(s, m) \in Seq(Letter)
  BY AppendProperties
<1>2. /\ Reads(tab, id, Append(s, m)) = Folded(Reading(id), tab, Append(s, m))
      /\ Reads(tab, id, s) = Folded(Reading(id), tab, s) /\ Reads(tab, id, s) \in Tab
  BY <1>1, ReadsFolds
<1>3. Folded(Reading(id), tab, Append(s, m)) = Reading(id)[Folded(Reading(id), tab, s)][m]
  BY ReadingSteps, FoldedAppend
<1>4. QED
  BY <1>2, <1>3 DEF Reading

\* The first letter is read first.
LEMMA ReadsFirst ==
    ASSUME NEW tab \in Tab, NEW id, NEW s \in Seq(Letter), s # <<>>
    PROVE  LET t == IF Head(s).id = id THEN HandleMessage(tab, Head(s).message) ELSE tab IN
           /\ Head(s) \in Letter /\ Tail(s) \in Seq(Letter) /\ t \in Tab
           /\ Reads(tab, id, s) = Reads(t, id, Tail(s))
<1> DEFINE step == Reading(id)
<1>0. step \in Steps(Tab, Letter)
  BY ReadingSteps
<1>1. /\ Head(s) \in Letter /\ Tail(s) \in Seq(Letter) /\ step[tab][Head(s)] \in Tab
      /\ Folded(step, tab, s) = Folded(step, step[tab][Head(s)], Tail(s))
  <2> HIDE DEF step
  <2>1. QED BY <1>0, FoldedHead
<1>2. step[tab][Head(s)] = IF Head(s).id = id THEN HandleMessage(tab, Head(s).message) ELSE tab
  BY <1>1 DEF Reading
<1> HIDE DEF step
<1>3. /\ Reads(tab, id, s) = Folded(step, tab, s)
      /\ Reads(step[tab][Head(s)], id, Tail(s)) = Folded(step, step[tab][Head(s)], Tail(s))
  BY <1>1, ReadsFolds DEF step
<1>4. QED
  BY <1>1, <1>2, <1>3

\* A tab to which nothing is on its way stays as it is.
LEMMA ReadsElsewhere ==
    ASSUME NEW tab \in Tab, NEW id, NEW s \in Seq(Letter), \A i \in DOMAIN s : s[i].id # id
    PROVE  Reads(tab, id, s) = tab
<1> DEFINE N == Len(s)
           step == Reading(id)
<1>1. N \in Nat /\ DOMAIN s = 1 .. N /\ step \in Steps(Tab, Letter)
  BY LenProperties, ReadingSteps
<1> HIDE DEF step
<1>2. PICK f : Accumulates(f, Tab, step, tab, s) /\ f[N] = Folded(step, tab, s)
  BY <1>1, FoldedStepwise
<1>3. /\ f[0] = tab /\ \A n \in 0 .. N : f[n] \in Tab
      /\ \A n \in 0 .. N - 1 : f[n + 1] = step[f[n]][s[n + 1]]
  BY <1>2 DEF Accumulates
<1> HIDE DEF N
<1> DEFINE S == {n \in Nat : n <= N => f[n] = tab}
<1>4. 0 \in S
  BY <1>3
<1>5. ASSUME NEW n \in Nat, n \in S PROVE n + 1 \in S
  <2> SUFFICES ASSUME n + 1 <= N PROVE f[n + 1] = tab
    OBVIOUS
  <2>1. n \in 0 .. N - 1 /\ n \in 0 .. N /\ n + 1 \in 1 .. N /\ n + 1 \in DOMAIN s
    BY <1>1
  <2>2. s[n + 1] \in Letter /\ s[n + 1].id # id
    BY <1>1, <2>1, ElementOfSeq DEF N
  <2>3. f[n] = tab
    BY <1>1, <1>5
  <2>4. QED BY <1>3, <2>1, <2>2, <2>3 DEF Reading, step
<1> HIDE DEF S
<1>6. N \in S
  BY <1>1, <1>4, <1>5, Induction
<1>7. f[N] = tab
  BY <1>1, <1>6 DEF S
<1>8. QED
  BY <1>2, <1>7, ReadsFolds DEF step

\* What a message makes of a tab's state and of its copy of the server's data does
\* not depend on the rest of the tab.
LEMMA HandledAlike ==
    ASSUME NEW t \in Tab, NEW u \in Tab, t.state = u.state, t.serverCopy = u.serverCopy, NEW m \in Message
    PROVE  /\ HandleMessage(t, m).state = HandleMessage(u, m).state
           /\ HandleMessage(t, m).serverCopy = HandleMessage(u, m).serverCopy
<1>1. CASE \E state \in {"kLoading", "kLoaded", "kLoadFailure"}, content \in Contents :
              m = StateMessage(state, content)
  <2>1. PICK state \in {"kLoading", "kLoaded", "kLoadFailure"}, content \in Contents :
                m = StateMessage(state, content)
    BY <1>1
  <2>2. QED BY <2>1, HandledState
<1>2. CASE \E changes \in Seq(Change) : m = ChangeMessage(changes)
  <2>1. PICK changes \in Seq(Change) : m = ChangeMessage(changes)
    BY <1>2
  <2>2. QED BY <2>1, HandledChange
<1>3. QED
  BY <1>1, <1>2, HandledType

\* Nor does what all letters make of them.
LEMMA ReadsAlike ==
    ASSUME NEW t \in Tab, NEW u \in Tab, t.state = u.state, t.serverCopy = u.serverCopy,
           NEW id, NEW s \in Seq(Letter)
    PROVE  /\ Reads(t, id, s).state = Reads(u, id, s).state
           /\ Reads(t, id, s).serverCopy = Reads(u, id, s).serverCopy
<1> DEFINE N == Len(s)
           step == Reading(id)
<1>1. N \in Nat /\ DOMAIN s = 1 .. N /\ step \in Steps(Tab, Letter)
  BY LenProperties, ReadingSteps
<1> HIDE DEF step
<1>2. PICK f : Accumulates(f, Tab, step, t, s) /\ f[N] = Folded(step, t, s)
  BY <1>1, FoldedStepwise
<1>3. PICK g : Accumulates(g, Tab, step, u, s) /\ g[N] = Folded(step, u, s)
  BY <1>1, FoldedStepwise
<1>4. /\ f[0] = t /\ g[0] = u /\ \A n \in 0 .. N : f[n] \in Tab /\ g[n] \in Tab
      /\ \A n \in 0 .. N - 1 : f[n + 1] = step[f[n]][s[n + 1]] /\ g[n + 1] = step[g[n]][s[n + 1]]
  BY <1>2, <1>3 DEF Accumulates
<1> HIDE DEF N
<1> DEFINE S == {n \in Nat : n <= N => f[n].state = g[n].state /\ f[n].serverCopy = g[n].serverCopy}
<1>5. 0 \in S
  BY <1>4
<1>6. ASSUME NEW n \in Nat, n \in S PROVE n + 1 \in S
  <2> SUFFICES ASSUME n + 1 <= N
               PROVE  f[n + 1].state = g[n + 1].state /\ f[n + 1].serverCopy = g[n + 1].serverCopy
    OBVIOUS
  <2> DEFINE m == s[n + 1]
  <2>1. n \in 0 .. N - 1 /\ n \in 0 .. N /\ n + 1 \in 1 .. N
    BY <1>1
  <2>2. m \in Letter /\ m.message \in Message
    <3>1. m \in Letter
      BY <1>1, <2>1, ElementOfSeq DEF N
    <3> HIDE DEF m
    <3>2. QED BY <3>1 DEF Letter
  <2>3. f[n] \in Tab /\ g[n] \in Tab /\ f[n].state = g[n].state /\ f[n].serverCopy = g[n].serverCopy
    BY <1>1, <1>4, <1>6, <2>1
  <2>4. /\ f[n + 1] = IF m.id = id THEN HandleMessage(f[n], m.message) ELSE f[n]
        /\ g[n + 1] = IF m.id = id THEN HandleMessage(g[n], m.message) ELSE g[n]
    BY <1>4, <2>1, <2>2, <2>3 DEF Reading, step
  <2> HIDE DEF m
  <2>5. QED BY <2>2, <2>3, <2>4, HandledAlike
<1> HIDE DEF S
<1>7. N \in S
  BY <1>1, <1>5, <1>6, Induction
<1>8. f[N].state = g[N].state /\ f[N].serverCopy = g[N].serverCopy
  BY <1>1, <1>7 DEF S
<1>9. QED
  BY <1>2, <1>3, <1>8, ReadsFolds DEF step

-----------------------------------------------------------------------------
(* Sending.                                                                 *)

Posting(c, message) ==
    [sent \in Seq(Letter) |-> [k \in Conn |->
        IF k.client = c THEN Append(sent, [id |-> k.id, message |-> message]) ELSE sent]]

\* Posting adds a letter to letters.
LEMMA PostingSteps ==
    ASSUME NEW c, NEW message \in Message
    PROVE  Posting(c, message) \in Steps(Seq(Letter), Conn)
<1>1. ASSUME NEW sent \in Seq(Letter), NEW k \in Conn
      PROVE  /\ [id |-> k.id, message |-> message] \in Letter
             /\ Append(sent, [id |-> k.id, message |-> message]) \in Seq(Letter)
  <2>1. [id |-> k.id, message |-> message] \in Letter
    BY DEF Conn, Letter
  <2>2. QED BY <2>1, AppendProperties
<1>2. QED
  BY <1>1 DEF Posting, Steps

\* A message is posted connection by connection.
LEMMA ForFolds ==
    ASSUME NEW c, NEW message \in Message, NEW s \in Seq(Conn), NEW pipe \in Seq(Letter)
    PROVE  /\ For(c, s, message, pipe) = Folded(Posting(c, message), pipe, s)
           /\ For(c, s, message, pipe) \in Seq(Letter)
<1> DEFINE Is(k) == k = [t \in SUBSET DOMAIN s |->
                            IF t = {} THEN pipe
                            ELSE IF s[Max(t)].client = c
                                 THEN Append(k[t \ {Max(t)}], [id |-> s[Max(t)].id, message |-> message])
                            ELSE k[t \ {Max(t)}]]
           step == Posting(c, message)
           A == Seq(Letter)
<1>0. step \in Steps(A, Conn)
  BY PostingSteps
<1> HIDE DEF step, A
<1>1. PICK g : FoldOf(g, A, step, pipe, s)
  BY <1>0, FoldExists DEF Steps, A
<1>2. FoldValues(g, A, Conn, step, pipe, s)
  BY <1>0, <1>1, FoldFacts DEF A
<1>3. \A t \in SUBSET DOMAIN s : t # {} =>
         g[t] = IF s[Max(t)].client = c
                THEN Append(g[t \ {Max(t)}], [id |-> s[Max(t)].id, message |-> message])
                ELSE g[t \ {Max(t)}]
  BY <1>2 DEF Posting, FoldValues, step, A
<1>4. Is(g)
  BY <1>2, <1>3 DEF FoldValues
<1>5. ASSUME NEW k, Is(k) PROVE k = g
  <2>1. Alike(k, g, s)
    BY <1>2, <1>3, <1>5 DEF Alike, FoldValues
  <2> HIDE DEF Is
  <2>2. QED BY <2>1, SameFold
<1>6. (CHOOSE k : Is(k)) = g
  BY <1>4, <1>5
<1>7. For(c, s, message, pipe) = (CHOOSE k : Is(k))[DOMAIN s]
  BY DEF For, FoldLeft, MapThenFoldSet
<1> HIDE DEF Is
<1>8. Folded(step, pipe, s) = g[DOMAIN s] /\ g[DOMAIN s] \in A
  BY <1>0, <1>1, FoldedIs DEF A
<1>9. QED
  BY <1>6, <1>7, <1>8 DEF step, A

\* The connection of client c for its tab id.
Entry(c, id) == [client |-> c, id |-> id]

\* The connection k is in s.
Among(k, s) == \E i \in DOMAIN s : s[i] = k

\* new is old and, after it, letters for connections of c in s.
Extended(new, old, c, s) ==
    /\ Len(old) <= Len(new)
    /\ \A i \in 1 .. Len(old) : new[i] = old[i]
    /\ \A i \in Len(old) + 1 .. Len(new) : Among(Entry(c, new[i].id), s)

\* For all of them.
Posted(new, old, c, s) ==
    /\ Extended(new, old, c, s)
    /\ \A j \in DOMAIN s : s[j].client = c => \E i \in Len(old) + 1 .. Len(new) : new[i].id = s[j].id

\* Posting adds letters at the end, for the connections of the client and no other.
LEMMA ForProperties ==
    ASSUME NEW c \in Clients, NEW message \in Message, NEW s \in Seq(Conn), NEW pipe \in Seq(Letter)
    PROVE  Posted(For(c, s, message, pipe), pipe, c, s)
<1> DEFINE N == Len(s)
           L == Len(pipe)
           step == Posting(c, message)
           A == Seq(Letter)
<1>1. N \in Nat /\ DOMAIN s = 1 .. N /\ step \in Steps(A, Conn) /\ L \in Nat
  BY LenProperties, PostingSteps
<1> HIDE DEF step, A
<1>2. PICK f : Accumulates(f, A, step, pipe, s) /\ f[N] = Folded(step, pipe, s)
  BY <1>1, FoldedStepwise DEF A
<1>3. /\ f[0] = pipe /\ \A n \in 0 .. N : f[n] \in A
      /\ \A n \in 0 .. N - 1 : f[n + 1] = step[f[n]][s[n + 1]]
  BY <1>2 DEF Accumulates
<1> HIDE DEF N, L
<1> DEFINE P(n) ==
              /\ L <= Len(f[n]) /\ Len(f[n]) \in Nat
              /\ \A i \in 1 .. L : f[n][i] = pipe[i]
              /\ \A i \in L + 1 .. Len(f[n]) :
                    \E j \in 1 .. n : s[j] = [client |-> c, id |-> f[n][i].id]
              /\ \A j \in 1 .. n : s[j].client = c => \E i \in L + 1 .. Len(f[n]) : f[n][i].id = s[j].id
           S == {n \in Nat : n <= N => P(n)}
<1>4. P(0)
  BY <1>1, <1>3 DEF L
<1>5. ASSUME NEW n \in Nat, n + 1 <= N, P(n) PROVE P(n + 1)
  <2> DEFINE k == s[n + 1]
             e == [id |-> k.id, message |-> message]
             a == f[n]
             b == f[n + 1]
  <2>1. n \in 0 .. N - 1 /\ n \in 0 .. N /\ n + 1 \in 1 .. N
    BY <1>1, <1>5
  <2>2. k \in Conn
    BY <1>1, <2>1, ElementOfSeq DEF N
  <2>3. a \in Seq(Letter)
    BY <1>3, <2>1 DEF A
  <2>4. b = IF k.client = c THEN Append(a, e) ELSE a
    BY <1>3, <2>1, <2>2, <2>3 DEF Posting, step
  <2>5. /\ L <= Len(a) /\ Len(a) \in Nat
        /\ \A i \in 1 .. L : a[i] = pipe[i]
        /\ \A i \in L + 1 .. Len(a) : \E j \in 1 .. n : s[j] = [client |-> c, id |-> a[i].id]
        /\ \A j \in 1 .. n : s[j].client = c => \E i \in L + 1 .. Len(a) : a[i].id = s[j].id
    BY <1>5
  <2>6. \A j \in 1 .. n + 1 : j \in 1 .. n \/ j = n + 1
    OBVIOUS
  <2>7. k = [client |-> k.client, id |-> k.id]
    BY <2>2 DEF Conn
  <2> HIDE DEF a, b
  <2>8. CASE k.client # c
    <3>1. b = a
      BY <2>4, <2>8
    <3>2. \A j \in 1 .. n : j \in 1 .. n + 1
      OBVIOUS
    <3>3. \A j \in 1 .. n + 1 : s[j].client = c => \E i \in L + 1 .. Len(a) : a[i].id = s[j].id
      BY <2>5, <2>6, <2>8
    <3>4. \A i \in L + 1 .. Len(a) : \E j \in 1 .. n + 1 : s[j] = [client |-> c, id |-> a[i].id]
      BY <2>5, <3>2
    <3>5. QED BY <2>5, <3>1, <3>3, <3>4 DEF b
  <2>9. CASE k.client = c
    <3>1. b = Append(a, e) /\ e \in Letter
      BY <2>2, <2>4, <2>9 DEF Letter, Conn
    <3>2. /\ Len(b) = Len(a) + 1 /\ b[Len(a) + 1] = e /\ \A i \in 1 .. Len(a) : b[i] = a[i]
      BY <2>3, <3>1, AppendProperties
    <3>3. e.id = k.id
      OBVIOUS
    <3> HIDE DEF e
    <3>4. ASSUME NEW i \in L + 1 .. Len(b)
          PROVE  \E j \in 1 .. n + 1 : s[j] = [client |-> c, id |-> b[i].id]
      <4>1. CASE i = Len(a) + 1
        <5>1. s[n + 1] = [client |-> c, id |-> b[i].id] /\ n + 1 \in 1 .. n + 1
          BY <2>7, <2>9, <3>2, <3>3, <4>1
        <5>2. QED BY <5>1
      <4>2. CASE i \in L + 1 .. Len(a)
        <5>1. b[i] = a[i]
          BY <1>1, <2>5, <3>2, <4>2
        <5>2. PICK j \in 1 .. n : s[j] = [client |-> c, id |-> a[i].id]
          BY <2>5, <4>2
        <5>3. j \in 1 .. n + 1
          OBVIOUS
        <5>4. QED BY <5>1, <5>2, <5>3
      <4>3. QED BY <1>1, <2>5, <3>2, <4>1, <4>2
    <3>5. ASSUME NEW j \in 1 .. n + 1, s[j].client = c
          PROVE  \E i \in L + 1 .. Len(b) : b[i].id = s[j].id
      <4>1. CASE j = n + 1
        <5>1. Len(a) + 1 \in L + 1 .. Len(b)
          BY <1>1, <2>5, <3>2
        <5>2. QED BY <3>2, <3>3, <4>1, <5>1
      <4>2. CASE j \in 1 .. n
        <5>1. PICK i \in L + 1 .. Len(a) : a[i].id = s[j].id
          BY <2>5, <3>5, <4>2
        <5>2. i \in L + 1 .. Len(b) /\ i \in 1 .. Len(a)
          BY <1>1, <2>5, <3>2
        <5>3. QED BY <3>2, <5>1, <5>2
      <4>3. QED BY <2>6, <4>1, <4>2
    <3>6. \A i \in 1 .. L : b[i] = pipe[i]
      BY <1>1, <2>5, <3>2
    <3>7. L <= Len(b) /\ Len(b) \in Nat
      BY <1>1, <2>5, <3>2
    <3>8. QED BY <3>4, <3>5, <3>6, <3>7 DEF b
  <2>10. QED BY <2>8, <2>9
<1> HIDE DEF P
<1>6. 0 \in S
  BY <1>4
<1>7. ASSUME NEW n \in Nat, n \in S PROVE n + 1 \in S
  BY <1>1, <1>5, <1>7
<1> HIDE DEF S
<1>8. N \in S
  BY <1>1, <1>6, <1>7, Induction
<1>9. P(N)
  BY <1>1, <1>8 DEF S
<1>10. For(c, s, message, pipe) = f[N]
  BY <1>2, ForFolds DEF step
<1> DEFINE F == f[N]
<1>11. /\ L <= Len(F) /\ \A i \in 1 .. L : F[i] = pipe[i]
       /\ \A i \in L + 1 .. Len(F) : \E j \in 1 .. N : s[j] = [client |-> c, id |-> F[i].id]
       /\ \A j \in 1 .. N : s[j].client = c => \E i \in L + 1 .. Len(F) : F[i].id = s[j].id
  BY <1>9 DEF P
<1> HIDE DEF F
<1>12. Posted(F, pipe, c, s)
  BY <1>1, <1>11 DEF Posted, Extended, Among, Entry, L
<1>13. QED
  BY <1>10, <1>12 DEF F

\* No connection is in the sequence twice.
Distinct(s) == \A i, j \in DOMAIN s : s[i] = s[j] => i = j

\* A tab reads a message that was posted once, if its connection is among those it
\* was posted for, and not otherwise.
LEMMA ReadsPosted ==
    ASSUME NEW c \in Clients, NEW id \in Nat, NEW message \in Message,
           NEW s \in Seq(Conn), Distinct(s), NEW pipe \in Seq(Letter), NEW tab \in Tab
    PROVE  Reads(tab, id, For(c, s, message, pipe)) =
           IF Among(Entry(c, id), s) THEN HandleMessage(Reads(tab, id, pipe), message)
           ELSE Reads(tab, id, pipe)
<1> DEFINE N == Len(s)
           me == [client |-> c, id |-> id]
           before == Reads(tab, id, pipe)
           after == HandleMessage(before, message)
           step == Posting(c, message)
           A == Seq(Letter)
<1>1. N \in Nat /\ DOMAIN s = 1 .. N /\ step \in Steps(A, Conn)
  BY LenProperties, PostingSteps
<1> HIDE DEF step, A
<1>2. PICK f : Accumulates(f, A, step, pipe, s) /\ f[N] = Folded(step, pipe, s)
  BY <1>1, FoldedStepwise DEF A
<1>3. /\ f[0] = pipe /\ \A n \in 0 .. N : f[n] \in A
      /\ \A n \in 0 .. N - 1 : f[n + 1] = step[f[n]][s[n + 1]]
  BY <1>2 DEF Accumulates
<1> HIDE DEF N, after, before
<1> DEFINE P(n) == Reads(tab, id, f[n]) = IF \E j \in 1 .. n : s[j] = me THEN after ELSE before
           S == {n \in Nat : n <= N => P(n)}
<1>4. P(0)
  BY <1>3 DEF before
<1>5. ASSUME NEW n \in Nat, n + 1 <= N, P(n) PROVE P(n + 1)
  <2> DEFINE k == s[n + 1]
             e == [id |-> k.id, message |-> message]
             a == f[n]
             b == f[n + 1]
  <2>1. n \in 0 .. N - 1 /\ n \in 0 .. N /\ n + 1 \in 1 .. N
    BY <1>1, <1>5
  <2>2. k \in Conn
    BY <1>1, <2>1, ElementOfSeq DEF N
  <2>3. a \in Seq(Letter)
    BY <1>3, <2>1 DEF A
  <2>4. b = IF k.client = c THEN Append(a, e) ELSE a
    BY <1>3, <2>1, <2>2, <2>3 DEF Posting, step
  <2>5. /\ \A j \in 1 .. n + 1 : j \in 1 .. n \/ j = n + 1
        /\ \A j \in 1 .. n : j \in 1 .. n + 1 /\ j # n + 1 /\ j \in DOMAIN s
        /\ n + 1 \in 1 .. n + 1 /\ n + 1 \in DOMAIN s
    BY <1>1, <2>1
  <2>6. k = me <=> k.client = c /\ k.id = id
    BY <2>2 DEF Conn
  <2>7. Reads(tab, id, a) = IF \E j \in 1 .. n : s[j] = me THEN after ELSE before
    BY <1>5
  <2> HIDE DEF me, a, b
  <2>8. CASE k = me
    <3>1. ~ \E j \in 1 .. n : s[j] = me
      BY <2>5, <2>8 DEF Distinct
    <3>2. e \in Letter /\ e.id = id /\ e.message = message
      BY <2>2, <2>6, <2>8 DEF Letter, Conn
    <3>3. b = Append(a, e)
      BY <2>4, <2>6, <2>8
    <3> HIDE DEF e
    <3>4. Reads(tab, id, b) = HandleMessage(Reads(tab, id, a), message)
      BY <2>3, <3>2, <3>3, ReadsLast
    <3>5. Reads(tab, id, b) = after
      BY <2>7, <3>1, <3>4 DEF after
    <3>6. \E j \in 1 .. n + 1 : s[j] = me
      BY <2>5, <2>8
    <3>7. QED BY <3>5, <3>6 DEF b
  <2>9. CASE k # me
    <3>1. (\E j \in 1 .. n + 1 : s[j] = me) <=> (\E j \in 1 .. n : s[j] = me)
      BY <2>5, <2>9
    <3>2. Reads(tab, id, b) = Reads(tab, id, a)
      <4>1. CASE k.client # c
        BY <2>4, <4>1
      <4>2. CASE k.client = c
        <5>1. e \in Letter /\ e.id # id /\ b = Append(a, e)
          BY <2>2, <2>4, <2>6, <2>9, <4>2 DEF Letter, Conn
        <5> HIDE DEF e
        <5>2. QED BY <2>3, <5>1, ReadsLast
      <4>3. QED BY <4>1, <4>2
    <3>3. QED BY <2>7, <3>1, <3>2 DEF b
  <2>10. QED BY <2>8, <2>9
<1> HIDE DEF P
<1>6. 0 \in S
  BY <1>4
<1>7. ASSUME NEW n \in Nat, n \in S PROVE n + 1 \in S
  BY <1>1, <1>5, <1>7
<1> HIDE DEF S
<1>8. N \in S
  BY <1>1, <1>6, <1>7, Induction
<1>9. P(N)
  BY <1>1, <1>8 DEF S
<1>10. For(c, s, message, pipe) = f[N]
  BY <1>2, ForFolds DEF step
<1>11. Among(me, s) <=> \E j \in 1 .. N : s[j] = me
  BY <1>1 DEF Among
<1>12. Reads(tab, id, f[N]) = IF \E j \in 1 .. N : s[j] = me THEN after ELSE before
  BY <1>9 DEF P
<1> HIDE DEF me
<1>13. Reads(tab, id, For(c, s, message, pipe)) = IF Among(me, s) THEN after ELSE before
  BY <1>10, <1>11, <1>12
<1>14. QED
  BY <1>13 DEF me, after, before, Entry

-----------------------------------------------------------------------------
(* Connections that go.                                                     *)

\* RemoveQuick moves the last value to the place that becomes free.
LEMMA RemoveQuickProperties ==
    ASSUME NEW S, NEW s \in Seq(S), NEW i \in 1 .. Len(s)
    PROVE  /\ RemoveQuick(s, i) \in Seq(S) /\ Len(RemoveQuick(s, i)) = Len(s) - 1
           /\ \A j \in 1 .. Len(s) - 1 : RemoveQuick(s, i)[j] = IF j = i THEN s[Len(s)] ELSE s[j]
<1> DEFINE l == Last(s)
           u == [s EXCEPT ![i] = l]
           n == Len(s)
<1>1. n \in Nat /\ n # 0 /\ i \in Nat
  BY LenProperties
<1>2. l = s[n] /\ l \in S
  BY <1>1, ElementOfSeq DEF Last
<1> HIDE DEF l
<1>3. u \in Seq(S) /\ Len(u) = n /\ \A j \in 1 .. n : u[j] = IF j = i THEN l ELSE s[j]
  BY <1>2, ExceptSeq
<1> HIDE DEF u, n
<1>4. u # <<>>
  BY <1>1, <1>3, EmptySeq
<1>5. /\ Front(u) \in Seq(S) /\ Len(Front(u)) = n - 1
      /\ \A j \in 1 .. n - 1 : Front(u)[j] = u[j]
  BY <1>3, <1>4, FrontAndLast
<1>6. RemoveQuick(s, i) = Front(u)
  BY DEF RemoveQuick, u, l
<1>7. ASSUME NEW j \in 1 .. n - 1 PROVE Front(u)[j] = IF j = i THEN s[n] ELSE s[j]
  <2>1. j \in 1 .. n
    BY <1>1
  <2>2. QED BY <1>2, <1>3, <1>5, <2>1
<1>8. QED
  BY <1>5, <1>6, <1>7 DEF n

\* What is left was there, once if it was there once, and one value is missing.
LEMMA RemoveQuickKeeps ==
    ASSUME NEW S, NEW s \in Seq(S), NEW i \in 1 .. Len(s)
    PROVE  LET r == RemoveQuick(s, i) IN
           /\ \A x : Among(x, r) => Among(x, s)
           /\ Distinct(s) => Distinct(r)
           /\ \A V : Occurrences(r, V) = Occurrences(s, V) - IF s[i] \in V THEN 1 ELSE 0
<1> DEFINE r == RemoveQuick(s, i)
           n == Len(s)
<1>1. /\ n \in Nat /\ n # 0 /\ i \in 1 .. n /\ DOMAIN s = 1 .. n /\ r \in Seq(S) /\ DOMAIN r = 1 .. n - 1
      /\ \A j \in 1 .. n - 1 : r[j] = IF j = i THEN s[n] ELSE s[j]
  <2>1. n \in Nat /\ DOMAIN s = 1 .. n
    BY LenProperties
  <2>2. /\ r \in Seq(S) /\ Len(r) = n - 1
        /\ \A j \in 1 .. n - 1 : r[j] = IF j = i THEN s[n] ELSE s[j]
    BY RemoveQuickProperties
  <2>3. DOMAIN r = 1 .. n - 1
    BY <2>2, LenProperties
  <2>4. QED BY <2>1, <2>2, <2>3
<1> HIDE DEF r, n
<1>2. \A x : Among(x, r) => Among(x, s)
  <2>1. \A j \in 1 .. n - 1 : j \in 1 .. n /\ n \in 1 .. n
    BY <1>1
  <2>2. QED BY <1>1, <2>1 DEF Among
<1>3. Distinct(s) => Distinct(r)
  <2>1. SUFFICES ASSUME Distinct(s), NEW j \in 1 .. n - 1, NEW k \in 1 .. n - 1, r[j] = r[k]
                 PROVE  j = k
    BY <1>1 DEF Distinct
  <2>2. j \in 1 .. n /\ k \in 1 .. n /\ n \in 1 .. n /\ j # n /\ k # n
    BY <1>1
  <2>3. \A a, b \in 1 .. n : s[a] = s[b] => a = b
    BY <1>1, <2>1 DEF Distinct
  <2>4. QED BY <1>1, <2>1, <2>2, <2>3
<1>4. ASSUME NEW V PROVE Occurrences(r, V) = Occurrences(s, V) - IF s[i] \in V THEN 1 ELSE 0
  <2> DEFINE I == {j \in DOMAIN s : s[j] \in V}
             J == {j \in DOMAIN r : r[j] \in V}
  <2>1. /\ IsFiniteSet(I) /\ IsFiniteSet(J) /\ Cardinality(I) \in Nat /\ Cardinality(J) \in Nat
    BY <1>1, OccurrencesAreNatural DEF Occurrences
  <2>2. /\ \A j : j \in I <=> j \in 1 .. n /\ s[j] \in V
        /\ \A j : j \in J <=> j \in 1 .. n - 1 /\ r[j] \in V
    BY <1>1
  <2>3. Occurrences(s, V) = Cardinality(I) /\ Occurrences(r, V) = Cardinality(J)
    BY DEF Occurrences
  <2> HIDE DEF I, J
  <2>4. n \notin J /\ i \in 1 .. n /\ n \in 1 .. n /\ \A j \in 1 .. n - 1 : j \in 1 .. n /\ j # n
    BY <1>1, <2>2
  <2>5. \A j \in 1 .. n : j = n \/ j \in 1 .. n - 1
    BY <1>1
  <2>6. CASE s[i] \in V /\ s[n] \in V
    <3>1. I = J \cup {n}
      BY <1>1, <2>2, <2>4, <2>5, <2>6
    <3>2. Cardinality(I) = Cardinality(J) + 1
      BY <2>1, <2>4, <3>1, FS_AddElement
    <3>3. QED BY <2>1, <2>3, <2>6, <3>2
  <2>7. CASE s[i] \in V /\ s[n] \notin V
    <3>1. I = J \cup {i} /\ i \notin J
      BY <1>1, <2>2, <2>4, <2>5, <2>7
    <3>2. Cardinality(I) = Cardinality(J) + 1
      BY <2>1, <3>1, FS_AddElement
    <3>3. QED BY <2>1, <2>3, <2>7, <3>2
  <2>8. CASE s[i] \notin V /\ s[n] \in V
    <3>1. J = (I \ {n}) \cup {i} /\ n \in I /\ i \notin I /\ i # n
      BY <1>1, <2>2, <2>4, <2>5, <2>8
    <3>2. IsFiniteSet(I \ {n}) /\ Cardinality(I \ {n}) = Cardinality(I) - 1
      BY <2>1, <3>1, FS_RemoveElement
    <3>3. Cardinality(J) = Cardinality(I \ {n}) + 1
      BY <3>1, <3>2, FS_AddElement
    <3>4. QED BY <2>1, <2>3, <2>8, <3>2, <3>3
  <2>9. CASE s[i] \notin V /\ s[n] \notin V
    <3>1. I = J
      BY <1>1, <2>2, <2>4, <2>5, <2>9
    <3>2. QED BY <2>1, <2>3, <2>9, <3>1
  <2>10. QED BY <2>6, <2>7, <2>8, <2>9
<1>5. QED
  BY <1>2, <1>3, <1>4 DEF r

\* The connections of client c.
Mine(c) == [client : {c}, id : Nat]

\* No member of V is in the sequence when none is counted.
LEMMA NoneCounted ==
    ASSUME NEW S, NEW s \in Seq(S), NEW V
    PROVE  Occurrences(s, V) = 0 <=> \A i \in DOMAIN s : s[i] \notin V
<1> DEFINE I == {i \in DOMAIN s : s[i] \in V}
<1>1. IsFiniteSet(I) /\ Occurrences(s, V) = Cardinality(I)
  BY OccurrencesAreNatural DEF Occurrences
<1>2. I = {} <=> \A i \in DOMAIN s : s[i] \notin V
  OBVIOUS
<1> HIDE DEF I
<1>3. QED
  BY <1>1, <1>2, FS_EmptySet

\* A client of which none is counted has none.
LEMMA NoneAmong ==
    ASSUME NEW c \in Clients, NEW s \in Seq(Conn), Occurrences(s, Mine(c)) = 0
    PROVE  \A id : ~Among(Entry(c, id), s)
<1> SUFFICES ASSUME NEW id, Among(Entry(c, id), s) PROVE FALSE
  OBVIOUS
<1>1. PICK i \in DOMAIN s : s[i] = Entry(c, id)
  BY DEF Among
<1>2. s[i] \in Conn
  BY ElementOfSeq, LenProperties
<1>3. s[i] \in Mine(c)
  BY <1>1, <1>2 DEF Conn, Mine, Entry
<1>4. QED
  BY <1>3, NoneCounted

\* One connection of the client goes, if there is one, and nothing else changes.
LEMMA WithoutOneOfProperties ==
    ASSUME NEW c \in Clients, NEW conns \in Seq(Conn)
    PROVE  LET r == WithoutOneOf(c, conns) IN
           /\ r \in Seq(Conn)
           /\ \A x : Among(x, r) => Among(x, conns)
           /\ Distinct(conns) => Distinct(r)
           /\ Occurrences(conns, Mine(c)) # 0 =>
                 Occurrences(r, Mine(c)) = Occurrences(conns, Mine(c)) - 1
           /\ \A d \in Clients \ {c} : Occurrences(r, Mine(d)) = Occurrences(conns, Mine(d))
<1> DEFINE I == {i \in 1 .. Len(conns) : conns[i].client = c}
           i == SelectInSeq(conns, LAMBDA k : k.client = c)
           r == WithoutOneOf(c, conns)
<1>1. Len(conns) \in Nat /\ DOMAIN conns = 1 .. Len(conns) /\ \A j \in 1 .. Len(conns) : conns[j] \in Conn
  BY LenProperties, ElementOfSeq
<1>2. i = IF I # {} THEN Min(I) ELSE 0
  BY DEF SelectInSeq
<1>3. r = IF i = 0 THEN conns ELSE RemoveQuick(conns, i)
  BY DEF WithoutOneOf
<1>4. \A j \in 1 .. Len(conns), d \in Clients : conns[j] \in Mine(d) <=> conns[j].client = d
  BY <1>1 DEF Mine, Conn
<1>5. I \in SUBSET (1 .. Len(conns)) /\ \A j \in I : conns[j].client = c
  OBVIOUS
<1>6. I = {} => \A j \in 1 .. Len(conns) : conns[j].client # c
  OBVIOUS
<1> HIDE DEF i, r, I
<1>7. (i = 0 <=> I = {}) /\ (i # 0 => i \in I)
  BY <1>2, <1>5, FirstMatch
<1>8. CASE i = 0
  <2>1. r = conns
    BY <1>3, <1>8
  <2>2. \A j \in DOMAIN conns : conns[j] \notin Mine(c)
    BY <1>1, <1>4, <1>6, <1>7, <1>8
  <2>3. Occurrences(conns, Mine(c)) = 0
    BY <2>2, NoneCounted
  <2>4. QED BY <2>1, <2>3 DEF r
<1>9. CASE i # 0
  <2>1. r = RemoveQuick(conns, i) /\ i \in 1 .. Len(conns) /\ conns[i].client = c
    BY <1>3, <1>5, <1>7, <1>9
  <2>2. \A d \in Clients : conns[i] \in Mine(d) <=> d = c
    BY <1>4, <2>1
  <2>3. r \in Seq(Conn)
    BY <2>1, RemoveQuickProperties
  <2>4. /\ \A x : Among(x, r) => Among(x, conns)
        /\ Distinct(conns) => Distinct(r)
        /\ \A V : Occurrences(r, V) = Occurrences(conns, V) - IF conns[i] \in V THEN 1 ELSE 0
    BY <2>1, RemoveQuickKeeps
  <2>5. \A V : Occurrences(conns, V) \in Nat
    BY OccurrencesAreNatural
  <2>6. Occurrences(r, Mine(c)) = Occurrences(conns, Mine(c)) - 1
    BY <2>2, <2>4
  <2>7. \A d \in Clients \ {c} : Occurrences(r, Mine(d)) = Occurrences(conns, Mine(d))
    BY <2>2, <2>4, <2>5
  <2>8. QED BY <2>3, <2>4, <2>6, <2>7 DEF r
<1>10. QED
  BY <1>8, <1>9

Leaving(c) == [conns \in Seq(Conn) |-> [id \in Nat |-> WithoutOneOf(c, conns)]]

\* What is left are connections.
LEMMA LeavingSteps == \A c \in Clients : Leaving(c) \in Steps(Seq(Conn), Nat)
<1>1. \A c \in Clients, conns \in Seq(Conn) : WithoutOneOf(c, conns) \in Seq(Conn)
  BY WithoutOneOfProperties
<1>2. QED
  BY <1>1 DEF Leaving, Steps

\* What HandleDisconnected leaves: one connection goes for each entry of the list.
Left(c, conns, list) == FoldLeft(LAMBDA left, id : WithoutOneOf(c, left), conns, list)

\* They go one after the other.
LEMMA LeftFolds ==
    ASSUME NEW c \in Clients, NEW conns \in Seq(Conn), NEW s \in Seq(Nat)
    PROVE  Left(c, conns, s) = Folded(Leaving(c), conns, s) /\ Left(c, conns, s) \in Seq(Conn)
<1> DEFINE Is(k) == k = [t \in SUBSET DOMAIN s |->
                            IF t = {} THEN conns ELSE WithoutOneOf(c, k[t \ {Max(t)}])]
           step == Leaving(c)
           A == Seq(Conn)
<1>0. step \in Steps(A, Nat)
  BY LeavingSteps
<1> HIDE DEF step, A
<1>1. PICK g : FoldOf(g, A, step, conns, s)
  BY <1>0, FoldExists DEF Steps, A
<1>2. FoldValues(g, A, Nat, step, conns, s)
  BY <1>0, <1>1, FoldFacts DEF A
<1>3. \A t \in SUBSET DOMAIN s : t # {} => g[t] = WithoutOneOf(c, g[t \ {Max(t)}])
  BY <1>2 DEF Leaving, FoldValues, step, A
<1>4. Is(g)
  BY <1>2, <1>3 DEF FoldValues
<1>5. ASSUME NEW k, Is(k) PROVE k = g
  <2>1. Alike(k, g, s)
    BY <1>2, <1>3, <1>5 DEF Alike, FoldValues
  <2> HIDE DEF Is
  <2>2. QED BY <2>1, SameFold
<1>6. (CHOOSE k : Is(k)) = g
  BY <1>4, <1>5
<1>7. Left(c, conns, s) = (CHOOSE k : Is(k))[DOMAIN s]
  BY DEF Left, FoldLeft, MapThenFoldSet
<1> HIDE DEF Is
<1>8. Folded(step, conns, s) = g[DOMAIN s] /\ g[DOMAIN s] \in A
  BY <1>0, <1>1, FoldedIs DEF A
<1>9. QED
  BY <1>6, <1>7, <1>8 DEF step, A

\* As many connections of the client go as its list has entries, and no other.
LEMMA LeftProperties ==
    ASSUME NEW c \in Clients, NEW conns \in Seq(Conn), NEW s \in Seq(Nat),
           Len(s) = Occurrences(conns, Mine(c))
    PROVE  LET r == Left(c, conns, s) IN
           /\ r \in Seq(Conn)
           /\ \A x : Among(x, r) => Among(x, conns)
           /\ Distinct(conns) => Distinct(r)
           /\ Occurrences(r, Mine(c)) = 0
           /\ \A d \in Clients \ {c} : Occurrences(r, Mine(d)) = Occurrences(conns, Mine(d))
<1> DEFINE N == Len(s)
           step == Leaving(c)
           A == Seq(Conn)
<1>1. N \in Nat /\ step \in Steps(A, Nat)
  BY LenProperties, LeavingSteps
<1> HIDE DEF step, A
<1>2. PICK f : Accumulates(f, A, step, conns, s) /\ f[N] = Folded(step, conns, s)
  BY <1>1, FoldedStepwise DEF A
<1>3. /\ f[0] = conns /\ \A n \in 0 .. N : f[n] \in A
      /\ \A n \in 0 .. N - 1 : f[n + 1] = step[f[n]][s[n + 1]]
  BY <1>2 DEF Accumulates
<1> HIDE DEF N
<1> DEFINE P(n) == LET r == f[n] IN
                   /\ \A x : Among(x, r) => Among(x, conns)
                   /\ Distinct(conns) => Distinct(r)
                   /\ Occurrences(r, Mine(c)) = N - n
                   /\ \A d \in Clients \ {c} : Occurrences(r, Mine(d)) = Occurrences(conns, Mine(d))
           S == {n \in Nat : n <= N => P(n)}
<1>4. P(0)
  BY <1>1, <1>3 DEF N
<1>5. ASSUME NEW n \in Nat, n + 1 <= N, P(n) PROVE P(n + 1)
  <2> DEFINE a == f[n]
             b == f[n + 1]
  <2>1. n \in 0 .. N - 1 /\ n \in 0 .. N /\ n + 1 \in 1 .. N
    BY <1>1, <1>5
  <2>2. a \in Seq(Conn) /\ s[n + 1] \in Nat
    BY <1>1, <1>3, <2>1, ElementOfSeq DEF A, N
  <2>3. b = WithoutOneOf(c, a)
    BY <1>3, <2>1, <2>2 DEF Leaving, step
  <2>4. /\ \A x : Among(x, a) => Among(x, conns)
        /\ Distinct(conns) => Distinct(a)
        /\ Occurrences(a, Mine(c)) = N - n
        /\ \A d \in Clients \ {c} : Occurrences(a, Mine(d)) = Occurrences(conns, Mine(d))
    BY <1>5
  <2> HIDE DEF a, b
  <2>5. Occurrences(a, Mine(c)) # 0
    BY <1>1, <2>1, <2>4
  <2>6. /\ \A x : Among(x, b) => Among(x, a)
        /\ Distinct(a) => Distinct(b)
        /\ Occurrences(b, Mine(c)) = Occurrences(a, Mine(c)) - 1
        /\ \A d \in Clients \ {c} : Occurrences(b, Mine(d)) = Occurrences(a, Mine(d))
    BY <2>2, <2>3, <2>5, WithoutOneOfProperties
  <2>7. /\ \A x : Among(x, b) => Among(x, conns)
        /\ Distinct(conns) => Distinct(b)
        /\ Occurrences(b, Mine(c)) = N - (n + 1)
        /\ \A d \in Clients \ {c} : Occurrences(b, Mine(d)) = Occurrences(conns, Mine(d))
    BY <1>1, <2>1, <2>4, <2>6
  <2>8. QED BY <2>7 DEF b
<1> HIDE DEF P
<1>6. 0 \in S
  BY <1>4
<1>7. ASSUME NEW n \in Nat, n \in S PROVE n + 1 \in S
  BY <1>1, <1>5, <1>7
<1> HIDE DEF S
<1>8. N \in S
  BY <1>1, <1>6, <1>7, Induction
<1>9. P(N)
  BY <1>1, <1>8 DEF S
<1>10. Left(c, conns, s) = f[N] /\ Left(c, conns, s) \in Seq(Conn)
  BY <1>2, LeftFolds DEF step
<1>11. N - N = 0
  BY <1>1
<1>12. QED
  BY <1>9, <1>10, <1>11 DEF P

\* Send posts to the clients whose connection is up.
LEMMA SendProperties ==
    ASSUME NEW pipe \in [Clients -> Seq(Letter)], NEW conns \in Seq(Conn), NEW message \in Message
    PROVE  /\ Send(pipe, conns, message) \in [Clients -> Seq(Letter)]
           /\ \A c \in Clients :
                 /\ Extended(Send(pipe, conns, message)[c], pipe[c], c, conns)
                 /\ c \in connected =>
                       /\ Send(pipe, conns, message)[c] = For(c, conns, message, pipe[c])
                       /\ Posted(Send(pipe, conns, message)[c], pipe[c], c, conns)
<1> DEFINE new == Send(pipe, conns, message)
<1>1. new = [c \in Clients |-> IF c \in connected THEN For(c, conns, message, pipe[c]) ELSE pipe[c]]
  BY DEF Send
<1>2. \A c \in Clients : /\ For(c, conns, message, pipe[c]) \in Seq(Letter)
                         /\ Posted(For(c, conns, message, pipe[c]), pipe[c], c, conns)
  BY ForFolds, ForProperties
<1>3. \A c \in Clients : Extended(pipe[c], pipe[c], c, conns)
  <2> SUFFICES ASSUME NEW c \in Clients PROVE Extended(pipe[c], pipe[c], c, conns)
    OBVIOUS
  <2>1. Len(pipe[c]) \in Nat
    BY LenProperties
  <2>2. QED BY <2>1 DEF Extended
<1> HIDE DEF new
<1>4. new \in [Clients -> Seq(Letter)]
  BY <1>1, <1>2
<1>5. ASSUME NEW c \in Clients
      PROVE  /\ Extended(new[c], pipe[c], c, conns)
             /\ c \in connected => /\ new[c] = For(c, conns, message, pipe[c])
                                   /\ Posted(new[c], pipe[c], c, conns)
  <2>1. CASE c \in connected
    <3>1. new[c] = For(c, conns, message, pipe[c])
      BY <1>1, <2>1
    <3>2. Posted(new[c], pipe[c], c, conns)
      BY <1>2, <3>1
    <3>3. QED BY <3>1, <3>2 DEF Posted
  <2>2. CASE c \notin connected
    BY <1>1, <1>3, <2>2
  <2>3. QED BY <2>1, <2>2
<1>6. QED
  BY <1>4, <1>5 DEF new

-----------------------------------------------------------------------------
(* What the server's connections, lists and pipes agree on.                 *)

TypeOK ==
    /\ doc \in Document \cup {None}
    /\ connections \in Seq(Conn)
    /\ documentList \in [Clients -> Seq(Nat)]
    /\ disk \in [content : Contents \cup {Damaged}, time : Nat]
    /\ connected \in SUBSET Clients
    /\ toServer \in [Clients -> Seq(Command)]
    /\ toClient \in [Clients -> Seq(Letter)]
    /\ tabs \in [Clients -> Seq(Tab \cup {None})]

\* The document is open as long as someone is connected to it.
OpenForSomeone == doc = None <=> connections = <<>>

\* A client's list has an entry for each of its connections.
ListsCountConnections ==
    \A c \in Clients : Len(documentList[c]) = Occurrences(connections, Mine(c))

\* Connections, letters and requests to open are of tabs that there are or were.
IdsAreKnown ==
    \A c \in Clients :
        /\ \A id : Among(Entry(c, id), connections) => id \in DOMAIN tabs[c]
        /\ \A i \in DOMAIN toClient[c] : toClient[c][i].id \in DOMAIN tabs[c]
        /\ \A i \in DOMAIN toServer[c] : toServer[c][i].type = "kOpen" => toServer[c][i].id \in DOMAIN tabs[c]

\* A tab is opened once.
OpensAreFresh ==
    \A c \in Clients : \A i \in DOMAIN toServer[c] : toServer[c][i].type = "kOpen" =>
        /\ ~Among(Entry(c, toServer[c][i].id), connections)
        /\ \A j \in DOMAIN toServer[c] :
              toServer[c][j].type = "kOpen" /\ toServer[c][j].id = toServer[c][i].id => i = j

\* A process whose connection is lost has no tabs.
TabsAreOnline == \A c \in Clients \ connected : OpenTabs(c) = {}

ConnInv ==
    /\ TypeOK /\ OpenForSomeone /\ ListsCountConnections /\ Distinct(connections)
    /\ IdsAreKnown /\ OpensAreFresh /\ TabsAreOnline

-----------------------------------------------------------------------------
(* Steps of the server that leave the connections as they are.              *)

\* A tab with these messages read shows the state and the data of the document.
InStep(tab, d) == tab.state = d.state /\ (d.state = "kLoaded" => tab.serverCopy = d.content)

\* Tabs that were in step are in step.
KeepsUp ==
    \A c \in connected : \A id \in Nat : \A tab \in Tab :
        Informed(c, id) /\ InStep(Reads(tab, id, toClient[c]), doc)
            => InStep(Reads(tab, id, toClient'[c]), doc')

\* Undoing everything leads where it led, or the file was loaded again.
UndoKept ==
    doc # None /\ doc' # None =>
        Unwound(doc') = Unwound(doc) \/ (doc'.undo = doc.undo /\ doc'.content # doc.content)

\* The server talks to those who are connected.
Talks ==
    /\ UNCHANGED <<connections, documentList>>
    /\ doc' \in Document \cup {None} /\ (doc' = None <=> doc = None)
    /\ disk' \in [content : Contents \cup {Damaged}, time : Nat]
    /\ toClient' \in [Clients -> Seq(Letter)]
    /\ \A c \in Clients : Extended(toClient'[c], toClient[c], c, connections)
    /\ KeepsUp /\ UndoKept

\* A client with a document in its list is connected to it.
LEMMA HasDocumentIsOpen ==
    ASSUME ConnInv, NEW c \in Clients, NEW id, HasDocument(c, id)
    PROVE  doc \in Document /\ doc # None /\ documentList[c] # <<>> /\ Occurrences(connections, Mine(c)) # 0
<1>1. documentList[c] \in Seq(Nat) /\ Len(documentList[c]) = Occurrences(connections, Mine(c))
  BY DEF ConnInv, TypeOK, ListsCountConnections
<1>2. documentList[c] # <<>> /\ Len(documentList[c]) # 0
  <2>1. DOMAIN documentList[c] # {} /\ DOMAIN documentList[c] = 1 .. Len(documentList[c])
    BY <1>1, LenProperties DEF HasDocument
  <2>2. Len(documentList[c]) # 0
    BY <2>1
  <2>3. QED BY <2>2, EmptySeq
<1>3. Occurrences(connections, Mine(c)) # 0
  BY <1>1, <1>2
<1>4. connections \in Seq(Conn)
  BY DEF ConnInv, TypeOK
<1>5. \E i \in DOMAIN connections : connections[i] \in Mine(c)
  BY <1>3, <1>4, NoneCounted
<1>6. connections # <<>>
  BY <1>4, <1>5, EmptySeq
<1>7. doc # None
  BY <1>6 DEF ConnInv, OpenForSomeone
<1>8. QED
  BY <1>2, <1>3, <1>7 DEF ConnInv, TypeOK

\* Letters that nobody sends.
LEMMA NothingSent ==
    ASSUME ConnInv
    PROVE  \A c \in Clients : Extended(toClient[c], toClient[c], c, connections)
<1> SUFFICES ASSUME NEW c \in Clients PROVE Extended(toClient[c], toClient[c], c, connections)
  OBVIOUS
<1>1. Len(toClient[c]) \in Nat
  BY LenProperties DEF ConnInv, TypeOK
<1>2. QED
  BY <1>1 DEF Extended

\* A message that all are sent is read by a tab that is informed.
LEMMA SentIsRead ==
    ASSUME ConnInv, NEW pipe \in [Clients -> Seq(Letter)], NEW message \in Message,
           NEW c \in connected, NEW id \in Nat, NEW tab \in Tab, Informed(c, id)
    PROVE  /\ Reads(tab, id, pipe[c]) \in Tab
           /\ Reads(tab, id, Send(pipe, connections, message)[c])
              = HandleMessage(Reads(tab, id, pipe[c]), message)
<1>1. /\ c \in Clients /\ connections \in Seq(Conn) /\ Distinct(connections)
      /\ pipe[c] \in Seq(Letter)
  BY DEF ConnInv, TypeOK
<1>2. Send(pipe, connections, message)[c] = For(c, connections, message, pipe[c])
  BY <1>1, SendProperties
<1>3. Among(Entry(c, id), connections)
  BY DEF Informed, Among, Entry
<1>4. Reads(tab, id, For(c, connections, message, pipe[c])) = HandleMessage(Reads(tab, id, pipe[c]), message)
  BY <1>1, <1>3, ReadsPosted
<1>5. QED
  BY <1>1, <1>2, <1>4, ReadsFolds

\* Changes that are told keep the tabs in step.
LEMMA ToldKeepsUp ==
    ASSUME ConnInv, doc \in Document, NEW changes \in Seq(Change), toClient' = Told(changes),
           doc' \in Document, doc'.state = doc.state, doc'.content = ApplyChanges(doc.content, changes)
    PROVE  /\ toClient' \in [Clients -> Seq(Letter)]
           /\ \A c \in Clients : Extended(toClient'[c], toClient[c], c, connections)
           /\ KeepsUp
<1>1. /\ toClient \in [Clients -> Seq(Letter)] /\ connections \in Seq(Conn)
      /\ ChangeMessage(changes) \in Message
  BY MessageTypes DEF ConnInv, TypeOK
<1>2. CASE doc.state = "kLoaded"
  <2> DEFINE m == ChangeMessage(changes)
             new == Send(toClient, connections, m)
  <2>1. toClient' = new
    BY <1>2 DEF Told
  <2>2. new \in [Clients -> Seq(Letter)] /\ \A c \in Clients : Extended(new[c], toClient[c], c, connections)
    BY <1>1, SendProperties
  <2> HIDE DEF new
  <2>3. ASSUME NEW c \in connected, NEW id \in Nat, NEW tab \in Tab,
               Informed(c, id), InStep(Reads(tab, id, toClient[c]), doc)
        PROVE  InStep(Reads(tab, id, new[c]), doc')
    <3> DEFINE t == Reads(tab, id, toClient[c])
               u == Reads(tab, id, new[c])
    <3>1. t \in Tab /\ u = HandleMessage(t, m)
      BY <1>1, <2>3, SentIsRead DEF new
    <3> HIDE DEF t, u
    <3>2. u.state = t.state /\ u.serverCopy = ApplyChanges(t.serverCopy, changes)
      BY <3>1, HandledChange
    <3>3. InStep(t, doc)
      BY <2>3 DEF t
    <3>4. InStep(u, doc')
      BY <1>2, <3>2, <3>3 DEF InStep
    <3>5. QED BY <3>4 DEF u
  <2>4. QED BY <2>1, <2>2, <2>3 DEF KeepsUp
<1>3. CASE doc.state # "kLoaded"
  <2>1. toClient' = toClient
    BY <1>3 DEF Told
  <2>2. KeepsUp
    BY <1>3, <2>1 DEF KeepsUp, InStep
  <2>3. QED BY <1>1, <2>1, <2>2, NothingSent
<1>4. QED
  BY <1>2, <1>3

\* Changes, undos and redos.
LEMMA ChangeTalks ==
    ASSUME ConnInv, NEW c \in Clients, NEW id, HasDocument(c, id), NEW changes \in Seq(Change),
           HandleChange(changes)
    PROVE  Talks
<1>1. doc \in Document /\ doc # None
  BY HasDocumentIsOpen
<1>2. doc' = Changed(doc, changes) /\ toClient' = Told(changes) /\ UNCHANGED <<connections, documentList, disk>>
  BY DEF HandleChange
<1>3. /\ doc' \in Document /\ doc'.state = doc.state /\ doc'.content = ApplyChanges(doc.content, changes)
      /\ Unwound(doc') = Unwound(doc)
  BY <1>1, <1>2, ChangedDocument
<1>4. /\ toClient' \in [Clients -> Seq(Letter)] /\ KeepsUp
      /\ \A d \in Clients : Extended(toClient'[d], toClient[d], d, connections)
  BY <1>1, <1>2, <1>3, ToldKeepsUp
<1>5. doc' # None /\ disk' \in [content : Contents \cup {Damaged}, time : Nat]
  BY <1>2, <1>3, EditorAssumption DEF ConnInv, TypeOK
<1>6. QED
  BY <1>1, <1>2, <1>3, <1>4, <1>5 DEF Talks, UndoKept

\* An undo tells what it applies.
LEMMA UndoTalks ==
    ASSUME ConnInv, NEW c \in Clients, NEW id, HasDocument(c, id), HandleUndo
    PROVE  Talks
<1>1. doc \in Document /\ doc # None
  BY HasDocumentIsOpen
<1>2. /\ doc.undo # <<>> /\ doc' = UndoChanges(doc) /\ toClient' = Told(Last(doc.undo))
      /\ UNCHANGED <<connections, documentList, disk>>
  BY DEF HandleUndo
<1>3. /\ doc' \in Document /\ doc'.state = doc.state /\ Last(doc.undo) \in Seq(Change)
      /\ doc'.content = ApplyChanges(doc.content, Last(doc.undo)) /\ Unwound(doc') = Unwound(doc)
  BY <1>1, <1>2, UndoneDocument
<1>4. /\ toClient' \in [Clients -> Seq(Letter)] /\ KeepsUp
      /\ \A d \in Clients : Extended(toClient'[d], toClient[d], d, connections)
  BY <1>1, <1>2, <1>3, ToldKeepsUp
<1>5. doc' # None /\ disk' \in [content : Contents \cup {Damaged}, time : Nat]
  BY <1>2, <1>3, EditorAssumption DEF ConnInv, TypeOK
<1>6. QED
  BY <1>1, <1>2, <1>3, <1>4, <1>5 DEF Talks, UndoKept

\* And so does a redo.
LEMMA RedoTalks ==
    ASSUME ConnInv, NEW c \in Clients, NEW id, HasDocument(c, id), HandleRedo
    PROVE  Talks
<1>1. doc \in Document /\ doc # None
  BY HasDocumentIsOpen
<1>2. /\ doc.redo # <<>> /\ doc' = RedoChanges(doc) /\ toClient' = Told(Last(doc.redo))
      /\ UNCHANGED <<connections, documentList, disk>>
  BY DEF HandleRedo
<1>3. /\ doc' \in Document /\ doc'.state = doc.state /\ Last(doc.redo) \in Seq(Change)
      /\ doc'.content = ApplyChanges(doc.content, Last(doc.redo)) /\ Unwound(doc') = Unwound(doc)
  BY <1>1, <1>2, RedoneDocument
<1>4. /\ toClient' \in [Clients -> Seq(Letter)] /\ KeepsUp
      /\ \A d \in Clients : Extended(toClient'[d], toClient[d], d, connections)
  BY <1>1, <1>2, <1>3, ToldKeepsUp
<1>5. doc' # None /\ disk' \in [content : Contents \cup {Damaged}, time : Nat]
  BY <1>2, <1>3, EditorAssumption DEF ConnInv, TypeOK
<1>6. QED
  BY <1>1, <1>2, <1>3, <1>4, <1>5 DEF Talks, UndoKept

\* A document whose file is written.
LEMMA WriteType ==
    ASSUME ConnInv, NEW content \in Contents \cup {Damaged}, Write(content)
    PROVE  disk' \in [content : Contents \cup {Damaged}, time : Nat]
  BY DEF ConnInv, TypeOK, Write

\* A save tells the state when it changes.
LEMMA SaveTalks ==
    ASSUME ConnInv, NEW c \in Clients, NEW id, HasDocument(c, id), HandleSave
    PROVE  Talks
<1>1. doc \in Document /\ doc # None /\ doc.content \in Contents /\ doc.state \in {"kLoaded", "kLoadFailure"}
  BY HasDocumentIsOpen DEF Document
<1>2. /\ doc' = Saved(doc) /\ Write(doc.content) /\ UNCHANGED <<connections, documentList>>
      /\ toClient' = IF doc'.state = doc.state THEN toClient
                     ELSE Send(toClient, connections, StateMessage("kLoaded", doc.content))
  BY DEF HandleSave
<1>3. /\ doc' \in Document /\ doc'.content = doc.content /\ doc'.undo = doc.undo
      /\ doc'.state = IF doc.state = "kLoadFailure" THEN "kLoaded" ELSE doc.state
  BY <1>1, <1>2, SavedDocument
<1>4. Unwound(doc') = Unwound(doc)
  BY <1>3 DEF Unwound
<1>5. doc' # None /\ disk' \in [content : Contents \cup {Damaged}, time : Nat]
  BY <1>1, <1>2, <1>3, WriteType, EditorAssumption
<1>6. toClient \in [Clients -> Seq(Letter)] /\ connections \in Seq(Conn)
  BY DEF ConnInv, TypeOK
<1>7. /\ toClient' \in [Clients -> Seq(Letter)] /\ KeepsUp
      /\ \A d \in Clients : Extended(toClient'[d], toClient[d], d, connections)
  <2>1. CASE doc'.state = doc.state
    <3>1. toClient' = toClient
      BY <1>2, <2>1
    <3>2. KeepsUp
      BY <1>3, <2>1, <3>1 DEF KeepsUp, InStep
    <3>3. QED BY <1>6, <3>1, <3>2, NothingSent
  <2>2. CASE doc'.state # doc.state
    <3> DEFINE m == StateMessage("kLoaded", doc.content)
               new == Send(toClient, connections, m)
    <3>1. toClient' = new /\ doc'.state = "kLoaded" /\ m \in Message
      BY <1>1, <1>2, <1>3, <2>2, MessageTypes
    <3>2. new \in [Clients -> Seq(Letter)] /\ \A d \in Clients : Extended(new[d], toClient[d], d, connections)
      BY <1>6, <3>1, SendProperties
    <3> HIDE DEF new
    <3>3. ASSUME NEW d \in connected, NEW i \in Nat, NEW tab \in Tab, Informed(d, i)
          PROVE  InStep(Reads(tab, i, new[d]), doc')
      <4> DEFINE t == Reads(tab, i, toClient[d])
                 u == Reads(tab, i, new[d])
      <4>1. t \in Tab /\ u = HandleMessage(t, m)
        BY <1>6, <3>1, <3>3, SentIsRead DEF new
      <4> HIDE DEF t, u
      <4>2. u.state = "kLoaded" /\ u.serverCopy = doc.content
        BY <1>1, <4>1, HandledState
      <4>3. InStep(u, doc')
        BY <1>3, <3>1, <4>2 DEF InStep
      <4>4. QED BY <4>3 DEF u
    <3>4. QED BY <3>1, <3>2, <3>3 DEF KeepsUp
  <2>3. QED BY <2>1, <2>2
<1>8. QED
  BY <1>1, <1>2, <1>3, <1>4, <1>5, <1>7 DEF Talks, UndoKept

\* Nothing happens to the document.
LEMMA SilenceTalks ==
    ASSUME ConnInv, UNCHANGED <<doc, connections, documentList, disk, toClient>>
    PROVE  Talks
<1>1. KeepsUp
  BY DEF KeepsUp
<1>2. UndoKept
  BY DEF UndoKept
<1>3. QED
  BY <1>1, <1>2, NothingSent DEF Talks, ConnInv, TypeOK

\* Letters after letters.
LEMMA ExtendedTwice ==
    ASSUME NEW a \in Seq(Letter), NEW b \in Seq(Letter), NEW e \in Seq(Letter), NEW c, NEW s,
           Extended(b, a, c, s), Extended(e, b, c, s)
    PROVE  Extended(e, a, c, s)
<1>1. Len(a) \in Nat /\ Len(b) \in Nat /\ Len(e) \in Nat
  BY LenProperties
<1>2. Len(a) <= Len(e) /\ \A i \in 1 .. Len(a) : i \in 1 .. Len(b)
  BY <1>1 DEF Extended
<1>3. \A i \in 1 .. Len(a) : e[i] = a[i]
  BY <1>2 DEF Extended
<1>4. ASSUME NEW i \in Len(a) + 1 .. Len(e) PROVE Among(Entry(c, e[i].id), s)
  <2>1. CASE i \in Len(b) + 1 .. Len(e)
    BY <2>1 DEF Extended
  <2>2. CASE i \in Len(a) + 1 .. Len(b) /\ i \in 1 .. Len(b)
    BY <2>2 DEF Extended
  <2>3. QED BY <1>1, <2>1, <2>2
<1>5. QED
  BY <1>2, <1>3, <1>4 DEF Extended

\* A file that another program wrote is loaded, and all are told its state.
LEMMA FileModifiedTalks ==
    ASSUME ConnInv, FileModified
    PROVE  Talks
<1>1. /\ UNCHANGED <<connections, documentList, disk>>
      /\ disk \in [content : Contents \cup {Damaged}, time : Nat]
      /\ toClient \in [Clients -> Seq(Letter)] /\ connections \in Seq(Conn)
      /\ doc \in Document \cup {None}
  BY DEF ConnInv, TypeOK, FileModified
<1>2. CASE UNCHANGED <<doc, toClient>>
  BY <1>1, <1>2, SilenceTalks
<1>3. CASE /\ doc # None /\ doc' = Loaded(doc, disk.content)
           /\ toClient' = Send(Send(toClient, connections, StateMessage("kLoading", EmptyFile)),
                               connections, OpeningState(doc'))
  <2> DEFINE m == StateMessage("kLoading", EmptyFile)
             n == OpeningState(doc')
             mid == Send(toClient, connections, m)
             new == Send(mid, connections, n)
  <2>1. doc' \in Document /\ doc'.undo = doc.undo /\ doc' # None
    BY <1>1, <1>3, LoadedDocument, EditorAssumption
  <2>2. m \in Message /\ n \in Message
    BY <2>1, MessageTypes, EmptyFileType
  <2> HIDE DEF m
  <2>3. mid \in [Clients -> Seq(Letter)] /\ \A d \in Clients : Extended(mid[d], toClient[d], d, connections)
    BY <1>1, <2>2, SendProperties
  <2> HIDE DEF mid, n
  <2>4. new \in [Clients -> Seq(Letter)] /\ \A d \in Clients : Extended(new[d], mid[d], d, connections)
    BY <1>1, <2>2, <2>3, SendProperties
  <2>5. \A d \in Clients : Extended(new[d], toClient[d], d, connections)
    <3> HIDE DEF new
    <3> SUFFICES ASSUME NEW d \in Clients PROVE Extended(new[d], toClient[d], d, connections)
      OBVIOUS
    <3>1. toClient[d] \in Seq(Letter) /\ mid[d] \in Seq(Letter) /\ new[d] \in Seq(Letter)
      BY <1>1, <2>3, <2>4
    <3>2. Extended(mid[d], toClient[d], d, connections) /\ Extended(new[d], mid[d], d, connections)
      BY <2>3, <2>4
    <3>3. QED BY <3>1, <3>2, ExtendedTwice
  <2>6. ASSUME NEW d \in connected, NEW i \in Nat, NEW tab \in Tab, Informed(d, i)
        PROVE  InStep(Reads(tab, i, new[d]), doc')
    <3> DEFINE t == Reads(tab, i, mid[d])
               u == Reads(tab, i, new[d])
    <3>1. t \in Tab /\ u = HandleMessage(t, n)
      BY <2>2, <2>3, <2>6, SentIsRead
    <3> HIDE DEF t, u
    <3>2. n = StateMessage(doc'.state, doc'.content)
      BY DEF n, OpeningState
    <3>3. doc'.state \in {"kLoaded", "kLoadFailure"} /\ doc'.content \in Contents
      BY <2>1 DEF Document
    <3>4. u.state = doc'.state /\ (doc'.state = "kLoaded" => u.serverCopy = doc'.content)
      BY <3>1, <3>2, <3>3, HandledState
    <3>5. QED BY <3>4 DEF InStep, u
  <2>7. toClient' = new
    BY <1>3 DEF new, mid, m, n
  <2> HIDE DEF new
  <2>8. KeepsUp
    BY <2>6, <2>7 DEF KeepsUp
  <2>9. UndoKept
    BY <2>1 DEF UndoKept, Unwound
  <2>10. QED BY <1>1, <1>3, <2>1, <2>4, <2>5, <2>7, <2>8, <2>9 DEF Talks
<1>4. QED
  BY <1>2, <1>3 DEF FileModified

-----------------------------------------------------------------------------
(* Steps of the server, and what the connections agree on.                  *)

\* The server reads nothing, or the first command of client d.
Consumes(d) ==
    \/ toServer'[d] = toServer[d]
    \/ toServer[d] # <<>> /\ toServer'[d] = Tail(toServer[d])

\* The tabs do nothing.
ServerOnly ==
    /\ tabs' = tabs
    /\ toServer' \in [Clients -> Seq(Command)] /\ \A d \in Clients : Consumes(d)
    /\ connected' \in SUBSET Clients /\ connected \subseteq connected'

\* Client d is informed by this step, about the tab it asked to open.
Informs(d, id) ==
    /\ toServer[d] # <<>> /\ toServer'[d] = Tail(toServer[d])
    /\ Head(toServer[d]).type = "kOpen" /\ Head(toServer[d]).id = id

\* The commands that are left are some of those that were there, in their order.
LEMMA CommandsLeft ==
    ASSUME ConnInv, ServerOnly, NEW d \in Clients
    PROVE  \E k \in {0, 1} :
              /\ \A i \in DOMAIN toServer'[d] :
                    /\ i + k \in DOMAIN toServer[d] /\ toServer'[d][i] = toServer[d][i + k]
                    /\ i \in Nat
              /\ k = 0 => toServer'[d] = toServer[d]
              /\ k = 1 => toServer[d] # <<>> /\ toServer'[d] = Tail(toServer[d])
<1>1. toServer[d] \in Seq(Command) /\ toServer'[d] \in Seq(Command)
  BY DEF ConnInv, TypeOK, ServerOnly
<1> DEFINE old == toServer[d]
           new == toServer'[d]
<1>2. /\ Len(old) \in Nat /\ DOMAIN old = 1 .. Len(old)
      /\ Len(new) \in Nat /\ DOMAIN new = 1 .. Len(new)
  BY <1>1, LenProperties
<1>3. CASE new = old
  <2> HIDE DEF old, new
  <2>1. \A i \in DOMAIN new : i + 0 \in DOMAIN old /\ new[i] = old[i + 0] /\ i \in Nat
    BY <1>2, <1>3
  <2>2. QED BY <1>3, <2>1 DEF old, new
<1>4. CASE old # <<>> /\ new = Tail(old)
  <2> HIDE DEF old, new
  <2>1. Len(new) = Len(old) - 1 /\ \A i \in 1 .. Len(new) : new[i] = old[i + 1]
    BY <1>1, <1>4, HeadTailProperties DEF old, new
  <2>2. \A i \in DOMAIN new : i + 1 \in DOMAIN old /\ new[i] = old[i + 1] /\ i \in Nat
    BY <1>2, <2>1
  <2>3. QED BY <1>4, <2>2 DEF old, new
<1>5. QED
  BY <1>3, <1>4 DEF ServerOnly, Consumes

\* The server counts its connections, sends to them, and informs only who asked to
\* open a tab.
Counts ==
    /\ doc' \in Document \cup {None} /\ (doc' = None <=> connections' = <<>>)
    /\ connections' \in Seq(Conn) /\ Distinct(connections')
    /\ documentList' \in [Clients -> Seq(Nat)]
    /\ \A d \in Clients : Len(documentList'[d]) = Occurrences(connections', Mine(d))
    /\ disk' \in [content : Contents \cup {Damaged}, time : Nat]
    /\ toClient' \in [Clients -> Seq(Letter)]
    /\ \A d \in Clients : Extended(toClient'[d], toClient[d], d, connections')
    /\ \A d \in Clients : \A id :
          Among(Entry(d, id), connections') => Among(Entry(d, id), connections) \/ Informs(d, id)

\* A step of the server that counts keeps what the connections, the lists and the
\* pipes agree on.
LEMMA ServerKeepsConnInv ==
    ASSUME ConnInv, ServerOnly, Counts
    PROVE  ConnInv'
<1>1. TypeOK'
  BY DEF ConnInv, TypeOK, ServerOnly, Counts
<1>2. ASSUME NEW d \in Clients, NEW id, Informs(d, id)
      PROVE  1 \in DOMAIN toServer[d] /\ toServer[d][1].type = "kOpen" /\ toServer[d][1].id = id
  <2>1. toServer[d] \in Seq(Command) /\ toServer[d] # <<>>
    BY <1>2 DEF ConnInv, TypeOK, Informs
  <2>2. Head(toServer[d]) = toServer[d][1] /\ Len(toServer[d]) \in Nat \ {0}
    BY <2>1, EmptySeq
  <2>3. 1 \in DOMAIN toServer[d]
    BY <2>1, <2>2, LenProperties
  <2>4. QED BY <1>2, <2>2, <2>3 DEF Informs
<1>3. ASSUME NEW d \in Clients, NEW id, Among(Entry(d, id), connections')
      PROVE  id \in DOMAIN tabs[d]
  <2>0. IdsAreKnown
    BY DEF ConnInv
  <2>1. CASE Among(Entry(d, id), connections)
    BY <2>0, <2>1 DEF IdsAreKnown
  <2>2. CASE Informs(d, id)
    BY <1>2, <2>0, <2>2 DEF IdsAreKnown
  <2>3. Among(Entry(d, id), connections) \/ Informs(d, id)
    BY <1>3 DEF Counts
  <2>4. QED BY <2>1, <2>2, <2>3
<1>4. ASSUME NEW d \in Clients, NEW i \in DOMAIN toClient'[d] PROVE toClient'[d][i].id \in DOMAIN tabs[d]
  <2> DEFINE old == toClient[d]
             new == toClient'[d]
  <2>1. /\ Len(old) \in Nat /\ DOMAIN old = 1 .. Len(old)
        /\ Len(new) \in Nat /\ DOMAIN new = 1 .. Len(new)
    BY <1>1, LenProperties DEF ConnInv, TypeOK
  <2>2. Extended(new, old, d, connections')
    BY DEF Counts
  <2>3. \A j \in DOMAIN old : old[j].id \in DOMAIN tabs[d]
    BY DEF ConnInv, IdsAreKnown
  <2>4. i \in DOMAIN new
    OBVIOUS
  <2> HIDE DEF old, new
  <2>5. CASE i \in 1 .. Len(old)
    <3>1. new[i].id \in DOMAIN tabs[d]
      BY <2>1, <2>2, <2>3, <2>5 DEF Extended
    <3>2. QED BY <3>1 DEF new
  <2>6. CASE i \in Len(old) + 1 .. Len(new)
    <3>1. Among(Entry(d, new[i].id), connections')
      BY <2>2, <2>6 DEF Extended
    <3>2. new[i].id \in DOMAIN tabs[d]
      BY <1>3, <3>1, Zenon
    <3>3. QED BY <3>2 DEF new
  <2>7. QED BY <2>1, <2>4, <2>5, <2>6 DEF new
<1>5. ASSUME NEW d \in Clients, NEW i \in DOMAIN toServer'[d], toServer'[d][i].type = "kOpen"
      PROVE  /\ toServer'[d][i].id \in DOMAIN tabs[d]
             /\ ~Among(Entry(d, toServer'[d][i].id), connections')
             /\ \A j \in DOMAIN toServer'[d] :
                   toServer'[d][j].type = "kOpen" /\ toServer'[d][j].id = toServer'[d][i].id => i = j
  <2>1. PICK k \in {0, 1} :
              /\ \A j \in DOMAIN toServer'[d] :
                    /\ j + k \in DOMAIN toServer[d] /\ toServer'[d][j] = toServer[d][j + k]
                    /\ j \in Nat
              /\ k = 0 => toServer'[d] = toServer[d]
              /\ k = 1 => toServer[d] # <<>> /\ toServer'[d] = Tail(toServer[d])
    BY CommandsLeft
  <2> DEFINE old == toServer[d]
             new == toServer'[d]
             id == new[i].id
  <2>2. i + k \in DOMAIN old /\ new[i] = old[i + k] /\ i \in Nat /\ i >= 1
    <3>1. i >= 1
      BY <1>1, LenProperties DEF TypeOK
    <3>2. QED BY <2>1, <3>1
  <2>3. /\ id \in DOMAIN tabs[d] /\ ~Among(Entry(d, id), connections)
        /\ \A j \in DOMAIN old : old[j].type = "kOpen" /\ old[j].id = id => i + k = j
    BY <1>5, <2>2 DEF ConnInv, IdsAreKnown, OpensAreFresh
  <2>4. ~Among(Entry(d, id), connections')
    <3> SUFFICES ASSUME Among(Entry(d, id), connections') PROVE FALSE
      OBVIOUS
    <3>1. Informs(d, id)
      BY <2>3 DEF Counts
    <3>2. 1 \in DOMAIN old /\ old[1].type = "kOpen" /\ old[1].id = id
      BY <1>2, <3>1
    <3>3. i + k = 1
      BY <2>3, <3>2
    <3>4. k = 0
      BY <2>1, <2>2, <3>3
    <3>5. new = old /\ old # <<>> /\ new = Tail(old) /\ old \in Seq(Command)
      BY <2>1, <3>1, <3>4 DEF Informs, ConnInv, TypeOK
    <3>6. Len(new) = Len(old) - 1 /\ Len(old) \in Nat
      BY <3>5, HeadTailProperties, LenProperties
    <3> HIDE DEF old, new
    <3>7. QED BY <3>5, <3>6
  <2>5. ASSUME NEW j \in DOMAIN new, new[j].type = "kOpen", new[j].id = id PROVE i = j
    <3>1. j + k \in DOMAIN old /\ new[j] = old[j + k] /\ j \in Nat
      BY <2>1
    <3>2. i + k = j + k
      BY <2>3, <2>5, <3>1
    <3>3. QED BY <2>1, <2>2, <3>1, <3>2
  <2>6. QED BY <2>3, <2>4, <2>5
<1>6. tabs' = tabs /\ \A d \in Clients : (OpenTabs(d))' = OpenTabs(d)
  BY DEF ServerOnly, OpenTabs
<1>7. IdsAreKnown'
  BY <1>3, <1>4, <1>5, <1>6 DEF IdsAreKnown
<1>8. OpensAreFresh'
  BY <1>5 DEF OpensAreFresh
<1>9. TabsAreOnline'
  BY <1>6 DEF ConnInv, TabsAreOnline, ServerOnly
<1>10. OpenForSomeone' /\ Distinct(connections)'
  BY DEF OpenForSomeone, Distinct, Counts
<1>11. ListsCountConnections'
  BY DEF ListsCountConnections, Counts
<1>12. QED
  BY <1>1, <1>7, <1>8, <1>9, <1>10, <1>11 DEF ConnInv

\* Talking leaves the count as it is.
LEMMA TalksCounts ==
    ASSUME ConnInv, Talks
    PROVE  Counts
  BY DEF ConnInv, TypeOK, OpenForSomeone, ListsCountConnections, Talks, Counts

\* Who is in a sequence that has grown by one.
LEMMA AmongAppend ==
    ASSUME NEW S, NEW s \in Seq(S), NEW e \in S
    PROVE  \A x : Among(x, Append(s, e)) <=> Among(x, s) \/ x = e
<1>1. /\ Len(s) \in Nat /\ DOMAIN s = 1 .. Len(s) /\ DOMAIN Append(s, e) = 1 .. Len(s) + 1
      /\ \A i \in 1 .. Len(s) : Append(s, e)[i] = s[i]
      /\ Append(s, e)[Len(s) + 1] = e
  BY LenProperties, AppendProperties
<1>2. /\ \A i \in 1 .. Len(s) + 1 : i \in 1 .. Len(s) \/ i = Len(s) + 1
      /\ \A i \in 1 .. Len(s) : i \in 1 .. Len(s) + 1
      /\ Len(s) + 1 \in 1 .. Len(s) + 1
  BY <1>1
<1>3. QED
  BY <1>1, <1>2 DEF Among

\* A sequence to which something new is appended has it once.
LEMMA DistinctAppend ==
    ASSUME NEW S, NEW s \in Seq(S), NEW e \in S, Distinct(s), ~Among(e, s)
    PROVE  Distinct(Append(s, e))
<1>1. /\ Len(s) \in Nat /\ DOMAIN s = 1 .. Len(s) /\ DOMAIN Append(s, e) = 1 .. Len(s) + 1
      /\ \A i \in 1 .. Len(s) : Append(s, e)[i] = s[i]
      /\ Append(s, e)[Len(s) + 1] = e
  BY LenProperties, AppendProperties
<1>2. \A i \in 1 .. Len(s) + 1 : i \in 1 .. Len(s) \/ i = Len(s) + 1
  BY <1>1
<1>3. \A i \in 1 .. Len(s) : s[i] # e
  BY <1>1 DEF Among
<1>4. QED
  BY <1>1, <1>2, <1>3 DEF Distinct

\* The command that the server reads.
LEMMA FirstCommand ==
    ASSUME ConnInv, NEW c \in Clients, toServer[c] # <<>>
    PROVE  /\ Head(toServer[c]) \in Command /\ Head(toServer[c]) = toServer[c][1]
           /\ Head(toServer[c]).id \in Nat
           /\ Tail(toServer[c]) \in Seq(Command) /\ 1 \in DOMAIN toServer[c]
<1> DEFINE s == toServer[c]
<1>1. s \in Seq(Command) /\ s # <<>>
  BY DEF ConnInv, TypeOK
<1> HIDE DEF s
<1>2. Head(s) \in Command /\ Tail(s) \in Seq(Command)
  BY <1>1, HeadTailProperties
<1>3. Head(s) = s[1] /\ 1 \in DOMAIN s
  BY <1>1, EmptySeq, LenProperties
<1>4. Head(s).id \in Nat
  BY <1>2 DEF Command
<1>5. QED
  BY <1>2, <1>3, <1>4 DEF s

\* The document as a client finds it is one.
LEMMA OpenedType ==
    ASSUME ConnInv
    PROVE  /\ Opened \in Document /\ Opened # None /\ OpeningState(Opened) \in Message
           /\ (doc = None => Unwound(Opened) = Opened.content)
<1>1. doc \in Document \cup {None} /\ disk.content \in Contents \cup {Damaged}
  BY DEF ConnInv, TypeOK
<1>2. /\ NewDocument(disk.content) \in Document
      /\ Unwound(NewDocument(disk.content)) = NewDocument(disk.content).content
  BY <1>1, OpenedDocument
<1>3. QED
  BY <1>1, <1>2, EditorAssumption, MessageTypes DEF Opened

\* A client that opens the document is one more connection and one more entry of
\* its list.
LEMMA OpenCounts ==
    ASSUME ConnInv, NEW c \in Clients, toServer[c] # <<>>, toServer'[c] = Tail(toServer[c]),
           Head(toServer[c]).type = "kOpen", OpenDocumentForClient(c, Head(toServer[c]).id)
    PROVE  Counts
<1> DEFINE id == Head(toServer[c]).id
           e == Entry(c, id)
           one == <<e>>
           message == OpeningState(Opened)
<1>1. id \in Nat /\ 1 \in DOMAIN toServer[c] /\ toServer[c][1].type = "kOpen" /\ toServer[c][1].id = id
  BY FirstCommand
<1>2. e \in Conn /\ one \in Seq(Conn)
  BY <1>1 DEF Conn, Entry
<1>3. ~Among(e, connections)
  BY <1>1 DEF ConnInv, OpensAreFresh
<1>4. /\ connections \in Seq(Conn) /\ Distinct(connections) /\ documentList \in [Clients -> Seq(Nat)]
      /\ toClient \in [Clients -> Seq(Letter)] /\ disk \in [content : Contents \cup {Damaged}, time : Nat]
      /\ \A d \in Clients : Len(documentList[d]) = Occurrences(connections, Mine(d))
  BY DEF ConnInv, TypeOK, ListsCountConnections
<1>5. /\ connections' = Append(connections, e) /\ doc' = Opened /\ disk' = disk
      /\ documentList' = [documentList EXCEPT ![c] = Append(@, id)]
      /\ toClient' = Send(toClient, one, message)
  BY DEF OpenDocumentForClient, Entry
<1>6. Opened \in Document /\ Opened # None /\ message \in Message
  BY OpenedType
<1>7. Informs(c, id)
  BY <1>1 DEF Informs
<1>8. \A V : Occurrences(Append(connections, e), V) = Occurrences(connections, V) + IF e \in V THEN 1 ELSE 0
  BY <1>2, <1>4, OccurrencesAfterAppend
<1>9. \A d \in Clients : e \in Mine(d) <=> d = c
  BY <1>1 DEF Mine, Entry
<1>10. \A x : Among(x, one) => x = e
  BY DEF Among
<1> HIDE DEF id, e, one, message
<1>11. /\ connections' \in Seq(Conn) /\ Distinct(connections') /\ connections' # <<>>
       /\ \A x : Among(x, connections') <=> Among(x, connections) \/ x = e
  BY <1>2, <1>3, <1>4, <1>5, AppendProperties, AmongAppend, DistinctAppend
<1>12. documentList' \in [Clients -> Seq(Nat)]
  BY <1>1, <1>4, <1>5, AppendProperties
<1>13. ASSUME NEW d \in Clients PROVE Len(documentList'[d]) = Occurrences(connections', Mine(d))
  <2>1. Occurrences(connections, Mine(d)) \in Nat
    BY <1>4, OccurrencesAreNatural
  <2>2. CASE d = c
    <3>1. documentList'[d] = Append(documentList[d], id)
      BY <1>4, <1>5, <2>2
    <3>2. Len(documentList'[d]) = Len(documentList[d]) + 1
      BY <1>1, <1>4, <3>1, AppendProperties
    <3>3. QED BY <1>4, <1>5, <1>8, <1>9, <2>2, <3>2
  <2>3. CASE d # c
    <3>1. documentList'[d] = documentList[d]
      BY <1>4, <1>5, <2>3
    <3>2. QED BY <1>4, <1>5, <1>8, <1>9, <2>1, <2>3, <3>1
  <2>4. QED BY <2>2, <2>3
<1>14. /\ toClient' \in [Clients -> Seq(Letter)]
       /\ \A d \in Clients : Extended(toClient'[d], toClient[d], d, one)
  BY <1>2, <1>4, <1>5, <1>6, SendProperties
<1>15. \A d \in Clients : Extended(toClient'[d], toClient[d], d, connections')
  BY <1>10, <1>11, <1>14 DEF Extended
<1>16. ASSUME NEW d \in Clients, NEW i, Among(Entry(d, i), connections')
       PROVE  Among(Entry(d, i), connections) \/ Informs(d, i)
  <2>1. CASE Entry(d, i) = e
    <3>1. d = c /\ i = id
      BY <2>1 DEF Entry, e
    <3>2. QED BY <1>7, <3>1
  <2>2. QED BY <1>11, <1>16, <2>1
<1>17. QED
  BY <1>4, <1>5, <1>6, <1>11, <1>12, <1>13, <1>14, <1>15, <1>16 DEF Counts

\* The last to go closes the document.
LEMMA LeftWithCloses ==
    ASSUME ConnInv, doc # None, NEW remaining \in Seq(Conn), LeftWith(remaining)
    PROVE  /\ connections' = remaining
           /\ doc' \in Document \cup {None} /\ (doc' = None <=> connections' = <<>>)
           /\ disk' \in [content : Contents \cup {Damaged}, time : Nat]
<1>1. doc \in Document /\ doc.content \in Contents /\ disk \in [content : Contents \cup {Damaged}, time : Nat]
  BY DEF ConnInv, TypeOK, Document
<1>2. CASE remaining = <<>>
  <2>1. connections' = remaining /\ doc' = None /\ Write(doc.content)
    BY <1>2 DEF LeftWith
  <2>2. QED BY <1>1, <1>2, <2>1, WriteType
<1>3. CASE remaining # <<>>
  BY <1>1, <1>3 DEF LeftWith
<1>4. QED
  BY <1>2, <1>3

\* Fewer connections count as well, when nothing is sent.
LEMMA FewerCount ==
    ASSUME ConnInv, NEW c \in Clients, doc # None, NEW remaining \in Seq(Conn), LeftWith(remaining),
           \A x : Among(x, remaining) => Among(x, connections),
           Distinct(remaining),
           \A d \in Clients \ {c} : Occurrences(remaining, Mine(d)) = Occurrences(connections, Mine(d)),
           NEW list \in Seq(Nat), documentList' = [documentList EXCEPT ![c] = list],
           Len(list) = Occurrences(remaining, Mine(c)), toClient' = toClient
    PROVE  Counts
<1>1. /\ connections' = remaining
      /\ doc' \in Document \cup {None} /\ (doc' = None <=> connections' = <<>>)
      /\ disk' \in [content : Contents \cup {Damaged}, time : Nat]
  BY LeftWithCloses
<1>2. /\ documentList \in [Clients -> Seq(Nat)] /\ toClient \in [Clients -> Seq(Letter)]
      /\ \A d \in Clients : Len(documentList[d]) = Occurrences(connections, Mine(d))
  BY DEF ConnInv, TypeOK, ListsCountConnections
<1>3. /\ documentList' \in [Clients -> Seq(Nat)]
      /\ \A d \in Clients : documentList'[d] = IF d = c THEN list ELSE documentList[d]
  BY <1>2
<1>4. \A d \in Clients : Len(documentList'[d]) = Occurrences(connections', Mine(d))
  BY <1>1, <1>2, <1>3
<1>5. \A d \in Clients : Len(toClient[d]) \in Nat
  BY <1>2, LenProperties
<1>6. \A d \in Clients : Extended(toClient'[d], toClient[d], d, connections')
  BY <1>5 DEF Extended
<1>7. QED
  BY <1>1, <1>2, <1>3, <1>4, <1>6 DEF Counts

\* A client that closes a document is one connection and one entry less.
LEMMA CloseCounts ==
    ASSUME ConnInv, NEW c \in Clients, NEW id, HasDocument(c, id), HandleClose(c)
    PROVE  Counts
<1> DEFINE remaining == WithoutOneOf(c, connections)
           list == RemoveQuick(documentList[c], 1)
<1>1. /\ doc # None /\ documentList[c] # <<>> /\ Occurrences(connections, Mine(c)) # 0
      /\ connections \in Seq(Conn) /\ Distinct(connections)
      /\ documentList[c] \in Seq(Nat) /\ Len(documentList[c]) = Occurrences(connections, Mine(c))
  BY HasDocumentIsOpen DEF ConnInv, TypeOK, ListsCountConnections
<1>2. /\ remaining \in Seq(Conn) /\ Distinct(remaining)
      /\ \A x : Among(x, remaining) => Among(x, connections)
      /\ Occurrences(remaining, Mine(c)) = Occurrences(connections, Mine(c)) - 1
      /\ \A d \in Clients \ {c} : Occurrences(remaining, Mine(d)) = Occurrences(connections, Mine(d))
  BY <1>1, WithoutOneOfProperties
<1>3. 1 \in 1 .. Len(documentList[c])
  BY <1>1, EmptySeq
<1>4. list \in Seq(Nat) /\ Len(list) = Len(documentList[c]) - 1
  BY <1>1, <1>3, RemoveQuickProperties
<1>5. LeftWith(remaining) /\ documentList' = [documentList EXCEPT ![c] = list] /\ toClient' = toClient
  BY DEF HandleClose
<1> HIDE DEF remaining, list
<1>6. Len(list) = Occurrences(remaining, Mine(c))
  BY <1>1, <1>2, <1>4
<1>7. QED
  BY <1>1, <1>2, <1>4, <1>5, <1>6, FewerCount

\* None is left of a client whose connection is lost.
LEMMA DisconnectCounts ==
    ASSUME ConnInv, NEW c \in Clients, HandleDisconnected(c)
    PROVE  Counts /\ documentList'[c] = <<>> /\ \A id : ~Among(Entry(c, id), connections')
<1> DEFINE remaining == Left(c, connections, documentList[c])
           z == <<>>
<1>1. /\ connections \in Seq(Conn) /\ Distinct(connections) /\ documentList \in [Clients -> Seq(Nat)]
      /\ documentList[c] \in Seq(Nat) /\ Len(documentList[c]) = Occurrences(connections, Mine(c))
  BY DEF ConnInv, TypeOK, ListsCountConnections
<1>2. /\ remaining \in Seq(Conn) /\ Distinct(remaining)
      /\ \A x : Among(x, remaining) => Among(x, connections)
      /\ Occurrences(remaining, Mine(c)) = 0
      /\ \A d \in Clients \ {c} : Occurrences(remaining, Mine(d)) = Occurrences(connections, Mine(d))
  BY <1>1, LeftProperties
<1>3. z \in Seq(Nat) /\ Len(z) = 0 /\ \A s \in Seq(Nat) : Len(s) = 0 <=> s = z
  BY EmptySeq
<1>4. documentList' = [documentList EXCEPT ![c] = z] /\ toClient' = toClient
  BY DEF HandleDisconnected
<1>5. documentList'[c] = z
  BY <1>1, <1>4
<1>6. CASE documentList[c] = z
  <2>1. UNCHANGED <<doc, disk, connections>>
    BY <1>6 DEF HandleDisconnected
  <2>2. documentList' = documentList
    BY <1>1, <1>4, <1>6
  <2>3. Counts
    BY <1>4, <2>1, <2>2, SilenceTalks, TalksCounts
  <2>4. Occurrences(connections', Mine(c)) = 0 /\ connections' \in Seq(Conn)
    BY <1>1, <1>3, <1>6, <2>1
  <2>5. QED BY <2>3, <2>4, <1>5, NoneAmong
<1>7. CASE documentList[c] # z
  <2>1. LeftWith(remaining)
    BY <1>7 DEF HandleDisconnected, Left
  <2>2. doc # None
    <3>1. Occurrences(connections, Mine(c)) # 0
      BY <1>1, <1>3, <1>7
    <3>2. connections # <<>>
      BY <1>1, <3>1, NoneCounted, EmptySeq
    <3>3. QED BY <3>2 DEF ConnInv, OpenForSomeone
  <2> HIDE DEF remaining, z
  <2>3. Counts
    BY <1>2, <1>3, <1>4, <2>1, <2>2, FewerCount
  <2>4. connections' = remaining
    BY <2>1 DEF LeftWith
  <2>5. QED BY <1>2, <1>5, <2>3, <2>4, NoneAmong DEF z
<1>8. QED
  BY <1>6, <1>7

\* The server opens, closes or loses a document, or else it talks.
LEMMA CommandCases ==
    ASSUME ConnInv, NEW c \in Clients, ProcessMessage(c)
    PROVE  LET m == Head(toServer[c]) IN
           \/ m.type = "kOpen" /\ OpenDocumentForClient(c, m.id)
           \/ m.type = "kDisconnected" /\ HandleDisconnected(c)
           \/ m.type = "kClose" /\ HasDocument(c, m.id) /\ HandleClose(c)
           \/ /\ m.type \notin {"kOpen", "kDisconnected"} /\ (m.type = "kClose" => ~HasDocument(c, m.id))
              /\ Talks
<1> DEFINE m == Head(toServer[c])
<1>1. toServer[c] # <<>> /\ (Handles(c, m) \/ Ignores(c, m))
  BY DEF ProcessMessage
<1>2. m \in Command
  BY <1>1, FirstCommand
<1> HIDE DEF m
<1>3. CASE Ignores(c, m)
  <2>1. Talks
    BY <1>3, SilenceTalks DEF Ignores, serverVars
  <2>2. m.type \notin {"kOpen", "kDisconnected"} /\ (m.type = "kClose" => ~HasDocument(c, m.id))
    BY <1>3 DEF Ignores
  <2>3. QED BY <2>1, <2>2 DEF m
<1>4. CASE m.type = "kOpen" /\ OpenDocumentForClient(c, m.id)
  BY <1>4 DEF m
<1>5. CASE m.type = "kDisconnected" /\ HandleDisconnected(c)
  BY <1>5 DEF m
<1>6. CASE m.type = "kClose" /\ HasDocument(c, m.id) /\ HandleClose(c)
  BY <1>6 DEF m
<1>7. CASE HasDocument(c, m.id) /\ m.type = "kChange" /\ HandleChange(m.changes)
  <2>1. m.changes \in Seq(Change)
    BY <1>2, <1>7 DEF Command
  <2>2. Talks
    BY <1>7, <2>1, ChangeTalks
  <2>3. QED BY <1>7, <2>2 DEF m
<1>8. CASE HasDocument(c, m.id) /\ m.type = "kUndo" /\ HandleUndo
  <2>1. Talks
    BY <1>8, UndoTalks
  <2>2. QED BY <1>8, <2>1 DEF m
<1>9. CASE HasDocument(c, m.id) /\ m.type = "kRedo" /\ HandleRedo
  <2>1. Talks
    BY <1>9, RedoTalks
  <2>2. QED BY <1>9, <2>1 DEF m
<1>10. CASE HasDocument(c, m.id) /\ m.type = "kSave" /\ HandleSave
  <2>1. Talks
    BY <1>10, SaveTalks
  <2>2. QED BY <1>10, <2>1 DEF m
<1>11. QED
  BY <1>1, <1>3, <1>4, <1>5, <1>6, <1>7, <1>8, <1>9, <1>10 DEF Handles

\* A command is one of the server's own steps.
LEMMA ProcessServes ==
    ASSUME ConnInv, NEW c \in Clients, ProcessMessage(c), tabs' = tabs
    PROVE  /\ ServerOnly /\ toServer'[c] = Tail(toServer[c]) /\ toServer[c] # <<>>
           /\ \A d \in Clients \ {c} : toServer'[d] = toServer[d]
           /\ connected' = IF Head(toServer[c]).type = "kDisconnected" THEN connected \cup {c} ELSE connected
<1>1. /\ toServer[c] # <<>> /\ toServer' = [toServer EXCEPT ![c] = Tail(@)]
      /\ connected' = IF Head(toServer[c]).type = "kDisconnected" THEN connected \cup {c} ELSE connected
      /\ toServer \in [Clients -> Seq(Command)] /\ connected \in SUBSET Clients
  BY DEF ProcessMessage, ConnInv, TypeOK
<1>2. Tail(toServer[c]) \in Seq(Command)
  BY <1>1, FirstCommand
<1>3. /\ toServer' \in [Clients -> Seq(Command)] /\ toServer'[c] = Tail(toServer[c])
      /\ \A d \in Clients \ {c} : toServer'[d] = toServer[d]
  BY <1>1, <1>2
<1>4. \A d \in Clients : Consumes(d)
  BY <1>1, <1>3 DEF Consumes
<1>5. QED
  BY <1>1, <1>3, <1>4 DEF ServerOnly

\* A command that is gone was read.
LEMMA ReadIsProcessed ==
    ASSUME ConnInv, ServerStep, NEW c \in Clients, toServer[c] # <<>>, toServer'[c] = Tail(toServer[c])
    PROVE  ProcessMessage(c)
<1>1. toServer'[c] # toServer[c]
  <2> SUFFICES ASSUME toServer[c] = Tail(toServer[c]) PROVE FALSE
    OBVIOUS
  <2>1. toServer[c] \in Seq(Command)
    BY DEF ConnInv, TypeOK
  <2>2. Len(toServer[c]) = Len(toServer[c]) - 1 /\ Len(toServer[c]) \in Nat
    BY <2>1, HeadTailProperties, LenProperties
  <2>3. QED BY <2>2
<1>2. ~FileModified
  BY <1>1 DEF FileModified
<1>3. PICK d \in Clients : ProcessMessage(d)
  BY <1>2 DEF ServerStep
<1>4. d = c
  BY <1>1, <1>3, ProcessServes DEF ServerStep, Remember
<1>5. QED
  BY <1>3, <1>4

\* Every step of the server counts.
LEMMA ServerCounts ==
    ASSUME ConnInv, ServerStep
    PROVE  ServerOnly /\ Counts
<1>1. tabs' = tabs
  BY DEF ServerStep, Remember
<1>2. CASE FileModified
  <2>1. Counts
    BY <1>2, FileModifiedTalks, TalksCounts
  <2>2. toServer' = toServer /\ connected' = connected
    BY <1>2 DEF FileModified
  <2>3. QED BY <1>1, <2>1, <2>2 DEF ServerOnly, Consumes, ConnInv, TypeOK
<1>3. ASSUME NEW c \in Clients, ProcessMessage(c) PROVE ServerOnly /\ Counts
  <2>1. ServerOnly /\ toServer'[c] = Tail(toServer[c]) /\ toServer[c] # <<>>
    BY <1>1, <1>3, ProcessServes
  <2>2. Counts
    BY <1>3, <2>1, CommandCases, OpenCounts, CloseCounts, DisconnectCounts, TalksCounts
  <2>3. QED BY <2>1, <2>2
<1>4. QED
  BY <1>2, <1>3 DEF ServerStep

-----------------------------------------------------------------------------
(* Steps of the editors, and what the connections agree on.                 *)

\* The editors do what they do without the server.
EditorOnly ==
    /\ UNCHANGED <<doc, connections, documentList>>
    /\ disk' \in [content : Contents \cup {Damaged}, time : Nat]

\* An open tab has a number and a copy of the document.
LEMMA OpenTabType ==
    ASSUME ConnInv, NEW c \in Clients, NEW id \in OpenTabs(c)
    PROVE  id \in DOMAIN tabs[c] /\ tabs[c][id] \in Tab /\ id \in Nat /\ id # 0
<1>1. tabs[c] \in Seq(Tab \cup {None}) /\ id \in DOMAIN tabs[c] /\ tabs[c][id] # None
  BY DEF ConnInv, TypeOK, OpenTabs
<1>2. DOMAIN tabs[c] = 1 .. Len(tabs[c]) /\ Len(tabs[c]) \in Nat
  BY <1>1, LenProperties
<1>3. tabs[c][id] \in Tab \cup {None}
  BY <1>1, <1>2, ElementOfSeq
<1>4. QED
  BY <1>1, <1>2, <1>3

\* What the editors keep: no tab goes out of the list, no letter comes, and a new
\* command to open is of a tab that is new.
EditorKeeps ==
    /\ connected' \in SUBSET Clients
    /\ toServer' \in [Clients -> Seq(Command)]
    /\ toClient' \in [Clients -> Seq(Letter)]
    /\ tabs' \in [Clients -> Seq(Tab \cup {None})]
    /\ \A d \in Clients :
          /\ DOMAIN tabs[d] \subseteq DOMAIN tabs'[d]
          /\ \A i \in DOMAIN toClient'[d] : \E j \in DOMAIN toClient[d] : toClient'[d][i] = toClient[d][j]
          /\ \A i \in DOMAIN toServer'[d] : toServer'[d][i].type = "kOpen" =>
                \/ i \in DOMAIN toServer[d] /\ toServer'[d][i] = toServer[d][i]
                \/ /\ toServer'[d][i].id \in DOMAIN tabs'[d] \ DOMAIN tabs[d]
                   /\ \A j \in DOMAIN toServer'[d] : j # i =>
                         j \in DOMAIN toServer[d] /\ toServer'[d][j] = toServer[d][j]
          /\ d \in Clients \ connected' => (OpenTabs(d))' = {}

\* They keep what the connections agree on.
LEMMA EditorKeepsConnInv ==
    ASSUME ConnInv, EditorOnly, EditorKeeps
    PROVE  ConnInv'
<1>1. /\ TypeOK' /\ OpenForSomeone' /\ ListsCountConnections' /\ Distinct(connections)'
  BY DEF ConnInv, TypeOK, OpenForSomeone, ListsCountConnections, Distinct, EditorOnly, EditorKeeps
<1>2. TabsAreOnline'
  BY DEF TabsAreOnline, EditorKeeps
<1>3. connections' = connections
  BY DEF EditorOnly
<1>4. ASSUME NEW d \in Clients
      PROVE  /\ \A id : Among(Entry(d, id), connections') => id \in DOMAIN tabs'[d]
             /\ \A i \in DOMAIN toClient'[d] : toClient'[d][i].id \in DOMAIN tabs'[d]
             /\ \A i \in DOMAIN toServer'[d] : toServer'[d][i].type = "kOpen" => toServer'[d][i].id \in DOMAIN tabs'[d]
  <2>1. /\ \A id : Among(Entry(d, id), connections) => id \in DOMAIN tabs[d]
        /\ \A i \in DOMAIN toClient[d] : toClient[d][i].id \in DOMAIN tabs[d]
        /\ \A i \in DOMAIN toServer[d] : toServer[d][i].type = "kOpen" => toServer[d][i].id \in DOMAIN tabs[d]
    BY DEF ConnInv, IdsAreKnown
  <2>2. /\ DOMAIN tabs[d] \subseteq DOMAIN tabs'[d]
        /\ \A i \in DOMAIN toClient'[d] : \E j \in DOMAIN toClient[d] : toClient'[d][i] = toClient[d][j]
        /\ \A i \in DOMAIN toServer'[d] : toServer'[d][i].type = "kOpen" =>
              \/ i \in DOMAIN toServer[d] /\ toServer'[d][i] = toServer[d][i]
              \/ toServer'[d][i].id \in DOMAIN tabs'[d]
    BY DEF EditorKeeps
  <2>3. \A id : Among(Entry(d, id), connections') => id \in DOMAIN tabs'[d]
    <3>1. \A id : Among(Entry(d, id), connections) => id \in DOMAIN tabs'[d]
      BY <2>1, <2>2
    <3>2. QED BY <1>3, <3>1
  <2>4. \A i \in DOMAIN toClient'[d] : toClient'[d][i].id \in DOMAIN tabs'[d]
    BY <2>1, <2>2
  <2>5. \A i \in DOMAIN toServer'[d] : toServer'[d][i].type = "kOpen" => toServer'[d][i].id \in DOMAIN tabs'[d]
    BY <2>1, <2>2
  <2>6. QED BY <2>3, <2>4, <2>5
<1>5. IdsAreKnown'
  BY <1>4 DEF IdsAreKnown
<1>6. ASSUME NEW d \in Clients, NEW i \in DOMAIN toServer'[d], toServer'[d][i].type = "kOpen"
      PROVE  /\ ~Among(Entry(d, toServer'[d][i].id), connections')
             /\ \A j \in DOMAIN toServer'[d] :
                   toServer'[d][j].type = "kOpen" /\ toServer'[d][j].id = toServer'[d][i].id => i = j
  <2> DEFINE old == toServer[d]
             new == toServer'[d]
             id == new[i].id
  <2>1. /\ \A x : Among(Entry(d, x), connections) => x \in DOMAIN tabs[d]
        /\ \A j \in DOMAIN old : old[j].type = "kOpen" => old[j].id \in DOMAIN tabs[d]
    BY DEF ConnInv, IdsAreKnown
  <2>2. \A j \in DOMAIN new : new[j].type = "kOpen" =>
           \/ j \in DOMAIN old /\ new[j] = old[j]
           \/ /\ new[j].id \in DOMAIN tabs'[d] \ DOMAIN tabs[d]
              /\ \A k \in DOMAIN new : k # j => k \in DOMAIN old /\ new[k] = old[k]
    BY DEF EditorKeeps
  <2>3. \A j \in DOMAIN old : old[j].type = "kOpen" =>
           /\ ~Among(Entry(d, old[j].id), connections)
           /\ \A k \in DOMAIN old : old[k].type = "kOpen" /\ old[k].id = old[j].id => j = k
    BY DEF ConnInv, OpensAreFresh
  <2>4. i \in DOMAIN new /\ new[i].type = "kOpen"
    BY <1>6
  <2> HIDE DEF old, new
  <2>5. ~Among(Entry(d, id), connections)
    BY <2>1, <2>2, <2>3, <2>4
  <2>6. ASSUME NEW j \in DOMAIN new, new[j].type = "kOpen", new[j].id = id PROVE i = j
    BY <2>1, <2>2, <2>3, <2>4, <2>6
  <2>7. QED BY <1>3, <2>5, <2>6 DEF new
<1>7. OpensAreFresh'
  BY <1>6 DEF OpensAreFresh
<1>8. QED
  BY <1>1, <1>2, <1>5, <1>7 DEF ConnInv

\* A command that is sent goes to the end of the pipe.
LEMMA SentCommand ==
    ASSUME ConnInv, NEW c \in Clients, NEW m \in Command, SendData(c, m)
    PROVE  /\ toServer' \in [Clients -> Seq(Command)]
           /\ Len(toServer[c]) \in Nat /\ DOMAIN toServer[c] = 1 .. Len(toServer[c])
           /\ toServer'[c] = Append(toServer[c], m)
           /\ DOMAIN toServer'[c] = 1 .. Len(toServer[c]) + 1
           /\ \A i \in 1 .. Len(toServer[c]) : toServer'[c][i] = toServer[c][i]
           /\ toServer'[c][Len(toServer[c]) + 1] = m
           /\ \A d \in Clients \ {c} : toServer'[d] = toServer[d]
<1>1. toServer \in [Clients -> Seq(Command)] /\ toServer' = [toServer EXCEPT ![c] = Append(@, m)]
  BY DEF ConnInv, TypeOK, SendData
<1>2. /\ Append(toServer[c], m) \in Seq(Command)
      /\ Len(Append(toServer[c], m)) = Len(toServer[c]) + 1
      /\ \A i \in 1 .. Len(toServer[c]) : Append(toServer[c], m)[i] = toServer[c][i]
      /\ Append(toServer[c], m)[Len(toServer[c]) + 1] = m
  BY <1>1, AppendProperties
<1>3. toServer'[c] = Append(toServer[c], m) /\ \A d \in Clients \ {c} : toServer'[d] = toServer[d]
  BY <1>1
<1>4. toServer' \in [Clients -> Seq(Command)]
  BY <1>1, <1>2
<1>5. /\ Len(toServer[c]) \in Nat /\ DOMAIN toServer[c] = 1 .. Len(toServer[c])
      /\ DOMAIN Append(toServer[c], m) = 1 .. Len(toServer[c]) + 1
  BY <1>1, <1>2, LenProperties
<1>6. QED
  BY <1>2, <1>3, <1>4, <1>5

\* The commands to open on their way from d are those that were there, but for one
\* that opens a tab of ids.
OpensAtMost(d, ids) ==
    \A i \in DOMAIN toServer'[d] : toServer'[d][i].type = "kOpen" =>
        \/ i \in DOMAIN toServer[d] /\ toServer'[d][i] = toServer[d][i]
        \/ /\ toServer'[d][i].id \in ids
           /\ \A j \in DOMAIN toServer'[d] : j # i =>
                 j \in DOMAIN toServer[d] /\ toServer'[d][j] = toServer[d][j]

\* A command to open is one of those that were there, or the one that was sent.
LEMMA NewCommands ==
    ASSUME ConnInv, NEW c \in Clients, NEW m \in Command, SendData(c, m),
           NEW ids, m.type = "kOpen" => m.id \in ids
    PROVE  OpensAtMost(c, ids) /\ \A d \in Clients \ {c} : OpensAtMost(d, {})
<1>1. \A d \in Clients \ {c} : OpensAtMost(d, {})
  BY SentCommand DEF OpensAtMost
<1>2. OpensAtMost(c, ids)
  <2> DEFINE old == toServer[c]
             new == toServer'[c]
             n == Len(toServer[c])
  <2>1. /\ n \in Nat /\ DOMAIN old = 1 .. n /\ DOMAIN new = 1 .. n + 1
        /\ \A i \in 1 .. n : new[i] = old[i]
        /\ new[n + 1] = m
    BY SentCommand
  <2> HIDE DEF old, new, n
  <2>2. \A i \in 1 .. n + 1 : i \in 1 .. n \/ i = n + 1
    BY <2>1
  <2>3. \A i \in DOMAIN new : new[i].type = "kOpen" =>
           \/ i \in DOMAIN old /\ new[i] = old[i]
           \/ /\ new[i].id \in ids
              /\ \A j \in DOMAIN new : j # i => j \in DOMAIN old /\ new[j] = old[j]
    BY <2>1, <2>2
  <2>4. QED BY <2>3 DEF old, new, OpensAtMost
<1>3. QED
  BY <1>1, <1>2

\* A tab that changes keeps its place.
LEMMA TabChanges ==
    ASSUME ConnInv, NEW c \in Clients, NEW id \in OpenTabs(c), NEW tab \in Tab \cup {None},
           tabs' = [tabs EXCEPT ![c] = [@ EXCEPT ![id] = tab]]
    PROVE  /\ tabs' \in [Clients -> Seq(Tab \cup {None})]
           /\ DOMAIN tabs'[c] = DOMAIN tabs[c]
           /\ tabs'[c][id] = tab /\ \A i \in DOMAIN tabs[c] : i # id => tabs'[c][i] = tabs[c][i]
           /\ \A d \in Clients \ {c} : tabs'[d] = tabs[d]
           /\ \A d \in Clients : OpenTabs(d) = {} => (OpenTabs(d))' = {}
           /\ (OpenTabs(c))' = IF tab = None THEN OpenTabs(c) \ {id} ELSE OpenTabs(c)
           /\ \A d \in Clients \ {c} : (OpenTabs(d))' = OpenTabs(d)
<1>1. tabs \in [Clients -> Seq(Tab \cup {None})] /\ id \in DOMAIN tabs[c] /\ tabs[c][id] # None
  BY DEF ConnInv, TypeOK, OpenTabs
<1>2. DOMAIN tabs[c] = 1 .. Len(tabs[c])
  BY <1>1, LenProperties
<1>3. /\ [tabs[c] EXCEPT ![id] = tab] \in Seq(Tab \cup {None})
      /\ Len([tabs[c] EXCEPT ![id] = tab]) = Len(tabs[c])
      /\ \A j \in 1 .. Len(tabs[c]) : [tabs[c] EXCEPT ![id] = tab][j] = IF j = id THEN tab ELSE tabs[c][j]
  BY <1>1, <1>2, ExceptSeq
<1>4. tabs'[c] = [tabs[c] EXCEPT ![id] = tab] /\ \A d \in Clients \ {c} : tabs'[d] = tabs[d]
  BY <1>1
<1>5. tabs' \in [Clients -> Seq(Tab \cup {None})]
  BY <1>1, <1>3
<1>6. DOMAIN tabs'[c] = DOMAIN tabs[c]
  BY <1>4
<1>7. tabs'[c][id] = tab /\ \A i \in DOMAIN tabs[c] : i # id => tabs'[c][i] = tabs[c][i]
  BY <1>1, <1>2, <1>3, <1>4
<1>8. \A d \in Clients \ {c} : (OpenTabs(d))' = OpenTabs(d)
  BY <1>4 DEF OpenTabs
<1>9. (OpenTabs(c))' = IF tab = None THEN OpenTabs(c) \ {id} ELSE OpenTabs(c)
  BY <1>1, <1>6, <1>7 DEF OpenTabs
<1>10. \A d \in Clients : OpenTabs(d) = {} => (OpenTabs(d))' = {}
  BY <1>8, <1>9
<1>11. QED
  BY <1>4, <1>5, <1>6, <1>7, <1>8, <1>9, <1>10

\* A tab that is opened is new.
LEMMA OpenTabKeeps ==
    ASSUME ConnInv, NEW c \in Clients, OpenTab(c)
    PROVE  /\ EditorOnly /\ EditorKeeps
           /\ tabs'[c] = Append(tabs[c], NewTab) /\ \A d \in Clients \ {c} : tabs'[d] = tabs[d]
           /\ Len(tabs[c]) + 1 \notin DOMAIN tabs[c] /\ (OpenTabs(c))' = OpenTabs(c) \cup {Len(tabs[c]) + 1}
           /\ \A d \in Clients \ {c} : (OpenTabs(d))' = OpenTabs(d)
<1> DEFINE id == Len(tabs[c]) + 1
           m == [type |-> "kOpen", id |-> id]
           T == Tab \cup {None}
           a == Append(tabs[c], NewTab)
<1>1. /\ c \in connected /\ connected' = connected /\ connected \in SUBSET Clients
      /\ tabs' = [tabs EXCEPT ![c] = a] /\ tabs \in [Clients -> Seq(T)] /\ SendData(c, m)
      /\ toClient' = toClient /\ toClient \in [Clients -> Seq(Letter)]
  BY DEF OpenTab, ConnInv, TypeOK
<1>2. NewTab \in Tab
  BY EmptyFileType DEF NewTab, Tab
<1>3. NewTab \in T /\ NewTab # None
  BY <1>2, EditorAssumption
<1> HIDE DEF T
<1>4. Len(tabs[c]) \in Nat /\ DOMAIN tabs[c] = 1 .. Len(tabs[c])
  BY <1>1, LenProperties
<1>5. /\ a \in Seq(T) /\ Len(a) = id /\ a[id] = NewTab /\ \A i \in 1 .. Len(tabs[c]) : a[i] = tabs[c][i]
  BY <1>1, <1>3, AppendProperties
<1>6. DOMAIN a = 1 .. id
  BY <1>5, LenProperties
<1> HIDE DEF a
<1>7. tabs' \in [Clients -> Seq(T)] /\ tabs'[c] = a /\ \A d \in Clients \ {c} : tabs'[d] = tabs[d]
  BY <1>1, <1>5
<1>8. m \in Command
  BY <1>4 DEF Command
<1>9. id \in DOMAIN a \ DOMAIN tabs[c] /\ DOMAIN tabs[c] \subseteq DOMAIN a
  BY <1>4, <1>6
<1>10. (OpenTabs(c))' = OpenTabs(c) \cup {id}
  <2>1. \A i : i \in DOMAIN a <=> i \in DOMAIN tabs[c] \/ i = id
    BY <1>4, <1>6
  <2> HIDE DEF id
  <2>2. {i \in DOMAIN a : a[i] # None} = {i \in DOMAIN tabs[c] : tabs[c][i] # None} \cup {id}
    BY <1>3, <1>4, <1>5, <2>1
  <2>3. (OpenTabs(c))' = {i \in DOMAIN a : a[i] # None}
    BY <1>7 DEF OpenTabs
  <2>4. QED BY <2>2, <2>3 DEF OpenTabs
<1>11. \A d \in Clients \ {c} : (OpenTabs(d))' = OpenTabs(d)
  BY <1>7 DEF OpenTabs
<1>12. EditorOnly
  BY DEF OpenTab, serverVars, EditorOnly, ConnInv, TypeOK
<1>13. m.type = "kOpen" /\ m.id = id
  OBVIOUS
<1> HIDE DEF m, id
<1>14. toServer' \in [Clients -> Seq(Command)]
  BY <1>1, <1>8, SentCommand
<1>15. ASSUME NEW d \in Clients
       PROVE  /\ DOMAIN tabs[d] \subseteq DOMAIN tabs'[d]
              /\ \A i \in DOMAIN toServer'[d] : toServer'[d][i].type = "kOpen" =>
                    \/ i \in DOMAIN toServer[d] /\ toServer'[d][i] = toServer[d][i]
                    \/ /\ toServer'[d][i].id \in DOMAIN tabs'[d] \ DOMAIN tabs[d]
                       /\ \A j \in DOMAIN toServer'[d] : j # i =>
                             j \in DOMAIN toServer[d] /\ toServer'[d][j] = toServer[d][j]
  <2>1. m.type = "kOpen" => m.id \in {id}
    BY <1>13
  <2>2. OpensAtMost(c, {id}) /\ \A e \in Clients \ {c} : OpensAtMost(e, {})
    BY <1>1, <1>8, <2>1, NewCommands
  <2>3. CASE d = c
    BY <1>7, <1>9, <2>2, <2>3 DEF OpensAtMost
  <2>4. CASE d # c
    BY <1>7, <2>2, <2>4 DEF OpensAtMost
  <2>5. QED BY <2>3, <2>4
<1>16. \A d \in Clients \ connected : (OpenTabs(d))' = {}
  BY <1>1, <1>11 DEF ConnInv, TabsAreOnline
<1>17. EditorKeeps
  BY <1>1, <1>7, <1>14, <1>15, <1>16 DEF EditorKeeps, T
<1>18. QED
  BY <1>7, <1>9, <1>10, <1>11, <1>12, <1>17 DEF a, id

\* A command that opens nothing, sent for a tab that changes or goes.
LEMMA TabStepKeeps ==
    ASSUME ConnInv, NEW c \in Clients, NEW id \in OpenTabs(c), NEW tab \in Tab \cup {None},
           tabs' = [tabs EXCEPT ![c] = [@ EXCEPT ![id] = tab]],
           NEW m \in Command, SendData(c, m), m.type # "kOpen",
           UNCHANGED <<doc, connections, documentList, disk, connected, toClient>>
    PROVE  EditorOnly /\ EditorKeeps
<1>1. /\ connected \in SUBSET Clients /\ toClient \in [Clients -> Seq(Letter)]
      /\ disk \in [content : Contents \cup {Damaged}, time : Nat]
      /\ \A d \in Clients \ connected : OpenTabs(d) = {}
  BY DEF ConnInv, TypeOK, TabsAreOnline
<1>2. /\ tabs' \in [Clients -> Seq(Tab \cup {None})]
      /\ DOMAIN tabs'[c] = DOMAIN tabs[c] /\ \A d \in Clients \ {c} : tabs'[d] = tabs[d]
      /\ \A d \in Clients : OpenTabs(d) = {} => (OpenTabs(d))' = {}
  BY TabChanges
<1>3. toServer' \in [Clients -> Seq(Command)]
  BY SentCommand
<1>4. \A d \in Clients : \A i \in DOMAIN toServer'[d] : toServer'[d][i].type = "kOpen" =>
          i \in DOMAIN toServer[d] /\ toServer'[d][i] = toServer[d][i]
  <2>1. m.type = "kOpen" => m.id \in {}
    OBVIOUS
  <2>2. OpensAtMost(c, {}) /\ \A d \in Clients \ {c} : OpensAtMost(d, {})
    BY <2>1, NewCommands
  <2>3. \A d \in Clients : OpensAtMost(d, {})
    BY <2>2
  <2>4. QED BY <2>3 DEF OpensAtMost
<1>5. EditorKeeps
  BY <1>1, <1>2, <1>3, <1>4 DEF EditorKeeps
<1>6. QED
  BY <1>1, <1>5 DEF EditorOnly

\* What an edit makes of a tab.
Edited(tab, changes) ==
    [tab EXCEPT !.clientCopy = ApplyChanges(@, changes), !.hotSpots = @ \cup PathsOf(changes)]

\* An edit changes what the tab shows and makes hot what it writes.
LEMMA EditedTab ==
    ASSUME ConnInv, NEW c \in Clients, NEW id \in OpenTabs(c), NEW changes \in Transactions,
           Edit(c, id, changes)
    PROVE  LET u == Edited(tabs[c][id], changes) IN
           /\ changes \in Seq(Change) /\ u \in Tab /\ tabs' = [tabs EXCEPT ![c] = [@ EXCEPT ![id] = u]]
           /\ u.state = tabs[c][id].state /\ u.serverCopy = tabs[c][id].serverCopy
           /\ u.clientCopy = ApplyChanges(tabs[c][id].clientCopy, changes)
           /\ u.hotSpots = tabs[c][id].hotSpots \cup PathsOf(changes)
<1> DEFINE t == tabs[c][id]
           u == Edited(t, changes)
           x == ApplyChanges(t.clientCopy, changes)
           h == t.hotSpots \cup PathsOf(changes)
<1>1. changes \in Seq(Change) /\ t \in Tab /\ id \in DOMAIN tabs[c] /\ tabs \in [Clients -> Seq(Tab \cup {None})]
  BY OpenTabType, EditorAssumption DEF ConnInv, TypeOK
<1>2. x \in Contents /\ h \in SUBSET Paths
  <2>1. t.clientCopy \in Contents /\ t.hotSpots \in SUBSET Paths
    BY <1>1 DEF Tab
  <2>2. x \in Contents
    BY <1>1, <2>1, ApplyChangesFolds
  <2>3. \A i \in DOMAIN changes : changes[i] \in Change
    BY <1>1, ElementOfSeq, LenProperties
  <2>4. PathsOf(changes) \in SUBSET Paths
    BY <2>3 DEF PathsOf, Change
  <2>5. QED BY <2>1, <2>2, <2>4
<1>3. tabs' = [tabs EXCEPT ![c][id].clientCopy = x, ![c][id].hotSpots = h]
  <2>1. PathsOf(changes) = {changes[i].path : i \in DOMAIN changes}
    BY DEF PathsOf
  <2>2. tabs' = [tabs EXCEPT ![c][id].clientCopy = ApplyChanges(@, changes),
                             ![c][id].hotSpots = @ \cup PathsOf(changes)]
    BY <2>1 DEF Edit
  <2>3. QED BY <1>1, <2>2
<1>4. u = [t EXCEPT !.clientCopy = x, !.hotSpots = h]
  BY <1>1 DEF Edited, Tab
<1> HIDE DEF t, x, h, u
<1>5. u \in Tab /\ u.state = t.state /\ u.serverCopy = t.serverCopy /\ u.clientCopy = x /\ u.hotSpots = h
  BY <1>1, <1>2, <1>4 DEF Tab
<1>6. tabs' = [tabs EXCEPT ![c] = [@ EXCEPT ![id] = u]]
  BY <1>1, <1>3, <1>4 DEF t
<1>7. QED
  BY <1>1, <1>5, <1>6 DEF t, x, h, u

\* What a tab makes of the letter it gets.
LEMMA EventTab ==
    ASSUME ConnInv, NEW c \in Clients, HandleDocumentServerEvent(c)
    PROVE  LET l == Head(toClient[c]) IN
           /\ toClient[c] # <<>> /\ l \in Letter /\ l.id \in DOMAIN tabs[c]
           /\ toClient'[c] = Tail(toClient[c]) /\ Tail(toClient[c]) \in Seq(Letter)
           /\ \A d \in Clients \ {c} : toClient'[d] = toClient[d]
           /\ toClient' \in [Clients -> Seq(Letter)]
           /\ \A i \in DOMAIN toClient'[c] :
                 i + 1 \in DOMAIN toClient[c] /\ toClient'[c][i] = toClient[c][i + 1]
           /\ IF l.id \in OpenTabs(c)
              THEN tabs' = [tabs EXCEPT ![c] = [@ EXCEPT ![l.id] = HandleMessage(tabs[c][l.id], l.message)]]
              ELSE tabs' = tabs
<1> DEFINE s == toClient[c]
           l == Head(s)
           t == Tail(s)
<1>1. s # <<>> /\ s \in Seq(Letter) /\ toClient \in [Clients -> Seq(Letter)]
  BY DEF HandleDocumentServerEvent, ConnInv, TypeOK
<1>2. toClient' = [toClient EXCEPT ![c] = t]
  BY DEF HandleDocumentServerEvent
<1>3. l \in Letter /\ t \in Seq(Letter) /\ Len(t) = Len(s) - 1 /\ \A i \in 1 .. Len(t) : t[i] = s[i + 1]
  BY <1>1, HeadTailProperties
<1>4. DOMAIN s = 1 .. Len(s) /\ DOMAIN t = 1 .. Len(t) /\ Len(s) \in Nat /\ Len(t) \in Nat
  BY <1>1, <1>3, LenProperties
<1>5. l.id \in DOMAIN tabs[c]
  <2>1. l = s[1] /\ 1 \in DOMAIN s
    BY <1>1, <1>4, EmptySeq
  <2>2. QED BY <2>1 DEF ConnInv, IdsAreKnown
<1>6. IF l.id \in OpenTabs(c)
      THEN tabs' = [tabs EXCEPT ![c] = [@ EXCEPT ![l.id] = HandleMessage(tabs[c][l.id], l.message)]]
      ELSE tabs' = tabs
  <2>1. tabs \in [Clients -> Seq(Tab \cup {None})]
    BY DEF ConnInv, TypeOK
  <2>2. tabs' = IF tabs[c][l.id] = None THEN tabs
                ELSE [tabs EXCEPT ![c][l.id] = HandleMessage(@, l.message)]
    BY DEF HandleDocumentServerEvent
  <2>3. l.id \in OpenTabs(c) <=> tabs[c][l.id] # None
    BY <1>5 DEF OpenTabs
  <2> HIDE DEF l
  <2>4. QED BY <1>5, <2>1, <2>2, <2>3
<1> HIDE DEF s, t
<1>7. \A i \in DOMAIN t : i + 1 \in DOMAIN s /\ t[i] = s[i + 1]
  BY <1>3, <1>4
<1>8. toClient'[c] = t /\ toClient' \in [Clients -> Seq(Letter)] /\ \A d \in Clients \ {c} : toClient'[d] = toClient[d]
  BY <1>1, <1>2, <1>3
<1>9. QED
  BY <1>1, <1>3, <1>5, <1>6, <1>7, <1>8 DEF s, t

\* The other tabs stay as they are.
LEMMA EditedPlaces ==
    ASSUME ConnInv, NEW e \in Clients, NEW i \in OpenTabs(e), NEW changes \in Transactions,
           Edit(e, i, changes)
    PROVE  /\ tabs'[e][i] = Edited(tabs[e][i], changes)
           /\ \A j \in DOMAIN tabs[e] : j # i => tabs'[e][j] = tabs[e][j]
           /\ \A d \in Clients \ {e} : tabs'[d] = tabs[d]
           /\ (OpenTabs(e))' = OpenTabs(e)
<1> DEFINE u == Edited(tabs[e][i], changes)
<1>1. u \in Tab /\ tabs' = [tabs EXCEPT ![e] = [@ EXCEPT ![i] = u]]
  BY EditedTab
<1>2. u # None /\ u \in Tab \cup {None}
  BY <1>1, EditorAssumption
<1> HIDE DEF u
<1>3. tabs'[e][i] = u
  <2>1. tabs \in [Clients -> Seq(Tab \cup {None})] /\ i \in DOMAIN tabs[e]
    BY DEF ConnInv, TypeOK, OpenTabs
  <2>2. tabs'[e] = [tabs[e] EXCEPT ![i] = u]
    BY <1>1, <2>1
  <2>3. QED BY <2>1, <2>2
<1>4. \A j \in DOMAIN tabs[e] : j # i => tabs'[e][j] = tabs[e][j]
  BY <1>1, <1>2, TabChanges, ZenonT(60)
<1>5. \A d \in Clients \ {e} : tabs'[d] = tabs[d]
  BY <1>1, <1>2, TabChanges, ZenonT(60)
<1>6. DOMAIN tabs'[e] = DOMAIN tabs[e]
  BY <1>1, <1>2, TabChanges, ZenonT(60)
<1>7. (OpenTabs(e))' = OpenTabs(e)
  BY <1>2, <1>3, <1>4, <1>6 DEF OpenTabs
<1>8. QED
  BY <1>3, <1>4, <1>5, <1>7 DEF u

\* Reading takes a letter away and sends nothing.
LEMMA EventKeeps ==
    ASSUME ConnInv, NEW c \in Clients, HandleDocumentServerEvent(c)
    PROVE  EditorOnly /\ EditorKeeps
<1> DEFINE l == Head(toClient[c])
           u == HandleMessage(tabs[c][l.id], l.message)
<1>1. /\ UNCHANGED <<doc, connections, documentList, disk, connected, toServer>>
      /\ connected \in SUBSET Clients /\ toServer \in [Clients -> Seq(Command)]
      /\ disk \in [content : Contents \cup {Damaged}, time : Nat]
      /\ \A d \in Clients \ connected : OpenTabs(d) = {}
  BY DEF HandleDocumentServerEvent, serverVars, ConnInv, TypeOK, TabsAreOnline
<1>2. /\ l \in Letter /\ toClient' \in [Clients -> Seq(Letter)]
      /\ \A i \in DOMAIN toClient'[c] : i + 1 \in DOMAIN toClient[c] /\ toClient'[c][i] = toClient[c][i + 1]
      /\ \A d \in Clients \ {c} : toClient'[d] = toClient[d]
      /\ IF l.id \in OpenTabs(c) THEN tabs' = [tabs EXCEPT ![c] = [@ EXCEPT ![l.id] = u]] ELSE tabs' = tabs
  BY EventTab
<1>3. l.id \in OpenTabs(c) => u \in Tab \cup {None}
  BY <1>2, OpenTabType, HandledType DEF Letter
<1> HIDE DEF l, u
<1>4. /\ tabs' \in [Clients -> Seq(Tab \cup {None})]
      /\ \A d \in Clients : DOMAIN tabs[d] \subseteq DOMAIN tabs'[d]
      /\ \A d \in Clients : OpenTabs(d) = {} => (OpenTabs(d))' = {}
  <2>1. CASE l.id \in OpenTabs(c)
    BY <1>2, <1>3, <2>1, TabChanges
  <2>2. CASE l.id \notin OpenTabs(c)
    <3>1. tabs' = tabs
      BY <1>2, <2>2
    <3>2. QED BY <3>1 DEF ConnInv, TypeOK, OpenTabs
  <2>3. QED BY <2>1, <2>2
<1>5. \A d \in Clients : \A i \in DOMAIN toClient'[d] : \E j \in DOMAIN toClient[d] : toClient'[d][i] = toClient[d][j]
  BY <1>2
<1>6. EditorKeeps
  BY <1>1, <1>2, <1>4, <1>5 DEF EditorKeeps
<1>7. QED
  BY <1>1, <1>6 DEF EditorOnly

\* A request is sent.
LEMMA RequestKeeps ==
    ASSUME ConnInv, NEW c \in Clients, NEW id \in OpenTabs(c), NEW type \in {"kSave", "kUndo", "kRedo"},
           Request(c, id, type)
    PROVE  EditorOnly /\ EditorKeeps
<1> DEFINE m == [type |-> type, id |-> id]
<1>1. m \in Command /\ (m.type = "kOpen" => m.id \in {}) /\ SendData(c, m)
  BY OpenTabType DEF Command, Request
<1> HIDE DEF m
<1>2. /\ UNCHANGED <<doc, connections, documentList, disk, connected, toClient, tabs>>
      /\ connected \in SUBSET Clients /\ toClient \in [Clients -> Seq(Letter)]
      /\ tabs \in [Clients -> Seq(Tab \cup {None})]
      /\ disk \in [content : Contents \cup {Damaged}, time : Nat]
      /\ \A d \in Clients \ connected : OpenTabs(d) = {}
  BY DEF Request, serverVars, ConnInv, TypeOK, TabsAreOnline
<1>3. toServer' \in [Clients -> Seq(Command)]
  BY <1>1, SentCommand
<1>4. OpensAtMost(c, {}) /\ \A d \in Clients \ {c} : OpensAtMost(d, {})
  BY <1>1, NewCommands
<1>5. \A d \in Clients : OpensAtMost(d, {})
  BY <1>4
<1>6. \A d \in Clients : (OpenTabs(d))' = OpenTabs(d)
  BY <1>2 DEF OpenTabs
<1>7. EditorKeeps
  BY <1>2, <1>3, <1>5, <1>6 DEF EditorKeeps, OpensAtMost
<1>8. QED
  BY <1>2, <1>7 DEF EditorOnly

\* A connection that is lost leaves no tabs, no letters and some of the commands.
LEMMA LoseConnectionKeeps ==
    ASSUME ConnInv, NEW c \in Clients, LoseConnection(c)
    PROVE  /\ EditorOnly /\ EditorKeeps /\ (OpenTabs(c))' = {}
           /\ \A d \in Clients \ {c} :
                 tabs'[d] = tabs[d] /\ toServer'[d] = toServer[d] /\ toClient'[d] = toClient[d]
           /\ connected' = connected \ {c}
           /\ \E n \in 0 .. Len(toServer[c]) :
                 /\ DOMAIN toServer'[c] = 1 .. n + 1 /\ Len(toServer'[c]) = n + 1 /\ n \in Nat
                 /\ \A i \in 1 .. n : i \in DOMAIN toServer[c] /\ toServer'[c][i] = toServer[c][i]
                 /\ toServer'[c][n + 1].type = "kDisconnected"
<1> DEFINE z == <<>>
           T == Tab \cup {None}
           gone == [id \in DOMAIN tabs[c] |-> None]
           e == [type |-> "kDisconnected", id |-> 0]
<1>1. /\ UNCHANGED <<doc, connections, documentList, disk>>
      /\ connected \in SUBSET Clients /\ toServer \in [Clients -> Seq(Command)]
      /\ toClient \in [Clients -> Seq(Letter)] /\ tabs \in [Clients -> Seq(T)]
      /\ disk \in [content : Contents \cup {Damaged}, time : Nat]
      /\ \A d \in Clients \ connected : OpenTabs(d) = {}
  BY DEF LoseConnection, serverVars, ConnInv, TypeOK, TabsAreOnline
<1>2. /\ connected' = connected \ {c} /\ tabs' = [tabs EXCEPT ![c] = gone]
      /\ toClient' = [toClient EXCEPT ![c] = z]
  BY DEF LoseConnection
<1>3. PICK n \in 0 .. Len(toServer[c]) : toServer' = [toServer EXCEPT ![c] = Append(SubSeq(@, 1, n), e)]
  BY DEF LoseConnection
<1>4. e \in Command /\ e.type = "kDisconnected"
  BY DEF Command
<1> HIDE DEF e
<1>5. z \in Seq(Letter) /\ DOMAIN z = {}
  BY EmptySeq
<1>6. /\ gone \in Seq(T) /\ DOMAIN gone = DOMAIN tabs[c] /\ \A id \in DOMAIN gone : gone[id] = None
  <2>1. DOMAIN tabs[c] = 1 .. Len(tabs[c]) /\ Len(tabs[c]) \in Nat
    BY <1>1, LenProperties
  <2>2. QED BY <2>1, SeqDef
<1> HIDE DEF z, gone, T
<1>7. /\ tabs' \in [Clients -> Seq(T)] /\ tabs'[c] = gone /\ \A d \in Clients \ {c} : tabs'[d] = tabs[d]
      /\ toClient' \in [Clients -> Seq(Letter)] /\ toClient'[c] = z
      /\ \A d \in Clients \ {c} : toClient'[d] = toClient[d]
  BY <1>1, <1>2, <1>5, <1>6
<1>8. (OpenTabs(c))' = {} /\ \A d \in Clients \ {c} : (OpenTabs(d))' = OpenTabs(d)
  BY <1>6, <1>7 DEF OpenTabs
<1> DEFINE some == SubSeq(toServer[c], 1, n)
<1>9. /\ Len(toServer[c]) \in Nat /\ DOMAIN toServer[c] = 1 .. Len(toServer[c])
      /\ some \in Seq(Command) /\ Len(some) = n /\ \A i \in 1 .. n : some[i] = toServer[c][i]
  <2>1. toServer[c] \in Seq(Command)
    BY <1>1
  <2>2. Len(toServer[c]) \in Nat /\ DOMAIN toServer[c] = 1 .. Len(toServer[c])
    BY <2>1, LenProperties
  <2>3. QED BY <2>1, <2>2
<1> HIDE DEF some
<1>10. /\ Append(some, e) \in Seq(Command) /\ Len(Append(some, e)) = n + 1
       /\ \A i \in 1 .. n : Append(some, e)[i] = some[i]
       /\ Append(some, e)[n + 1] = e
  BY <1>4, <1>9, AppendProperties
<1>11. /\ toServer'[c] = Append(some, e) /\ toServer' \in [Clients -> Seq(Command)]
       /\ \A d \in Clients \ {c} : toServer'[d] = toServer[d]
  BY <1>1, <1>3, <1>10 DEF some
<1>12. /\ DOMAIN toServer'[c] = 1 .. n + 1 /\ Len(toServer'[c]) = n + 1 /\ n \in Nat
       /\ \A i \in 1 .. n : i \in DOMAIN toServer[c] /\ toServer'[c][i] = toServer[c][i]
       /\ toServer'[c][n + 1].type = "kDisconnected"
  <2>1. DOMAIN toServer'[c] = 1 .. n + 1 /\ n \in Nat
    BY <1>9, <1>10, <1>11, LenProperties
  <2>2. \A i \in 1 .. n : i \in DOMAIN toServer[c]
    BY <1>9
  <2>3. QED BY <1>4, <1>9, <1>10, <1>11, <2>1, <2>2
<1>13. OpensAtMost(c, {}) /\ \A d \in Clients \ {c} : OpensAtMost(d, {})
  <2>1. \A i \in 1 .. n + 1 : i \in 1 .. n \/ i = n + 1
    BY <1>12
  <2>2. OpensAtMost(c, {})
    BY <1>12, <2>1 DEF OpensAtMost
  <2>3. QED BY <1>11, <2>2 DEF OpensAtMost
<1>14. EditorKeeps
  <2>1. \A d \in Clients : OpensAtMost(d, {})
    BY <1>13
  <2>2. \A d \in Clients : DOMAIN tabs[d] \subseteq DOMAIN tabs'[d]
    BY <1>6, <1>7
  <2>3. \A d \in Clients : \A i \in DOMAIN toClient'[d] : \E j \in DOMAIN toClient[d] : toClient'[d][i] = toClient[d][j]
    BY <1>5, <1>7
  <2>4. connected' \in SUBSET Clients /\ \A d \in Clients \ connected' : (OpenTabs(d))' = {}
    BY <1>1, <1>2, <1>8
  <2>5. QED BY <1>7, <1>11, <2>1, <2>2, <2>3, <2>4 DEF EditorKeeps, OpensAtMost, T
<1>15. QED
  BY <1>1, <1>2, <1>7, <1>8, <1>11, <1>12, <1>14 DEF EditorOnly

\* Another program that writes the file touches nothing else.
LEMMA OutsideWriteKeeps ==
    ASSUME ConnInv, OutsideWrite
    PROVE  EditorOnly /\ UNCHANGED <<connected, toServer, toClient, tabs, base, doubled>>
<1>1. PICK content \in OutsideFiles : WriteFile(content)
  BY DEF OutsideWrite
<1>2. content \in Contents \cup {Damaged}
  BY EditorAssumption
<1>3. Write(content) /\ UNCHANGED <<doc, connections, documentList, connected, toServer, toClient>>
  BY <1>1 DEF WriteFile, pipes
<1>4. disk' \in [content : Contents \cup {Damaged}, time : Nat]
  BY <1>2, <1>3, WriteType
<1>5. QED
  BY <1>3, <1>4 DEF EditorOnly, OutsideWrite

\* Nothing is open at first.
LEMMA InitConnInv == Init => ConnInv
<1> SUFFICES ASSUME Init PROVE ConnInv
  OBVIOUS
<1> DEFINE z == <<>>
<1>1. /\ doc = None /\ connections = z /\ documentList = [c \in Clients |-> z]
      /\ disk = [content |-> EmptyFile, time |-> 0] /\ connected = Clients
      /\ toServer = [c \in Clients |-> z] /\ toClient = [c \in Clients |-> z]
      /\ tabs = [c \in Clients |-> z]
  BY DEF Init, ServerInit
<1>2. /\ z \in Seq(Conn) /\ z \in Seq(Nat) /\ z \in Seq(Command) /\ z \in Seq(Letter)
      /\ z \in Seq(Tab \cup {None}) /\ Len(z) = 0 /\ DOMAIN z = {}
  BY EmptySeq
<1> HIDE DEF z
<1>3. \A V : Occurrences(z, V) = 0
  BY <1>2, NoneCounted
<1>4. TypeOK
  BY <1>1, <1>2, EmptyFileType DEF TypeOK
<1>5. OpenForSomeone /\ ListsCountConnections /\ Distinct(connections)
  BY <1>1, <1>2, <1>3 DEF OpenForSomeone, ListsCountConnections, Distinct, z
<1>6. IdsAreKnown /\ OpensAreFresh /\ TabsAreOnline
  BY <1>1, <1>2 DEF IdsAreKnown, OpensAreFresh, TabsAreOnline, Among
<1>7. QED
  BY <1>4, <1>5, <1>6 DEF ConnInv

\* What a tab that is closed leaves: the tab goes, and its command is sent.
LEMMA CloseEditorKeeps ==
    ASSUME ConnInv, NEW c \in Clients, NEW id \in OpenTabs(c), CloseEditor(c, id)
    PROVE  /\ EditorOnly /\ EditorKeeps /\ tabs' = [tabs EXCEPT ![c] = [@ EXCEPT ![id] = None]]
           /\ SendData(c, [type |-> "kClose", id |-> id]) /\ [type |-> "kClose", id |-> id] \in Command
<1> DEFINE m == [type |-> "kClose", id |-> id]
<1>1. m \in Command /\ m.type # "kOpen"
  BY OpenTabType DEF Command
<1>2. /\ SendData(c, m) /\ UNCHANGED <<doc, connections, documentList, disk, connected, toClient>>
      /\ tabs' = [tabs EXCEPT ![c][id] = None]
  BY DEF CloseEditor, serverVars
<1>3. tabs' = [tabs EXCEPT ![c] = [@ EXCEPT ![id] = None]]
  BY <1>2
<1> HIDE DEF m
<1>4. EditorOnly /\ EditorKeeps
  BY <1>1, <1>2, <1>3, TabStepKeeps
<1>5. QED
  BY <1>1, <1>2, <1>3, <1>4 DEF m

\* The command of an edit.
LEMMA EditKeeps ==
    ASSUME ConnInv, NEW c \in Clients, NEW id \in OpenTabs(c), NEW changes \in Transactions,
           Edit(c, id, changes)
    PROVE  /\ EditorOnly /\ EditorKeeps
           /\ SendData(c, [type |-> "kChange", id |-> id, changes |-> changes])
           /\ [type |-> "kChange", id |-> id, changes |-> changes] \in Command
<1> DEFINE m == [type |-> "kChange", id |-> id, changes |-> changes]
           u == Edited(tabs[c][id], changes)
<1>1. changes \in Seq(Change) /\ u \in Tab \cup {None} /\ tabs' = [tabs EXCEPT ![c] = [@ EXCEPT ![id] = u]]
  BY EditedTab
<1>2. m \in Command /\ m.type # "kOpen"
  BY <1>1, OpenTabType DEF Command
<1>3. SendData(c, m) /\ UNCHANGED <<doc, connections, documentList, disk, connected, toClient>>
  BY DEF Edit, serverVars
<1> HIDE DEF m, u
<1>4. EditorOnly /\ EditorKeeps
  BY <1>1, <1>2, <1>3, TabStepKeeps
<1>5. QED
  BY <1>2, <1>3, <1>4 DEF m

\* Every step of an editor leaves the server alone.
LEMMA EditorStepKeeps ==
    ASSUME ConnInv, NEW c \in Clients, EditorStep(c)
    PROVE  EditorOnly /\ EditorKeeps
<1>1. CASE OpenTab(c)
  BY <1>1, OpenTabKeeps
<1>2. CASE HandleDocumentServerEvent(c)
  BY <1>2, EventKeeps
<1>3. CASE LoseConnection(c)
  BY <1>3, LoseConnectionKeeps
<1>4. ASSUME NEW id \in OpenTabs(c), CloseEditor(c, id) PROVE EditorOnly /\ EditorKeeps
  BY <1>4, CloseEditorKeeps
<1>5. ASSUME NEW id \in OpenTabs(c), NEW changes \in Transactions, Edit(c, id, changes)
      PROVE  EditorOnly /\ EditorKeeps
  BY <1>5, EditKeeps
<1>6. ASSUME NEW id \in OpenTabs(c), NEW type \in {"kSave", "kUndo", "kRedo"}, Request(c, id, type)
      PROVE  EditorOnly /\ EditorKeeps
  BY <1>6, RequestKeeps
<1>7. QED
  BY <1>1, <1>2, <1>3, <1>4, <1>5, <1>6 DEF EditorStep

\* Every step keeps what connections, lists and pipes agree on.
LEMMA NextKeepsConnInv == ConnInv /\ [Next]_vars => ConnInv'
<1> SUFFICES ASSUME ConnInv, [Next]_vars PROVE ConnInv'
  OBVIOUS
<1>1. CASE ServerStep
  BY <1>1, ServerCounts, ServerKeepsConnInv
<1>2. ASSUME NEW c \in Clients, EditorStep(c) PROVE ConnInv'
  BY <1>2, EditorStepKeeps, EditorKeepsConnInv
<1>3. CASE UNCHANGED <<doc, connections, documentList, connected, toServer, toClient, tabs>>
           /\ disk' \in [content : Contents \cup {Damaged}, time : Nat]
  BY <1>3 DEF ConnInv, TypeOK, OpenForSomeone, ListsCountConnections, Distinct, IdsAreKnown,
              OpensAreFresh, TabsAreOnline, OpenTabs
<1>4. CASE OutsideWrite
  BY <1>3, <1>4, OutsideWriteKeeps DEF EditorOnly
<1>5. CASE UNCHANGED vars
  BY <1>3, <1>5 DEF vars, serverVars, pipes, ConnInv, TypeOK
<1>6. QED
  BY <1>1, <1>2, <1>4, <1>5 DEF Next

\* The server and the editors agree on who is connected (OpenDocumentForClient,
\* HandleClose, HandleDisconnected): in every state that is reached the document is
\* open exactly as long as someone has it open, no connection is there twice, every
\* client's list has as many entries as it has connections, and whatever the server
\* knows or is asked of are tabs that there are or were, each opened once.
THEOREM ConnectionsAgree == Spec => []ConnInv
  BY InitConnInv, NextKeepsConnInv, PTL DEF Spec

-----------------------------------------------------------------------------
(* Undo.                                                                    *)

\* A server's step leads undoing where it led, to what is opened, or the base is
\* forgotten.
LEMMA RememberKeepsBase ==
    ASSUME UndoLeadsBack, Remember, UndoKept,
           doc = None /\ doc' # None => Unwound(doc') = doc'.content
    PROVE  UndoLeadsBack'
<1> SUFFICES ASSUME doc' # None, base' # None PROVE Unwound(doc') = base'
  BY DEF UndoLeadsBack, Unwound
<1>1. base' = IF doc = None THEN doc'.content
              ELSE IF doc'.undo = doc.undo /\ doc'.content # doc.content THEN None
              ELSE base
  BY DEF Remember
<1>2. CASE doc = None
  BY <1>1, <1>2
<1>3. CASE doc # None
  BY <1>1, <1>3 DEF UndoKept, UndoLeadsBack
<1>4. QED
  BY <1>2, <1>3

\* A document that stays, is closed, or is opened can be undone as before.
LEMMA ServerKeepsUndo ==
    ASSUME ConnInv, UndoLeadsBack, ServerStep
    PROVE  UndoLeadsBack'
<1>1. Remember
  BY DEF ServerStep
<1>2. CASE Talks
  BY <1>1, <1>2, RememberKeepsBase DEF Talks
<1>3. CASE doc' = doc \/ doc' = None
  <2>1. UndoKept /\ (doc = None => doc' = None)
    BY <1>3 DEF UndoKept, Unwound
  <2>2. QED BY <1>1, <2>1, RememberKeepsBase
<1>4. ASSUME NEW c \in Clients, NEW id, OpenDocumentForClient(c, id) PROVE UndoLeadsBack'
  <2>1. doc' = Opened
    BY <1>4 DEF OpenDocumentForClient
  <2>2. CASE doc = None
    BY <1>1, <2>1, <2>2, OpenedType, RememberKeepsBase DEF UndoKept
  <2>3. CASE doc # None
    BY <1>3, <2>1, <2>3 DEF Opened
  <2>4. QED BY <2>2, <2>3
<1>5. ASSUME NEW c \in Clients, HandleDisconnected(c) PROVE UndoLeadsBack'
  BY <1>3, <1>5 DEF HandleDisconnected, LeftWith
<1>6. ASSUME NEW c \in Clients, HandleClose(c) PROVE UndoLeadsBack'
  BY <1>3, <1>6 DEF HandleClose, LeftWith
<1>7. CASE FileModified
  BY <1>2, <1>7, FileModifiedTalks
<1>8. ASSUME NEW c \in Clients, ProcessMessage(c) PROVE UndoLeadsBack'
  BY <1>2, <1>4, <1>5, <1>6, <1>8, CommandCases
<1>9. QED
  BY <1>7, <1>8 DEF ServerStep

\* Undoing everything leads back to what the document held when it was opened
\* (CommitUndo, CommitRedo, Undo, Redo): through any mix of changes,
\* undos and redos of any number of editors, for any document and any transactions.
THEOREM UndoAlwaysLeadsBack == Spec => []UndoLeadsBack
<1>1. Init => UndoLeadsBack
  BY DEF Init, ServerInit, UndoLeadsBack
<1>2. ConnInv /\ UndoLeadsBack /\ [Next]_vars => UndoLeadsBack'
  <2> SUFFICES ASSUME ConnInv, UndoLeadsBack, [Next]_vars PROVE UndoLeadsBack'
    OBVIOUS
  <2>1. CASE ServerStep
    BY <2>1, ServerKeepsUndo
  <2>2. CASE UNCHANGED <<doc, base>>
    BY <2>2 DEF UndoLeadsBack, Unwound
  <2>3. CASE OutsideWrite
    BY <2>2, <2>3, OutsideWriteKeeps DEF EditorOnly
  <2>4. ASSUME NEW c \in Clients, EditorStep(c) PROVE UndoLeadsBack'
    <3>1. doc' = doc
      BY <2>4, EditorStepKeeps DEF EditorOnly
    <3>2. base' = base
      BY <2>4 DEF EditorStep, OpenTab, HandleDocumentServerEvent, LoseConnection, CloseEditor, Edit, Request
    <3>3. QED BY <2>2, <3>1, <3>2
  <2>5. CASE UNCHANGED vars
    BY <2>2, <2>5 DEF vars, serverVars
  <2>6. QED BY <2>1, <2>3, <2>4, <2>5 DEF Next
<1>3. QED
  BY <1>1, <1>2, ConnectionsAgree, PTL DEF Spec

-----------------------------------------------------------------------------
(* What is on its way to a tab leads to what the server has.                *)

\* Once it has read all that is on its way the tab is in step.
Leading(c, id) == InStep(Reads(tabs[c][id], id, toClient[c]), doc)

\* So is every tab that is informed.
AllLead ==
    \A c \in connected : \A id \in OpenTabs(c) : Among(Entry(c, id), connections) => Leading(c, id)

\* This is the property, in the words of this module.
LEMMA LeadingIs ==
    /\ MessagesLeadToServer <=> AllLead
    /\ \A c, id : Informed(c, id) <=> Among(Entry(c, id), connections)
  BY DEF AllLead, MessagesLeadToServer, Informed, CaughtUp, Leading, InStep, Reads, Among, Entry

\* The property says that all lead.
LEMMA AllLeadIs == MessagesLeadToServer => AllLead
  BY LeadingIs

\* Someone is connected to a document only if it is open.
LEMMA AmongIsOpen ==
    ASSUME ConnInv, NEW x, Among(x, connections)
    PROVE  doc \in Document /\ doc # None
<1>1. connections # <<>> /\ connections \in Seq(Conn)
  <2>1. DOMAIN connections # {} /\ connections \in Seq(Conn)
    BY DEF Among, ConnInv, TypeOK
  <2>2. QED BY <2>1, EmptySeq
<1>2. QED
  BY <1>1 DEF ConnInv, OpenForSomeone, TypeOK

\* And after a step.
LEMMA AmongIsOpenNext ==
    ASSUME ConnInv', NEW x, Among(x, connections')
    PROVE  doc' \in Document /\ doc' # None
<1>1. connections' # <<>> /\ connections' \in Seq(Conn)
  <2>1. DOMAIN connections' # {} /\ connections' \in Seq(Conn)
    BY DEF Among, ConnInv, TypeOK
  <2>2. QED BY <2>1, EmptySeq
<1>2. QED
  BY <1>1 DEF ConnInv, OpenForSomeone, TypeOK

\* Steps of the server that talk keep all in step.
LEMMA TalksLeads ==
    ASSUME ConnInv, AllLead, Talks, tabs' = tabs, connected' = connected,
           NEW c \in connected, NEW id \in OpenTabs(c), Among(Entry(c, id), connections')
    PROVE  (Leading(c, id))'
<1>1. c \in Clients /\ connections' = connections /\ KeepsUp
  BY DEF ConnInv, TypeOK, Talks
<1>2. tabs[c][id] \in Tab /\ id \in Nat
  BY <1>1, OpenTabType
<1>3. Leading(c, id) /\ Informed(c, id)
  BY <1>1, LeadingIs DEF AllLead
<1>4. InStep(Reads(tabs[c][id], id, toClient'[c]), doc')
  BY <1>1, <1>2, <1>3 DEF KeepsUp, Leading
<1>5. QED
  BY <1>4 DEF Leading

\* Connections that go leave the others in step.
LEMMA FewerLead ==
    ASSUME ConnInv, AllLead, tabs' = tabs, toClient' = toClient,
           NEW c \in connected, NEW id \in OpenTabs(c), Among(Entry(c, id), connections), doc' = doc
    PROVE  (Leading(c, id))'
<1>1. Leading(c, id)
  BY DEF AllLead
<1>2. QED
  BY <1>1 DEF Leading

\* A tab that is opened is told all there is to know.
LEMMA OpenLeads ==
    ASSUME ConnInv, AllLead, tabs' = tabs,
           NEW o \in Clients, toServer[o] # <<>>, Head(toServer[o]).type = "kOpen",
           OpenDocumentForClient(o, Head(toServer[o]).id),
           NEW c \in connected, NEW id \in OpenTabs(c), Among(Entry(c, id), connections')
    PROVE  (Leading(c, id))'
<1> DEFINE n == Head(toServer[o]).id
           one == <<Entry(o, n)>>
           m == OpeningState(Opened)
           tab == tabs[c][id]
           old == Reads(tab, id, toClient[c])
           new == Reads(tab, id, toClient'[c])
<1>1. /\ c \in Clients /\ connections \in Seq(Conn) /\ toClient \in [Clients -> Seq(Letter)]
      /\ n \in Nat /\ 1 \in DOMAIN toServer[o] /\ toServer[o][1].type = "kOpen" /\ toServer[o][1].id = n
  BY FirstCommand DEF ConnInv, TypeOK
<1>2. Entry(o, n) \in Conn /\ one \in Seq(Conn)
  BY <1>1 DEF Conn, Entry
<1>3. ~Among(Entry(o, n), connections)
  BY <1>1 DEF ConnInv, OpensAreFresh
<1>4. /\ connections' = Append(connections, Entry(o, n)) /\ doc' = Opened
      /\ toClient' = Send(toClient, one, m)
  BY DEF OpenDocumentForClient, Entry
<1>5. Opened \in Document /\ m \in Message
  BY OpenedType
<1>6. tab \in Tab /\ id \in Nat
  BY <1>1, OpenTabType
<1>7. Distinct(one) /\ \A x : Among(x, one) <=> x = Entry(o, n)
  BY DEF Distinct, Among
<1>8. m = StateMessage(Opened.state, Opened.content)
  BY DEF OpeningState
<1> HIDE DEF n, one, m, tab
<1>9. new = IF Entry(c, id) = Entry(o, n) THEN HandleMessage(old, m) ELSE old
  <2>1. toClient'[c] = For(c, one, m, toClient[c])
    BY <1>1, <1>2, <1>4, <1>5, SendProperties
  <2>2. new = IF Among(Entry(c, id), one) THEN HandleMessage(old, m) ELSE old
    BY <1>1, <1>2, <1>5, <1>6, <1>7, <2>1, ReadsPosted
  <2>3. QED BY <1>7, <2>2
<1>10. old \in Tab
  BY <1>1, <1>6, ReadsFolds
<1> HIDE DEF old, new
<1>11. CASE Entry(c, id) = Entry(o, n)
  <2>1. new = HandleMessage(old, StateMessage(Opened.state, Opened.content))
    BY <1>8, <1>9, <1>11
  <2>2. Opened.state \in {"kLoaded", "kLoadFailure"} /\ Opened.content \in Contents
    BY <1>5 DEF Document
  <2>3. new.state = Opened.state /\ (Opened.state = "kLoaded" => new.serverCopy = Opened.content)
    BY <1>10, <2>1, <2>2, HandledState
  <2>4. InStep(new, doc')
    BY <1>4, <2>3 DEF InStep
  <2>5. QED BY <2>4 DEF Leading, new, tab
<1>12. CASE Entry(c, id) # Entry(o, n)
  <2>1. Among(Entry(c, id), connections)
    BY <1>1, <1>2, <1>4, <1>12, AmongAppend
  <2>2. doc # None
    BY <2>1, AmongIsOpen
  <2>3. doc' = doc /\ new = old
    BY <1>4, <1>9, <1>12, <2>2 DEF Opened
  <2>4. Leading(c, id)
    BY <2>1 DEF AllLead
  <2>5. QED BY <2>3, <2>4 DEF Leading, new, old, tab
<1>13. QED
  BY <1>11, <1>12

\* Every step of the server.
LEMMA ServerLeads ==
    ASSUME ConnInv, AllLead, ServerStep,
           NEW c \in connected', NEW id \in OpenTabs(c), Among(Entry(c, id), connections')
    PROVE  (Leading(c, id))'
<1>1. tabs' = tabs /\ Counts /\ ServerOnly /\ ConnInv'
  BY ServerCounts, ServerKeepsConnInv DEF ServerOnly
<1>2. CASE FileModified
  <2>1. connected' = connected
    BY <1>2 DEF FileModified
  <2>2. QED BY <1>1, <1>2, <2>1, FileModifiedTalks, TalksLeads
<1>3. ASSUME NEW o \in Clients, ProcessMessage(o) PROVE (Leading(c, id))'
  <2> DEFINE m == Head(toServer[o])
  <2>1. /\ toServer[o] # <<>>
        /\ connected' = IF m.type = "kDisconnected" THEN connected \cup {o} ELSE connected
    BY <1>1, <1>3, ProcessServes
  <2>2. \/ m.type = "kOpen" /\ OpenDocumentForClient(o, m.id)
        \/ m.type = "kDisconnected" /\ HandleDisconnected(o)
        \/ m.type = "kClose" /\ HandleClose(o)
        \/ m.type # "kDisconnected" /\ Talks
    BY <1>3, CommandCases
  <2>3. doc' # None
    BY <1>1, AmongIsOpenNext
  <2>4. CASE m.type = "kOpen" /\ OpenDocumentForClient(o, m.id)
    BY <1>1, <2>1, <2>4, OpenLeads
  <2>5. CASE m.type # "kDisconnected" /\ Talks
    BY <1>1, <2>1, <2>5, TalksLeads
  <2>6. CASE (m.type = "kDisconnected" /\ HandleDisconnected(o)) \/ (m.type = "kClose" /\ HandleClose(o))
    <3>1. doc' = doc /\ toClient' = toClient
      BY <2>3, <2>6 DEF HandleDisconnected, HandleClose, LeftWith
    <3>2. ~(Informs(c, id))
      <4>1. c = o => Head(toServer[c]).type # "kOpen"
        BY <2>6
      <4>2. c \in Clients /\ (c # o => toServer'[c] = toServer[c])
        BY <1>1, <1>3, ProcessServes DEF ConnInv, TypeOK, ServerOnly
      <4>3. c # o => ~(toServer[c] # <<>> /\ toServer'[c] = Tail(toServer[c]))
        <5> SUFFICES ASSUME c # o, toServer[c] # <<>>, toServer[c] = Tail(toServer[c]) PROVE FALSE
          BY <4>2
        <5>1. toServer[c] \in Seq(Command)
          BY <4>2 DEF ConnInv, TypeOK
        <5>2. Len(toServer[c]) = Len(toServer[c]) - 1 /\ Len(toServer[c]) \in Nat
          BY <5>1, HeadTailProperties, LenProperties
        <5>3. QED BY <5>2
      <4>4. QED BY <4>1, <4>3 DEF Informs
    <3>3. Among(Entry(c, id), connections)
      <4>1. c \in Clients
        BY <1>1 DEF ServerOnly
      <4>2. QED BY <1>1, <3>2, <4>1 DEF Counts
    <3>4. c \in connected
      <4>1. CASE m.type = "kDisconnected" /\ HandleDisconnected(o)
        BY <2>1, <4>1, DisconnectCounts
      <4>2. CASE m.type = "kClose"
        BY <2>1, <4>2
      <4>3. QED BY <2>6, <4>1, <4>2
    <3>5. QED BY <1>1, <3>1, <3>3, <3>4, FewerLead
  <2>7. QED BY <2>2, <2>4, <2>5, <2>6
<1>4. QED
  BY <1>2, <1>3 DEF ServerStep

\* A tab that shows the same of the server, with the same on its way to it.
LEMMA SameLeads ==
    ASSUME AllLead, NEW c \in connected, NEW id \in OpenTabs(c),
           Among(Entry(c, id), connections), doc' = doc,
           LET old == Reads(tabs[c][id], id, toClient[c])
               new == Reads(tabs'[c][id], id, toClient'[c])
           IN  new.state = old.state /\ new.serverCopy = old.serverCopy
    PROVE  (Leading(c, id))'
<1>1. Leading(c, id)
  BY DEF AllLead
<1>2. QED
  BY <1>1 DEF Leading, InStep

\* Every step of an editor.
LEMMA EditorLeads ==
    ASSUME ConnInv, AllLead, NEW e \in Clients, EditorStep(e),
           NEW c \in connected', NEW id \in (OpenTabs(c))', Among(Entry(c, id), connections')
    PROVE  (Leading(c, id))'
<1>1. /\ c \in Clients /\ doc' = doc /\ Among(Entry(c, id), connections)
      /\ toClient[c] \in Seq(Letter)
  BY EditorStepKeeps DEF EditorOnly, EditorKeeps, ConnInv, TypeOK
<1>2. ASSUME c \in connected, tabs'[c] = tabs[c], toClient'[c] = toClient[c]
      PROVE  (Leading(c, id))'
  <2>1. id \in OpenTabs(c)
    BY <1>2 DEF OpenTabs
  <2>2. QED BY <1>1, <1>2, <2>1, SameLeads
<1>3. ASSUME c \in connected, id \in OpenTabs(c), tabs'[c][id] = tabs[c][id], toClient'[c] = toClient[c]
      PROVE  (Leading(c, id))'
  BY <1>1, <1>3, SameLeads
<1>4. CASE OpenTab(e)
  <2>1. connected' = connected /\ toClient' = toClient /\ tabs \in [Clients -> Seq(Tab \cup {None})]
    BY <1>4 DEF OpenTab, ConnInv, TypeOK
  <2>2. /\ tabs'[e] = Append(tabs[e], NewTab) /\ \A d \in Clients \ {e} : tabs'[d] = tabs[d]
        /\ Len(tabs[e]) + 1 \notin DOMAIN tabs[e] /\ (OpenTabs(e))' = OpenTabs(e) \cup {Len(tabs[e]) + 1}
    BY <1>4, OpenTabKeeps
  <2>3. CASE c # e
    BY <1>1, <1>2, <2>1, <2>2, <2>3
  <2>4. CASE c = e
    <3>1. id \in DOMAIN tabs[c]
      BY <1>1 DEF ConnInv, IdsAreKnown
    <3>2. id \in OpenTabs(c)
      BY <2>2, <2>4, <3>1
    <3>3. tabs[c] \in Seq(Tab \cup {None}) /\ DOMAIN tabs[c] = 1 .. Len(tabs[c])
      BY <1>1, <2>1, LenProperties
    <3>4. tabs'[c][id] = tabs[c][id]
      <4>1. NewTab \in Tab \cup {None}
        BY EmptyFileType DEF NewTab, Tab
      <4>2. QED BY <2>2, <2>4, <3>1, <3>3, <4>1, AppendProperties
    <3>5. QED BY <1>3, <2>1, <3>2, <3>4
  <2>5. QED BY <2>3, <2>4
<1>5. CASE HandleDocumentServerEvent(e)
  <2> DEFINE l == Head(toClient[e])
             s == toClient[e]
             u == HandleMessage(tabs[e][l.id], l.message)
  <2>1. connected' = connected
    BY <1>5 DEF HandleDocumentServerEvent
  <2>2. /\ s # <<>> /\ l \in Letter /\ toClient'[e] = Tail(s) /\ \A d \in Clients \ {e} : toClient'[d] = toClient[d]
        /\ IF l.id \in OpenTabs(e) THEN tabs' = [tabs EXCEPT ![e] = [@ EXCEPT ![l.id] = u]] ELSE tabs' = tabs
    BY <1>5, EventTab
  <2>3. l.id \in OpenTabs(e) => tabs[e][l.id] \in Tab /\ u \in Tab
    BY <2>2, OpenTabType, HandledType DEF Letter
  <2> HIDE DEF l, s, u
  <2>4. l.id \in OpenTabs(e) =>
           /\ tabs'[e][l.id] = u /\ \A i \in DOMAIN tabs[e] : i # l.id => tabs'[e][i] = tabs[e][i]
           /\ \A d \in Clients \ {e} : tabs'[d] = tabs[d]
           /\ (OpenTabs(e))' = IF u = None THEN OpenTabs(e) \ {l.id} ELSE OpenTabs(e)
    BY <2>2, <2>3, TabChanges
  <2>5. CASE c # e
    <3>1. tabs'[c] = tabs[c] /\ toClient'[c] = toClient[c]
      BY <1>1, <2>2, <2>4, <2>5
    <3>2. QED BY <1>2, <2>1, <3>1
  <2>6. CASE c = e
    <3>1. id \in OpenTabs(c)
      <4>1. CASE l.id \in OpenTabs(e)
        BY <2>4, <2>6, <4>1
      <4>2. CASE l.id \notin OpenTabs(e)
        BY <2>2, <2>6, <4>2 DEF OpenTabs
      <4>3. QED BY <4>1, <4>2
    <3>2. id \in DOMAIN tabs[c] /\ tabs[c][id] \in Tab
      BY <1>1, <3>1, OpenTabType
    <3>3. tabs'[c][id] = IF l.id = id THEN HandleMessage(tabs[c][id], l.message) ELSE tabs[c][id]
      <4>1. CASE l.id \in OpenTabs(e)
        BY <2>4, <2>6, <3>2, <4>1 DEF u
      <4>2. CASE l.id \notin OpenTabs(e)
        BY <2>2, <2>6, <3>1, <4>2
      <4>3. QED BY <4>1, <4>2
    <3>4. Reads(tabs[c][id], id, s) = Reads(tabs'[c][id], id, Tail(s))
      BY <1>1, <2>2, <2>6, <3>2, <3>3, ReadsFirst DEF l, s
    <3>5. Reads(tabs'[c][id], id, toClient'[c]) = Reads(tabs[c][id], id, toClient[c])
      BY <2>2, <2>6, <3>4 DEF s
    <3>6. QED BY <1>1, <2>1, <3>1, <3>5, SameLeads
  <2>7. QED BY <2>5, <2>6
<1>6. CASE LoseConnection(e)
  <2>1. c # e /\ c \in connected /\ tabs'[c] = tabs[c] /\ toClient'[c] = toClient[c]
    BY <1>1, <1>6, LoseConnectionKeeps
  <2>2. QED BY <1>2, <2>1
<1>7. ASSUME NEW i \in OpenTabs(e), CloseEditor(e, i) PROVE (Leading(c, id))'
  <2>1. connected' = connected /\ toClient' = toClient /\ tabs' = [tabs EXCEPT ![e] = [@ EXCEPT ![i] = None]]
    BY <1>7, CloseEditorKeeps DEF CloseEditor
  <2>2. /\ \A j \in DOMAIN tabs[e] : j # i => tabs'[e][j] = tabs[e][j]
        /\ \A d \in Clients \ {e} : tabs'[d] = tabs[d]
        /\ (OpenTabs(e))' = OpenTabs(e) \ {i}
    BY <2>1, TabChanges
  <2>3. CASE c # e
    BY <1>1, <1>2, <2>1, <2>2, <2>3
  <2>4. CASE c = e
    <3>1. id \in OpenTabs(c) /\ id # i
      BY <2>2, <2>4
    <3>2. id \in DOMAIN tabs[c]
      BY <1>1, <3>1, OpenTabType
    <3>3. QED BY <1>3, <2>1, <2>2, <2>4, <3>1, <3>2
  <2>5. QED BY <2>3, <2>4
<1>8. ASSUME NEW i \in OpenTabs(e), NEW changes \in Transactions, Edit(e, i, changes)
      PROVE  (Leading(c, id))'
  <2> DEFINE t == tabs[e][i]
             u == Edited(t, changes)
  <2>1. connected' = connected /\ toClient' = toClient
    BY <1>8 DEF Edit
  <2>2. /\ u \in Tab /\ tabs' = [tabs EXCEPT ![e] = [@ EXCEPT ![i] = u]]
        /\ u.state = t.state /\ u.serverCopy = t.serverCopy
    BY <1>8, EditedTab
  <2>3. t \in Tab /\ u # None /\ u \in Tab \cup {None}
    BY <2>2, OpenTabType, EditorAssumption
  <2> HIDE DEF t, u
  <2>4. /\ tabs'[e][i] = u /\ \A j \in DOMAIN tabs[e] : j # i => tabs'[e][j] = tabs[e][j]
        /\ \A d \in Clients \ {e} : tabs'[d] = tabs[d]
        /\ (OpenTabs(e))' = OpenTabs(e)
    BY <1>8, EditedPlaces DEF u, t
  <2>5. CASE c # e
    BY <1>1, <1>2, <2>1, <2>4, <2>5
  <2>6. CASE c = e /\ id # i
    <3>1. id \in OpenTabs(c)
      BY <2>4, <2>6
    <3>2. id \in DOMAIN tabs[c]
      BY <1>1, <3>1, OpenTabType
    <3>3. QED BY <1>3, <2>1, <2>4, <2>6, <3>1, <3>2
  <2>7. CASE c = e /\ id = i
    <3>1. id \in OpenTabs(c) /\ tabs[c][id] = t /\ tabs'[c][id] = u
      BY <2>4, <2>7 DEF t
    <3>2. Reads(u, id, toClient[c]).state = Reads(t, id, toClient[c]).state
      BY <1>1, <2>2, <2>3, ReadsAlike
    <3>3. Reads(u, id, toClient[c]).serverCopy = Reads(t, id, toClient[c]).serverCopy
      BY <1>1, <2>2, <2>3, ReadsAlike
    <3>4. QED BY <1>1, <2>1, <3>1, <3>2, <3>3, SameLeads
  <2>8. QED BY <2>5, <2>6, <2>7
<1>9. ASSUME NEW i \in OpenTabs(e), NEW type \in {"kSave", "kUndo", "kRedo"}, Request(e, i, type)
      PROVE  (Leading(c, id))'
  <2>1. tabs' = tabs /\ toClient' = toClient /\ connected' = connected
    BY <1>9 DEF Request
  <2>2. QED BY <1>2, <2>1
<1>10. QED
  BY <1>4, <1>5, <1>6, <1>7, <1>8, <1>9 DEF EditorStep

\* What is on its way to a tab leads from its copy of the server's data to the data
\* the server has now (SendPendingChanges, GotDocumentStateChange,
\* GotDocumentChange): in whatever order any number of tabs open, edit, undo, save
\* and close, connections are lost and the file is loaded again.
THEOREM MessagesAlwaysLeadToServer == Spec => []MessagesLeadToServer
<1>1. Init => AllLead
  BY DEF Init, ServerInit, AllLead, OpenTabs
<1>2. ConnInv /\ AllLead /\ [Next]_vars => AllLead'
  <2> SUFFICES ASSUME ConnInv, AllLead, [Next]_vars PROVE AllLead'
    OBVIOUS
  <2>1. SUFFICES ASSUME NEW c \in connected', NEW id \in (OpenTabs(c))', Among(Entry(c, id), connections')
                 PROVE  (Leading(c, id))'
    BY DEF AllLead
  <2>2. CASE ServerStep
    <3>1. id \in OpenTabs(c)
      BY <2>2, ServerCounts DEF ServerOnly, OpenTabs
    <3>2. QED BY <2>1, <2>2, <3>1, ServerLeads
  <2>3. ASSUME NEW e \in Clients, EditorStep(e) PROVE (Leading(c, id))'
    BY <2>1, <2>3, EditorLeads
  <2>4. CASE UNCHANGED <<doc, connections, connected, toClient, tabs>>
    <3>1. c \in connected /\ id \in OpenTabs(c) /\ Among(Entry(c, id), connections)
      BY <2>1, <2>4 DEF OpenTabs
    <3>2. QED BY <2>4, <3>1, SameLeads
  <2>5. CASE OutsideWrite
    BY <2>4, <2>5, OutsideWriteKeeps DEF EditorOnly
  <2>6. CASE UNCHANGED vars
    BY <2>4, <2>6 DEF vars, serverVars, pipes
  <2>7. QED BY <2>2, <2>3, <2>5, <2>6 DEF Next
<1>3. AllLead => MessagesLeadToServer
  BY LeadingIs
<1>4. QED
  BY <1>1, <1>2, <1>3, ConnectionsAgree, PTL DEF Spec

-----------------------------------------------------------------------------
(* One tab at a time.                                                       *)

\* A process that has one tab of the document at a time: x is the tab the server
\* knows before it reads m, y the one it knows then; 0 is no tab.
Leads(m, x, y) ==
    IF m.type = "kOpen" THEN x = 0 /\ y = m.id
    ELSE IF m.type = "kClose" THEN x = m.id /\ y = 0
    ELSE IF m.type = "kDisconnected" THEN y = 0
    ELSE y = x

\* The commands s lead from tab x to tab y.
Walk(w, s, x, y) ==
    /\ w \in [0 .. Len(s) -> Nat] /\ w[0] = x /\ w[Len(s)] = y
    /\ \A n \in 1 .. Len(s) : Leads(s[n], w[n - 1], w[n])

Walks(s, x, y) == \E w : Walk(w, s, x, y)

\* No commands lead nowhere.
LEMMA WalkNowhere ==
    ASSUME NEW x, NEW y, Walks(<<>>, x, y)
    PROVE  x = y
  BY DEF Walks, Walk

\* One command more.
LEMMA WalkOn ==
    ASSUME NEW s \in Seq(Command), NEW m \in Command, NEW x \in Nat, NEW y \in Nat, NEW z \in Nat,
           Walks(s, x, y), Leads(m, y, z)
    PROVE  Walks(Append(s, m), x, z)
<1> DEFINE u == Append(s, m)
           N == Len(s)
<1>1. /\ N \in Nat /\ Len(u) = N + 1 /\ \A i \in 1 .. N : u[i] = s[i]
      /\ u[N + 1] = m
  BY AppendProperties, LenProperties
<1>2. PICK w : Walk(w, s, x, y)
  BY DEF Walks
<1>3. w \in [0 .. N -> Nat] /\ w[0] = x /\ w[N] = y /\ \A n \in 1 .. N : Leads(s[n], w[n - 1], w[n])
  BY <1>2 DEF Walk
<1> HIDE DEF u, N
<1> DEFINE v == [i \in 0 .. N + 1 |-> IF i = N + 1 THEN z ELSE w[i]]
<1>4. /\ v \in [0 .. N + 1 -> Nat] /\ v[0] = x /\ v[N + 1] = z
      /\ \A i \in 0 .. N : v[i] = w[i]
  BY <1>1, <1>3
<1> HIDE DEF v
<1>5. ASSUME NEW n \in 1 .. N + 1 PROVE Leads(u[n], v[n - 1], v[n])
  <2>1. CASE n = N + 1
    <3>1. n - 1 = N /\ N \in 0 .. N
      BY <1>1, <2>1
    <3>2. QED BY <1>1, <1>3, <1>4, <2>1, <3>1
  <2>2. CASE n \in 1 .. N
    <3>1. n - 1 \in 0 .. N /\ n \in 0 .. N
      BY <1>1, <2>2
    <3>2. QED BY <1>1, <1>3, <1>4, <2>2, <3>1
  <2>3. QED BY <1>1, <2>1, <2>2
<1>6. Walk(v, u, x, z)
  BY <1>1, <1>4, <1>5 DEF Walk
<1>7. QED
  BY <1>6 DEF Walks, u

\* The first command.
LEMMA WalkFirst ==
    ASSUME NEW s \in Seq(Command), s # <<>>, NEW x \in Nat, NEW y \in Nat, Walks(s, x, y)
    PROVE  \E z \in Nat : Leads(Head(s), x, z) /\ Walks(Tail(s), z, y)
<1> DEFINE u == Tail(s)
           N == Len(u)
<1>1. /\ u \in Seq(Command) /\ N \in Nat /\ Len(s) = N + 1 /\ Head(s) = s[1]
      /\ \A i \in 1 .. N : u[i] = s[i + 1]
  <2>1. u \in Seq(Command) /\ N = Len(s) - 1 /\ Len(s) \in Nat /\ \A i \in 1 .. N : u[i] = s[i + 1]
    BY HeadTailProperties, LenProperties
  <2>2. N \in Nat
    BY <2>1, LenProperties
  <2>3. QED BY <2>1, <2>2
<1>2. PICK w : Walk(w, s, x, y)
  BY DEF Walks
<1> HIDE DEF u, N
<1>3. /\ w \in [0 .. N + 1 -> Nat] /\ w[0] = x /\ w[N + 1] = y
      /\ \A n \in 1 .. N + 1 : Leads(s[n], w[n - 1], w[n])
  BY <1>1, <1>2 DEF Walk
<1> DEFINE v == [i \in 0 .. N |-> w[i + 1]]
<1>4. v \in [0 .. N -> Nat] /\ v[0] = w[1] /\ v[N] = y /\ \A i \in 0 .. N : v[i] = w[i + 1]
  BY <1>1, <1>3
<1> HIDE DEF v
<1>5. ASSUME NEW n \in 1 .. N PROVE Leads(u[n], v[n - 1], v[n])
  <2>1. n - 1 \in 0 .. N /\ n \in 0 .. N /\ n + 1 \in 1 .. N + 1 /\ (n + 1) - 1 = n /\ (n - 1) + 1 = n
    BY <1>1
  <2>2. Leads(s[n + 1], w[n], w[n + 1])
    BY <1>3, <2>1
  <2>3. QED BY <1>1, <1>4, <2>1, <2>2
<1>6. Walk(v, u, w[1], y)
  BY <1>1, <1>4, <1>5 DEF Walk, N
<1>7. w[1] \in Nat /\ Leads(Head(s), x, w[1])
  <2>1. 1 \in 1 .. N + 1 /\ 1 \in 0 .. N + 1 /\ 1 - 1 = 0
    BY <1>1
  <2>2. Leads(s[1], w[0], w[1])
    BY <1>3, <2>1
  <2>3. QED BY <1>1, <1>3, <2>1, <2>2
<1>8. QED
  BY <1>6, <1>7 DEF Walks, u

\* Some of the first commands.
LEMMA WalkPartly ==
    ASSUME NEW s \in Seq(Command), NEW x \in Nat, NEW y \in Nat, Walks(s, x, y), NEW n \in 0 .. Len(s)
    PROVE  \E z \in Nat : Walks(SubSeq(s, 1, n), x, z)
<1> DEFINE u == SubSeq(s, 1, n)
           N == Len(s)
<1>1. N \in Nat /\ n \in Nat /\ n <= N /\ Len(u) = n /\ \A i \in 1 .. n : u[i] = s[i]
  <2>1. Len(s) \in Nat
    BY LenProperties
  <2>2. QED BY <2>1
<1>2. PICK w : Walk(w, s, x, y)
  BY DEF Walks
<1> HIDE DEF u, N
<1>3. w \in [0 .. N -> Nat] /\ w[0] = x /\ \A i \in 1 .. N : Leads(s[i], w[i - 1], w[i])
  BY <1>2 DEF Walk, N
<1> DEFINE v == [i \in 0 .. n |-> w[i]]
<1>4. v \in [0 .. n -> Nat] /\ v[0] = x /\ \A i \in 0 .. n : v[i] = w[i]
  BY <1>1, <1>3
<1> HIDE DEF v
<1>5. ASSUME NEW i \in 1 .. n PROVE Leads(u[i], v[i - 1], v[i])
  <2>1. i \in 1 .. N /\ i - 1 \in 0 .. n /\ i \in 0 .. n
    BY <1>1
  <2>2. QED BY <1>1, <1>3, <1>4, <2>1
<1>6. Walk(v, u, x, v[n]) /\ v[n] \in Nat
  <2>1. n \in 0 .. n
    BY <1>1
  <2>2. QED BY <1>1, <1>4, <1>5, <2>1 DEF Walk
<1>7. QED
  BY <1>6 DEF Walks, u

\* The list with one entry, and the set of open tabs with one tab.
Alone(x) == IF x = 0 THEN <<>> ELSE <<x>>
Only(y) == IF y = 0 THEN {} ELSE {y}

\* The commands on their way lead from the tab the server knows to the tab the
\* process has, and the server is connected to no other.
SingleTab(c) ==
    /\ \E x, y \in Nat : documentList[c] = Alone(x) /\ OpenTabs(c) = Only(y) /\ Walks(toServer[c], x, y)
    /\ \A id : Among(Entry(c, id), connections) => HasDocument(c, id)

SingleTabs == \A c \in Clients \ doubled : SingleTab(c)

\* A client with an empty list has no connections.
LEMMA EmptyListIsNotAmong ==
    ASSUME ConnInv, NEW c \in Clients, documentList[c] = <<>>
    PROVE  \A id : ~Among(Entry(c, id), connections)
<1> DEFINE z == <<>>
<1>1. z \in Seq(Nat) /\ Len(z) = 0
  BY EmptySeq
<1>2. connections \in Seq(Conn) /\ Len(documentList[c]) = Occurrences(connections, Mine(c)) /\ documentList[c] = z
  BY DEF ConnInv, TypeOK, ListsCountConnections
<1> HIDE DEF z
<1>3. Occurrences(connections, Mine(c)) = 0
  BY <1>1, <1>2
<1>4. QED
  BY <1>2, <1>3, NoneAmong

\* And after a step.
LEMMA EmptyListIsNotAmongNext ==
    ASSUME ConnInv', NEW c \in Clients, documentList'[c] = <<>>
    PROVE  \A id : ~Among(Entry(c, id), connections')
<1> DEFINE z == <<>>
<1>1. z \in Seq(Nat) /\ Len(z) = 0
  BY EmptySeq
<1>2. connections' \in Seq(Conn) /\ Len(documentList'[c]) = Occurrences(connections', Mine(c)) /\ documentList'[c] = z
  BY DEF ConnInv, TypeOK, ListsCountConnections
<1> HIDE DEF z
<1>3. Occurrences(connections', Mine(c)) = 0
  BY <1>1, <1>2
<1>4. QED
  BY <1>2, <1>3, NoneAmong

\* A process with one tab at a time is served, once its commands are read.
LEMMA SingleTabIsServed ==
    ASSUME ConnInv, NEW c \in Clients, SingleTab(c), NEW id \in OpenTabs(c), toServer[c] = <<>>
    PROVE  Served(c, id)
<1>1. PICK x \in Nat, y \in Nat : documentList[c] = Alone(x) /\ OpenTabs(c) = Only(y) /\ Walks(toServer[c], x, y)
  BY DEF SingleTab
<1>2. x = y
  BY <1>1, WalkNowhere
<1>3. id = x /\ x # 0
  BY <1>1, <1>2 DEF Only
<1>4. documentList[c] = <<id>>
  BY <1>1, <1>3 DEF Alone
<1>5. HasDocument(c, id) /\ \A i : HasDocument(c, i) => i = id
  <2>1. DOMAIN documentList[c] = {1} /\ documentList[c][1] = id
    BY <1>4
  <2>2. QED BY <2>1 DEF HasDocument
<1>6. Occurrences(connections, Mine(c)) # 0 /\ connections \in Seq(Conn)
  BY <1>5, HasDocumentIsOpen DEF ConnInv, TypeOK
<1>7. PICK i \in DOMAIN connections : connections[i] \in Mine(c)
  BY <1>6, NoneCounted
<1>8. connections[i] = Entry(c, connections[i].id)
  BY <1>7 DEF Mine, Entry
<1>9. Among(Entry(c, connections[i].id), connections)
  BY <1>7, <1>8 DEF Among
<1>10. connections[i].id = id
  BY <1>5, <1>9 DEF SingleTab
<1>11. Informed(c, id)
  BY <1>8, <1>10 DEF Informed, Entry
<1>12. QED
  BY <1>5, <1>11 DEF Served

\* The server does nothing of client c's, and connects it to nothing.
LEMMA OthersStaySingle ==
    ASSUME NEW c \in Clients, SingleTab(c),
           documentList'[c] = documentList[c], toServer'[c] = toServer[c], (OpenTabs(c))' = OpenTabs(c),
           \A id : Among(Entry(c, id), connections') => Among(Entry(c, id), connections)
    PROVE  (SingleTab(c))'
<1>1. \A id : (HasDocument(c, id))' <=> HasDocument(c, id)
  BY DEF HasDocument
<1>2. \A id : Among(Entry(c, id), connections') => (HasDocument(c, id))'
  BY <1>1 DEF SingleTab
<1>3. \E x, y \in Nat : documentList'[c] = Alone(x) /\ (OpenTabs(c))' = Only(y) /\ Walks(toServer'[c], x, y)
  BY DEF SingleTab
<1>4. QED
  BY <1>2, <1>3 DEF SingleTab

\* The client whose command is read.
LEMMA ServedStaysSingle ==
    ASSUME ConnInv, NEW c \in Clients, ProcessMessage(c), Remember, SingleTab(c)
    PROVE  (SingleTab(c))'
<1> DEFINE m == Head(toServer[c])
           z == <<>>
<1>1. /\ toServer[c] # z /\ toServer'[c] = Tail(toServer[c]) /\ toServer[c] \in Seq(Command)
      /\ tabs' = tabs /\ documentList \in [Clients -> Seq(Nat)]
      /\ toServer[c][1] = m /\ 1 \in DOMAIN toServer[c] /\ m.id \in Nat
  BY ProcessServes, FirstCommand DEF Remember, ConnInv, TypeOK
<1>2. ConnInv'
  BY ServerCounts, ServerKeepsConnInv DEF ServerStep
<1>3. (OpenTabs(c))' = OpenTabs(c)
  BY <1>1 DEF OpenTabs
<1>4. PICK x \in Nat, y \in Nat : documentList[c] = Alone(x) /\ OpenTabs(c) = Only(y) /\ Walks(toServer[c], x, y)
  BY DEF SingleTab
<1>5. PICK v \in Nat : Leads(m, x, v) /\ Walks(Tail(toServer[c]), v, y)
  BY <1>1, <1>4, WalkFirst
<1>6. SUFFICES documentList'[c] = Alone(v)
               /\ \A id : Among(Entry(c, id), connections') => (HasDocument(c, id))'
  BY <1>1, <1>3, <1>4, <1>5 DEF SingleTab
<1>7. documentList'[c] = z => \A id : ~Among(Entry(c, id), connections')
  BY <1>2, EmptyListIsNotAmongNext
<1> HIDE DEF m
<1>8. CASE m.type = "kOpen" /\ OpenDocumentForClient(c, m.id)
  <2>1. x = 0 /\ v = m.id
    BY <1>5, <1>8 DEF Leads
  <2>2. documentList[c] = z
    BY <1>4, <2>1 DEF Alone
  <2>3. m.id # 0
    <3>1. m.id \in DOMAIN tabs[c]
      BY <1>1, <1>8 DEF ConnInv, IdsAreKnown
    <3>2. DOMAIN tabs[c] = 1 .. Len(tabs[c]) /\ Len(tabs[c]) \in Nat
      BY LenProperties DEF ConnInv, TypeOK
    <3>3. QED BY <3>1, <3>2
  <2>4. documentList'[c] = <<m.id>> /\ connections' = Append(connections, Entry(c, m.id))
    BY <1>1, <1>8, <2>2 DEF OpenDocumentForClient, Entry
  <2>5. connections \in Seq(Conn) /\ Entry(c, m.id) \in Conn
    BY <1>1 DEF ConnInv, TypeOK, Conn, Entry
  <2>6. ASSUME NEW id, Among(Entry(c, id), connections') PROVE (HasDocument(c, id))'
    <3>1. ~Among(Entry(c, id), connections)
      BY <2>2, EmptyListIsNotAmong
    <3>2. Entry(c, id) = Entry(c, m.id)
      BY <2>4, <2>5, <2>6, <3>1, AmongAppend
    <3>3. id = m.id
      BY <3>2 DEF Entry
    <3>4. DOMAIN documentList'[c] = {1} /\ documentList'[c][1] = id
      BY <2>4, <3>3
    <3>5. QED BY <3>4 DEF HasDocument
  <2>7. QED BY <2>1, <2>3, <2>4, <2>6 DEF Alone
<1>9. CASE m.type = "kDisconnected" /\ HandleDisconnected(c)
  <2>1. v = 0
    BY <1>5, <1>9 DEF Leads
  <2>2. documentList'[c] = z
    BY <1>9, DisconnectCounts
  <2>3. QED BY <1>7, <2>1, <2>2 DEF Alone
<1>10. CASE m.type = "kClose" /\ HasDocument(c, m.id) /\ HandleClose(c)
  <2>1. v = 0
    BY <1>5, <1>10 DEF Leads
  <2>2. documentList[c] # z
    BY <1>10, HasDocumentIsOpen
  <2>3. documentList[c] = <<x>>
    BY <1>4, <2>2 DEF Alone
  <2>4. documentList'[c] = z
    <3>1. documentList'[c] = RemoveQuick(documentList[c], 1)
      BY <1>1, <1>10 DEF HandleClose
    <3> DEFINE one == <<x>>
               none == RemoveQuick(one, 1)
    <3>2. one \in Seq(Nat) /\ Len(one) = 1 /\ 1 \in 1 .. Len(one)
      OBVIOUS
    <3> HIDE DEF one
    <3>3. none \in Seq(Nat) /\ Len(none) = Len(one) - 1
      BY <3>2, RemoveQuickProperties
    <3>4. none = z
      BY <3>2, <3>3, EmptySeq
    <3>5. QED BY <2>3, <3>1, <3>4 DEF one
  <2>5. QED BY <1>7, <2>1, <2>4 DEF Alone
<1>11. CASE /\ m.type \notin {"kOpen", "kDisconnected"} /\ (m.type = "kClose" => ~HasDocument(c, m.id))
            /\ Talks
  <2>1. connections' = connections /\ documentList' = documentList
    BY <1>11 DEF Talks
  <2>2. \A id : Among(Entry(c, id), connections') => (HasDocument(c, id))'
    BY <2>1 DEF SingleTab, HasDocument
  <2>3. v = x
    <3>1. CASE m.type = "kClose"
      <4>1. x = m.id /\ v = 0
        BY <1>5, <3>1 DEF Leads
      <4>2. x = 0
        <5> SUFFICES ASSUME x # 0 PROVE FALSE
          OBVIOUS
        <5>1. documentList[c] = <<x>>
          BY <1>4 DEF Alone
        <5>2. DOMAIN documentList[c] = {1} /\ documentList[c][1] = x
          BY <5>1
        <5>3. QED BY <1>11, <3>1, <4>1, <5>2 DEF HasDocument
      <4>3. QED BY <4>1, <4>2
    <3>2. CASE m.type # "kClose"
      BY <1>5, <1>11, <3>2 DEF Leads
    <3>3. QED BY <3>1, <3>2
  <2>4. QED BY <1>4, <2>1, <2>2, <2>3
<1>12. QED
  BY <1>8, <1>9, <1>10, <1>11, CommandCases DEF m

\* Every step of the server.
LEMMA ServerKeepsSingle ==
    ASSUME ConnInv, ServerStep, NEW c \in Clients, SingleTab(c)
    PROVE  (SingleTab(c))'
<1>1. Remember /\ ServerOnly /\ Counts
  BY ServerCounts DEF ServerStep
<1>2. (OpenTabs(c))' = OpenTabs(c)
  BY <1>1 DEF Remember, OpenTabs
<1>3. ASSUME toServer'[c] = toServer[c], documentList'[c] = documentList[c] PROVE (SingleTab(c))'
  <2>1. toServer[c] \in Seq(Command)
    BY DEF ConnInv, TypeOK
  <2>2. \A id : ~Informs(c, id)
    <3> SUFFICES ASSUME toServer[c] # <<>>, toServer[c] = Tail(toServer[c]) PROVE FALSE
      BY <1>3 DEF Informs
    <3>1. Len(toServer[c]) = Len(toServer[c]) - 1 /\ Len(toServer[c]) \in Nat
      BY <2>1, HeadTailProperties, LenProperties
    <3>2. QED BY <3>1
  <2>3. \A id : Among(Entry(c, id), connections') => Among(Entry(c, id), connections)
    BY <1>1, <2>2 DEF Counts
  <2>4. QED BY <1>2, <1>3, <2>3, OthersStaySingle
<1>4. CASE FileModified
  BY <1>3, <1>4 DEF FileModified
<1>5. ASSUME NEW d \in Clients, ProcessMessage(d) PROVE (SingleTab(c))'
  <2>1. CASE d = c
    BY <1>1, <1>5, <2>1, ServedStaysSingle
  <2>2. CASE d # c
    <3>1. toServer'[c] = toServer[c]
      BY <1>1, <1>5, <2>2, ProcessServes DEF Remember
    <3>2. documentList'[c] = documentList[c]
      <4>1. documentList \in [Clients -> Seq(Nat)]
        BY DEF ConnInv, TypeOK
      <4>2. \/ \E id : OpenDocumentForClient(d, id)
            \/ HandleDisconnected(d) \/ HandleClose(d) \/ Talks
        BY <1>5, CommandCases
      <4>3. QED BY <2>2, <4>1, <4>2 DEF OpenDocumentForClient, HandleDisconnected, HandleClose, Talks
    <3>3. QED BY <1>3, <3>1, <3>2
  <2>3. QED BY <2>1, <2>2
<1>6. QED
  BY <1>4, <1>5 DEF ServerStep

\* A command that is sent.
LEMMA SendingStaysSingle ==
    ASSUME ConnInv, EditorOnly, NEW c \in Clients, SingleTab(c), NEW m \in Command, SendData(c, m),
           NEW z \in Nat, (OpenTabs(c))' = Only(z),
           \A y \in Nat : OpenTabs(c) = Only(y) => Leads(m, y, z)
    PROVE  (SingleTab(c))'
<1>1. PICK x \in Nat, y \in Nat : documentList[c] = Alone(x) /\ OpenTabs(c) = Only(y) /\ Walks(toServer[c], x, y)
  BY DEF SingleTab
<1>2. toServer[c] \in Seq(Command) /\ toServer'[c] = Append(toServer[c], m)
  BY SentCommand DEF ConnInv, TypeOK
<1>3. Walks(toServer'[c], x, z)
  BY <1>1, <1>2, WalkOn
<1>4. documentList' = documentList /\ connections' = connections
  BY DEF EditorOnly
<1>5. \A id : Among(Entry(c, id), connections') => (HasDocument(c, id))'
  BY <1>4 DEF SingleTab, HasDocument
<1>6. QED
  BY <1>1, <1>3, <1>4, <1>5 DEF SingleTab

\* A process that is given a second tab is doubled, and one that is not has one.
LEMMA EditorKeepsSingle ==
    ASSUME ConnInv, NEW e \in Clients, EditorStep(e), NEW c \in Clients \ doubled', c \notin doubled => SingleTab(c)
    PROVE  (SingleTab(c))'
<1>1. EditorOnly /\ documentList' = documentList /\ connections' = connections
  BY EditorStepKeeps DEF EditorOnly
<1>2. c \notin doubled
  BY DEF EditorStep, OpenTab, HandleDocumentServerEvent, LoseConnection, CloseEditor, Edit, Request
<1>3. SingleTab(c)
  BY <1>2
<1>4. ASSUME toServer'[c] = toServer[c], (OpenTabs(c))' = OpenTabs(c) PROVE (SingleTab(c))'
  BY <1>1, <1>3, <1>4, OthersStaySingle
<1>5. tabs'[c] = tabs[c] => (OpenTabs(c))' = OpenTabs(c)
  BY DEF OpenTabs
<1>6. CASE OpenTab(e)
  <2> DEFINE id == Len(tabs[e]) + 1
             m == [type |-> "kOpen", id |-> id]
  <2>1. /\ SendData(e, m) /\ doubled' = IF OpenTabs(e) = {} THEN doubled ELSE doubled \cup {e}
        /\ tabs[e] \in Seq(Tab \cup {None})
    BY <1>6 DEF OpenTab, ConnInv, TypeOK
  <2>2. id \in Nat /\ id # 0 /\ m \in Command /\ m.type = "kOpen" /\ m.id = id
    BY <2>1, LenProperties DEF Command
  <2>3. (OpenTabs(e))' = OpenTabs(e) \cup {id} /\ \A d \in Clients \ {e} : (OpenTabs(d))' = OpenTabs(d)
    BY <1>6, OpenTabKeeps
  <2> HIDE DEF id, m
  <2>4. CASE c # e
    <3>1. toServer'[c] = toServer[c]
      BY <2>1, <2>2, <2>4, SentCommand
    <3>2. QED BY <1>4, <2>3, <2>4, <3>1
  <2>5. CASE c = e
    <3>1. OpenTabs(c) = {}
      BY <2>1, <2>5
    <3>2. (OpenTabs(c))' = Only(id)
      BY <2>2, <2>3, <2>5, <3>1 DEF Only
    <3>3. \A y \in Nat : OpenTabs(c) = Only(y) => Leads(m, y, id)
      BY <2>2, <3>1 DEF Only, Leads
    <3>4. QED BY <1>1, <1>3, <2>1, <2>2, <2>5, <3>2, <3>3, SendingStaysSingle
  <2>6. QED BY <2>4, <2>5
<1>7. CASE HandleDocumentServerEvent(e)
  <2> DEFINE l == Head(toClient[e])
             u == HandleMessage(tabs[e][l.id], l.message)
  <2>1. toServer' = toServer
    BY <1>7 DEF HandleDocumentServerEvent
  <2>2. /\ l \in Letter
        /\ IF l.id \in OpenTabs(e) THEN tabs' = [tabs EXCEPT ![e] = [@ EXCEPT ![l.id] = u]] ELSE tabs' = tabs
    BY <1>7, EventTab
  <2>3. CASE l.id \in OpenTabs(e)
    <3>1. u \in Tab /\ u # None /\ u \in Tab \cup {None}
      BY <2>2, <2>3, OpenTabType, HandledType, EditorAssumption DEF Letter
    <3> HIDE DEF l, u
    <3>2. /\ (OpenTabs(e))' = IF u = None THEN OpenTabs(e) \ {l.id} ELSE OpenTabs(e)
          /\ \A d \in Clients \ {e} : (OpenTabs(d))' = OpenTabs(d)
      BY <2>2, <2>3, <3>1, TabChanges
    <3>3. (OpenTabs(c))' = OpenTabs(c)
      BY <3>1, <3>2
    <3>4. QED BY <1>4, <2>1, <3>3
  <2>4. CASE l.id \notin OpenTabs(e)
    BY <1>4, <1>5, <2>1, <2>2, <2>4
  <2>5. QED BY <2>3, <2>4
<1>8. CASE LoseConnection(e)
  <2>1. /\ (OpenTabs(e))' = {} /\ \A d \in Clients \ {e} : tabs'[d] = tabs[d] /\ toServer'[d] = toServer[d]
    BY <1>8, LoseConnectionKeeps
  <2>2. CASE c # e
    BY <1>4, <1>5, <2>1, <2>2
  <2>3. CASE c = e
    <3> DEFINE m == [type |-> "kDisconnected", id |-> 0]
    <3>1. toServer \in [Clients -> Seq(Command)] /\ toServer[c] \in Seq(Command)
      BY DEF ConnInv, TypeOK
    <3>2. PICK n \in 0 .. Len(toServer[e]) : toServer' = [toServer EXCEPT ![e] = Append(SubSeq(@, 1, n), m)]
      BY <1>8 DEF LoseConnection
    <3>3. m \in Command /\ m.type = "kDisconnected"
      BY DEF Command
    <3> HIDE DEF m
    <3>4. PICK x \in Nat, y \in Nat : documentList[c] = Alone(x) /\ OpenTabs(c) = Only(y) /\ Walks(toServer[c], x, y)
      BY <1>3 DEF SingleTab
    <3>5. PICK z \in Nat : Walks(SubSeq(toServer[c], 1, n), x, z)
      BY <2>3, <3>1, <3>2, <3>4, WalkPartly
    <3>6. SubSeq(toServer[c], 1, n) \in Seq(Command)
      <4>1. Len(toServer[c]) \in Nat
        BY <3>1, LenProperties
      <4>2. QED BY <2>3, <3>1, <3>2, <4>1
    <3>7. Leads(m, z, 0) /\ 0 \in Nat
      BY <3>3 DEF Leads
    <3>8. Walks(Append(SubSeq(toServer[c], 1, n), m), x, 0)
      BY <3>3, <3>4, <3>5, <3>6, <3>7, WalkOn
    <3>9. Walks(toServer'[c], x, 0)
      BY <2>3, <3>1, <3>2, <3>8
    <3>10. (OpenTabs(c))' = Only(0)
      BY <2>1, <2>3 DEF Only
    <3>11. \A id : Among(Entry(c, id), connections') => (HasDocument(c, id))'
      BY <1>1, <1>3 DEF SingleTab, HasDocument
    <3>12. QED BY <1>1, <3>4, <3>7, <3>9, <3>10, <3>11 DEF SingleTab
  <2>4. QED BY <2>2, <2>3
<1>9. ASSUME NEW i \in OpenTabs(e), NEW m \in Command, SendData(e, m),
             m.type \notin {"kOpen", "kClose", "kDisconnected"}, (OpenTabs(c))' = OpenTabs(c)
      PROVE  (SingleTab(c))'
  <2>1. CASE c # e
    <3>1. toServer'[c] = toServer[c]
      BY <1>9, <2>1, SentCommand
    <3>2. QED BY <1>4, <1>9, <3>1
  <2>2. CASE c = e
    <3>1. PICK z \in Nat : OpenTabs(c) = Only(z)
      BY <1>3 DEF SingleTab
    <3>2. \A y \in Nat : OpenTabs(c) = Only(y) => Leads(m, y, z)
      BY <1>9, <3>1 DEF Only, Leads
    <3>3. QED BY <1>1, <1>3, <1>9, <2>2, <3>1, <3>2, SendingStaysSingle
  <2>3. QED BY <2>1, <2>2
<1>10. ASSUME NEW i \in OpenTabs(e), CloseEditor(e, i) PROVE (SingleTab(c))'
  <2> DEFINE m == [type |-> "kClose", id |-> i]
  <2>1. tabs' = [tabs EXCEPT ![e] = [@ EXCEPT ![i] = None]] /\ SendData(e, m) /\ m \in Command
    BY <1>10, CloseEditorKeeps
  <2>2. (OpenTabs(e))' = OpenTabs(e) \ {i} /\ \A d \in Clients \ {e} : (OpenTabs(d))' = OpenTabs(d)
    BY <2>1, TabChanges
  <2>3. m.type = "kClose" /\ m.id = i
    OBVIOUS
  <2> HIDE DEF m
  <2>4. CASE c # e
    <3>1. toServer'[c] = toServer[c]
      BY <2>1, <2>4, SentCommand
    <3>2. QED BY <1>4, <2>2, <2>4, <3>1
  <2>5. CASE c = e
    <3>1. \A y \in Nat : OpenTabs(c) = Only(y) => y = i /\ Leads(m, y, 0)
      BY <2>3, <2>5 DEF Only, Leads
    <3>2. (OpenTabs(c))' = Only(0) /\ 0 \in Nat
      <4>1. PICK y \in Nat : OpenTabs(c) = Only(y)
        BY <1>3 DEF SingleTab
      <4>2. QED BY <2>2, <2>5, <3>1, <4>1 DEF Only
    <3>3. QED BY <1>1, <1>3, <2>1, <2>5, <3>1, <3>2, SendingStaysSingle
  <2>6. QED BY <2>4, <2>5
<1>11. ASSUME NEW i \in OpenTabs(e), NEW changes \in Transactions, Edit(e, i, changes)
       PROVE  (SingleTab(c))'
  <2> DEFINE m == [type |-> "kChange", id |-> i, changes |-> changes]
             u == Edited(tabs[e][i], changes)
  <2>1. SendData(e, m) /\ m \in Command
    BY <1>11, EditKeeps
  <2>2. u \in Tab /\ tabs' = [tabs EXCEPT ![e] = [@ EXCEPT ![i] = u]]
    BY <1>11, EditedTab
  <2>3. u \in Tab \cup {None} /\ u # None
    BY <2>2, EditorAssumption
  <2>4. m.type \notin {"kOpen", "kClose", "kDisconnected"}
    OBVIOUS
  <2> HIDE DEF m, u
  <2>5. /\ (OpenTabs(e))' = IF u = None THEN OpenTabs(e) \ {i} ELSE OpenTabs(e)
        /\ \A d \in Clients \ {e} : (OpenTabs(d))' = OpenTabs(d)
    BY <2>2, <2>3, TabChanges
  <2>6. (OpenTabs(c))' = OpenTabs(c)
    BY <2>3, <2>5
  <2>7. QED BY <1>9, <2>1, <2>4, <2>6
<1>12. ASSUME NEW i \in OpenTabs(e), NEW type \in {"kSave", "kUndo", "kRedo"}, Request(e, i, type)
       PROVE  (SingleTab(c))'
  <2> DEFINE m == [type |-> type, id |-> i]
  <2>1. SendData(e, m) /\ m \in Command /\ tabs' = tabs
    BY <1>12, OpenTabType DEF Request, Command
  <2>2. m.type \notin {"kOpen", "kClose", "kDisconnected"}
    OBVIOUS
  <2> HIDE DEF m
  <2>3. QED BY <1>5, <1>9, <2>1, <2>2
<1>13. QED
  BY <1>6, <1>7, <1>8, <1>10, <1>11, <1>12 DEF EditorStep

\* A tab whose commands are all read is served (OpenDocumentForClient, HandleClose):
\* the list and the connections the server keeps for a process that never had two
\* tabs of the document are those of the tab it has, whatever was opened, closed and
\* lost before.
THEOREM OnlyDoubledTabsAreEverMute == Spec => []OnlyDoubledTabsAreMute
<1>1. Init => SingleTabs
  <2> SUFFICES ASSUME Init, NEW c \in Clients PROVE SingleTab(c)
    BY DEF SingleTabs
  <2> DEFINE z == <<>>
             w == [i \in 0 .. 0 |-> 0]
  <2>1. documentList[c] = z /\ OpenTabs(c) = {} /\ toServer[c] = z /\ connections = z
    BY DEF Init, ServerInit, OpenTabs
  <2>2. w \in [0 .. 0 -> Nat] /\ w[0] = 0
    OBVIOUS
  <2> HIDE DEF w
  <2>3. Len(z) = 0
    OBVIOUS
  <2> HIDE DEF z
  <2>4. Walk(w, z, 0, 0)
    BY <2>2, <2>3 DEF Walk
  <2>5. Walks(toServer[c], 0, 0)
    BY <2>1, <2>4 DEF Walks
  <2>6. documentList[c] = Alone(0) /\ OpenTabs(c) = Only(0)
    BY <2>1 DEF Alone, Only, z
  <2>7. \A id : ~Among(Entry(c, id), connections)
    BY <2>1 DEF Among, z
  <2>8. QED BY <2>5, <2>6, <2>7 DEF SingleTab
<1>2. ConnInv /\ SingleTabs /\ [Next]_vars => SingleTabs'
  <2> SUFFICES ASSUME ConnInv, SingleTabs, [Next]_vars PROVE SingleTabs'
    OBVIOUS
  <2>1. SUFFICES ASSUME NEW c \in Clients \ doubled' PROVE (SingleTab(c))'
    BY DEF SingleTabs
  <2>2. CASE ServerStep
    <3>1. SingleTab(c)
      BY <2>2 DEF ServerStep, Remember, SingleTabs
    <3>2. QED BY <2>2, <3>1, ServerKeepsSingle
  <2>3. ASSUME NEW e \in Clients, EditorStep(e) PROVE (SingleTab(c))'
    BY <2>3, EditorKeepsSingle DEF SingleTabs
  <2>4. CASE UNCHANGED <<documentList, connections, toServer, tabs, doubled>>
    <3>1. SingleTab(c) /\ (OpenTabs(c))' = OpenTabs(c)
      BY <2>4 DEF SingleTabs, OpenTabs
    <3>2. QED BY <2>4, <3>1, OthersStaySingle
  <2>5. CASE OutsideWrite
    BY <2>4, <2>5, OutsideWriteKeeps DEF EditorOnly
  <2>6. CASE UNCHANGED vars
    BY <2>4, <2>6 DEF vars, serverVars, pipes
  <2>7. QED BY <2>2, <2>3, <2>5, <2>6 DEF Next
<1>3. ConnInv /\ SingleTabs => OnlyDoubledTabsAreMute
  BY SingleTabIsServed DEF SingleTabs, OnlyDoubledTabsAreMute, ConnInv, TypeOK
<1>4. QED
  BY <1>1, <1>2, <1>3, ConnectionsAgree, PTL DEF Spec

-----------------------------------------------------------------------------
(* Hot spots.                                                               *)

\* Outside its hot spots the tab shows the server's data.
AgreesElsewhere(tab) == \A p \in Paths \ tab.hotSpots : tab.clientCopy[p] = tab.serverCopy[p]

\* A change of the tab is on its way to the server.
Asked(c, id) == \E i \in DOMAIN toServer[c] : toServer[c][i].type = "kChange" /\ toServer[c][i].id = id

\* Something is on its way to the tab.
Answered(c, id) == \E i \in DOMAIN toClient[c] : toClient[c][i].id = id

\* The tab has hot spots.
Hot(c, id) == tabs[c][id].state = "kLoaded" /\ tabs[c][id].hotSpots # {} /\ Served(c, id)

\* A tab with hot spots waits for something.
Settling(c, id) == AgreesElsewhere(tabs[c][id]) /\ (Hot(c, id) => Asked(c, id) \/ Answered(c, id))

AllSettle == \A c \in connected : \A id \in OpenTabs(c) : Settling(c, id)

\* A tab that has read a message is not hot, and agrees as before.
LEMMA HandledCools ==
    ASSUME NEW tab \in Tab, AgreesElsewhere(tab), NEW m \in Message
    PROVE  LET t == HandleMessage(tab, m) IN
           AgreesElsewhere(t) /\ (t.state = "kLoaded" => t.hotSpots = {})
<1> DEFINE t == HandleMessage(tab, m)
<1>1. CASE \E state \in {"kLoading", "kLoaded", "kLoadFailure"}, content \in Contents :
              m = StateMessage(state, content)
  <2>1. PICK state \in {"kLoading", "kLoaded", "kLoadFailure"}, content \in Contents :
              m = StateMessage(state, content)
    BY <1>1
  <2>2. /\ t.state = state
        /\ IF state = "kLoaded" THEN t.serverCopy = content /\ t.clientCopy = content /\ t.hotSpots = {}
           ELSE /\ t.serverCopy = tab.serverCopy /\ t.clientCopy = tab.clientCopy
                /\ t.hotSpots = tab.hotSpots
    BY <2>1, HandledState
  <2> HIDE DEF t
  <2>3. AgreesElsewhere(t) /\ (t.state = "kLoaded" => t.hotSpots = {})
    BY <2>2 DEF AgreesElsewhere
  <2>4. QED BY <2>3 DEF t
<1>2. CASE \E changes \in Seq(Change) : m = ChangeMessage(changes)
  <2>1. PICK changes \in Seq(Change) : m = ChangeMessage(changes)
    BY <1>2
  <2>2. /\ t.hotSpots = {} /\ t.serverCopy = ApplyChanges(tab.serverCopy, changes)
        /\ \A p \in Paths : t.clientCopy[p] = IF p \in tab.hotSpots \cup PathsOf(changes)
                                              THEN t.serverCopy[p] ELSE tab.clientCopy[p]
    BY <2>1, HandledChange
  <2> HIDE DEF t
  <2>3. tab.serverCopy \in Contents
    BY DEF Tab
  <2>4. ASSUME NEW p \in Paths PROVE t.clientCopy[p] = t.serverCopy[p]
    <3>1. CASE p \in tab.hotSpots \cup PathsOf(changes)
      BY <2>2, <3>1
    <3>2. CASE p \notin tab.hotSpots \cup PathsOf(changes)
      <4>1. t.serverCopy[p] = tab.serverCopy[p]
        BY <2>2, <2>3, <3>2, ApplyElsewhere
      <4>2. tab.clientCopy[p] = tab.serverCopy[p]
        BY <3>2 DEF AgreesElsewhere
      <4>3. QED BY <2>2, <3>2, <4>1, <4>2
    <3>3. QED BY <3>1, <3>2
  <2>5. AgreesElsewhere(t) /\ (t.state = "kLoaded" => t.hotSpots = {})
    BY <2>2, <2>4 DEF AgreesElsewhere
  <2>6. QED BY <2>5 DEF t
<1>3. QED
  BY <1>1, <1>2, HandledType

\* An edited tab agrees as before.
LEMMA EditedAgrees ==
    ASSUME NEW t \in Tab, AgreesElsewhere(t), NEW u \in Tab, NEW changes \in Seq(Change),
           u.serverCopy = t.serverCopy, u.clientCopy = ApplyChanges(t.clientCopy, changes),
           u.hotSpots = t.hotSpots \cup PathsOf(changes)
    PROVE  AgreesElsewhere(u)
<1> SUFFICES ASSUME NEW p \in Paths \ u.hotSpots PROVE u.clientCopy[p] = u.serverCopy[p]
  BY DEF AgreesElsewhere
<1>1. p \in Paths /\ p \notin t.hotSpots /\ p \notin PathsOf(changes)
  OBVIOUS
<1>2. t.clientCopy \in Contents
  BY DEF Tab
<1>3. u.clientCopy[p] = t.clientCopy[p]
  BY <1>1, <1>2, ApplyElsewhere
<1>4. t.clientCopy[p] = t.serverCopy[p]
  BY <1>1 DEF AgreesElsewhere
<1>5. QED
  BY <1>3, <1>4

\* This is the property, with what is on the way leading to the server's data.
LEMMA SettlingIs ==
    ASSUME ConnInv, AllLead, AllSettle
    PROVE  HotSpotsAreTransient
<1> SUFFICES ASSUME NEW c \in connected, NEW id \in OpenTabs(c),
                    tabs[c][id].state = "kLoaded", Served(c, id)
             PROVE  /\ \A p \in Paths \ tabs[c][id].hotSpots : tabs[c][id].clientCopy[p] = tabs[c][id].serverCopy[p]
                    /\ toServer[c] = <<>> /\ toClient[c] = <<>> => tabs[c][id].clientCopy = doc.content
  BY DEF HotSpotsAreTransient
<1> DEFINE tab == tabs[c][id]
<1>1. c \in Clients /\ tab \in Tab
  BY OpenTabType DEF ConnInv, TypeOK
<1>2. AgreesElsewhere(tab) /\ (Hot(c, id) => Asked(c, id) \/ Answered(c, id))
  BY DEF AllSettle, Settling
<1>3. ASSUME toServer[c] = <<>>, toClient[c] = <<>> PROVE tab.clientCopy = doc.content
  <2>1. tab.hotSpots = {}
    BY <1>2, <1>3 DEF Asked, Answered, Hot
  <2>2. tab.clientCopy = tab.serverCopy
    <3>1. \A p \in Paths : tab.clientCopy[p] = tab.serverCopy[p]
      BY <1>2, <2>1 DEF AgreesElsewhere
    <3>2. tab.clientCopy \in Contents /\ tab.serverCopy \in Contents
      BY <1>1 DEF Tab
    <3>3. QED BY <3>1, <3>2 DEF Contents
  <2>3. Leading(c, id)
    BY LeadingIs DEF AllLead, Served
  <2>4. Reads(tab, id, toClient[c]) = tab
    BY <1>1, <1>3, ReadsNothing
  <2>5. InStep(tab, doc)
    BY <2>3, <2>4 DEF Leading
  <2>6. QED BY <2>2, <2>5 DEF InStep
<1>4. QED
  BY <1>2, <1>3 DEF AgreesElsewhere

\* Letters that are on their way stay on it when others are sent.
LEMMA AnsweredStays ==
    ASSUME NEW c, NEW id, NEW s, Extended(toClient'[c], toClient[c], c, s), Answered(c, id),
           toClient[c] \in Seq(Letter), toClient'[c] \in Seq(Letter)
    PROVE  (Answered(c, id))'
<1> DEFINE old == toClient[c]
           new == toClient'[c]
<1>1. /\ DOMAIN old = 1 .. Len(old) /\ DOMAIN new = 1 .. Len(new) /\ Len(old) \in Nat /\ Len(new) \in Nat
  BY LenProperties
<1>2. PICK i \in DOMAIN old : old[i].id = id
  BY DEF Answered
<1>3. Len(old) <= Len(new) /\ \A j \in 1 .. Len(old) : new[j] = old[j]
  BY DEF Extended
<1> HIDE DEF old, new
<1>4. i \in DOMAIN new /\ new[i].id = id
  BY <1>1, <1>2, <1>3
<1>5. QED
  BY <1>4 DEF Answered, new

\* And so do the commands that are not read.
LEMMA AskedStays ==
    ASSUME NEW c, NEW id, toServer[c] \in Seq(Command), toServer[c] # <<>>, toServer'[c] = Tail(toServer[c]),
           Asked(c, id), ~(Head(toServer[c]).type = "kChange" /\ Head(toServer[c]).id = id)
    PROVE  (Asked(c, id))'
<1> DEFINE old == toServer[c]
           new == Tail(old)
<1>1. /\ DOMAIN old = 1 .. Len(old) /\ Len(old) \in Nat /\ new \in Seq(Command)
      /\ Len(new) = Len(old) - 1 /\ \A i \in 1 .. Len(new) : new[i] = old[i + 1]
  BY LenProperties, HeadTailProperties
<1>2. DOMAIN new = 1 .. Len(new)
  BY <1>1, LenProperties
<1>3. PICK i \in DOMAIN old : old[i].type = "kChange" /\ old[i].id = id
  BY DEF Asked
<1>4. Head(old) = old[1]
  BY EmptySeq
<1> HIDE DEF old, new
<1>5. i # 1
  BY <1>3, <1>4 DEF old
<1>6. i - 1 \in DOMAIN new /\ new[i - 1] = old[i]
  <2>1. i \in Nat /\ i - 1 \in 1 .. Len(new) /\ (i - 1) + 1 = i
    BY <1>1, <1>3, <1>5
  <2>2. QED BY <1>1, <1>2, <2>1
<1>7. QED
  BY <1>3, <1>6 DEF Asked, new, old

\* The server reads no change of the tab: it waits as before.
LEMMA WaitsOn ==
    ASSUME ConnInv, ServerOnly, Counts, NEW c \in Clients, NEW id, Asked(c, id) \/ Answered(c, id),
           toServer'[c] = Tail(toServer[c]) /\ toServer[c] # <<>> =>
              ~(Head(toServer[c]).type = "kChange" /\ Head(toServer[c]).id = id)
    PROVE  (Asked(c, id))' \/ (Answered(c, id))'
<1>1. /\ toServer[c] \in Seq(Command) /\ toClient[c] \in Seq(Letter) /\ toClient'[c] \in Seq(Letter)
      /\ Extended(toClient'[c], toClient[c], c, connections')
      /\ toServer'[c] = toServer[c] \/ (toServer[c] # <<>> /\ toServer'[c] = Tail(toServer[c]))
  BY DEF ConnInv, TypeOK, Counts, ServerOnly, Consumes
<1>2. CASE Answered(c, id)
  BY <1>1, <1>2, AnsweredStays
<1>3. CASE Asked(c, id) /\ toServer'[c] = toServer[c]
  BY <1>3 DEF Asked
<1>4. CASE Asked(c, id) /\ toServer[c] # <<>> /\ toServer'[c] = Tail(toServer[c])
  BY <1>1, <1>4, AskedStays
<1>5. QED
  BY <1>1, <1>2, <1>3, <1>4

\* A change that the server reads is told to the tab that made it, unless something
\* else is on its way to the tab.
LEMMA ChangeIsAnswered ==
    ASSUME ConnInv, AllLead, NEW c \in connected, NEW id \in OpenTabs(c), Hot(c, id),
           ProcessMessage(c), ServerOnly, Counts,
           Head(toServer[c]).type = "kChange", Head(toServer[c]).id = id
    PROVE  (Answered(c, id))'
<1> DEFINE m == Head(toServer[c])
           told == ChangeMessage(m.changes)
<1>1. /\ c \in Clients /\ Informed(c, id) /\ HasDocument(c, id)
      /\ toServer[c] # <<>> /\ tabs[c][id].state = "kLoaded"
  BY DEF Hot, Served, ConnInv, TypeOK, ProcessMessage
<1>2. m \in Command /\ tabs[c][id] \in Tab
  BY <1>1, FirstCommand, OpenTabType
<1>3. m.changes \in Seq(Change) /\ told \in Message
  <2>1. m.changes \in Seq(Change)
    BY <1>2 DEF Command
  <2>2. QED BY <2>1, MessageTypes
<1>4. IsConnected(c) /\ Among(Entry(c, id), connections)
  BY <1>1 DEF Informed, IsConnected, Among, Entry
<1>5. HandleChange(m.changes)
  <2>1. Handles(c, m) \/ Ignores(c, m)
    BY DEF ProcessMessage
  <2>2. ~Ignores(c, m)
    BY <1>1, <1>4 DEF Ignores
  <2>3. QED BY <2>1, <2>2 DEF Handles
<1>6. /\ toClient[c] \in Seq(Letter) /\ toClient'[c] \in Seq(Letter) /\ toClient \in [Clients -> Seq(Letter)]
      /\ Extended(toClient'[c], toClient[c], c, connections')
      /\ connections \in Seq(Conn)
  BY <1>1 DEF ConnInv, TypeOK, Counts
<1>7. CASE doc.state = "kLoaded"
  <2>1. toClient' = Send(toClient, connections, told)
    BY <1>5, <1>7 DEF HandleChange, Told
  <2> HIDE DEF told
  <2>2. Posted(toClient'[c], toClient[c], c, connections)
    BY <1>1, <1>3, <1>6, <2>1, SendProperties
  <2>3. PICK j \in DOMAIN connections : connections[j] = Entry(c, id)
    BY <1>4 DEF Among
  <2>4. connections[j].client = c /\ connections[j].id = id
    BY <2>3 DEF Entry
  <2>5. PICK i \in Len(toClient[c]) + 1 .. Len(toClient'[c]) : toClient'[c][i].id = id
    BY <2>2, <2>4 DEF Posted
  <2>6. i \in DOMAIN toClient'[c]
    <3>1. /\ Len(toClient[c]) \in Nat /\ Len(toClient'[c]) \in Nat
          /\ DOMAIN toClient'[c] = 1 .. Len(toClient'[c])
      BY <1>6, LenProperties
    <3>2. QED BY <3>1
  <2>7. QED BY <2>5, <2>6 DEF Answered
<1>8. CASE doc.state # "kLoaded"
  <2>1. Leading(c, id)
    BY <1>4 DEF AllLead
  <2>2. Answered(c, id)
    <3> SUFFICES ASSUME ~Answered(c, id) PROVE FALSE
      OBVIOUS
    <3>1. \A i \in DOMAIN toClient[c] : toClient[c][i].id # id
      BY DEF Answered
    <3>2. Reads(tabs[c][id], id, toClient[c]) = tabs[c][id]
      BY <1>2, <1>6, <3>1, ReadsElsewhere
    <3>3. QED BY <1>1, <1>8, <2>1, <3>2 DEF Leading, InStep
  <2>3. QED BY <1>6, <2>2, AnsweredStays
<1>9. QED
  BY <1>7, <1>8

\* A tab that the server has just been asked to open is told so.
LEMMA OpenIsAnswered ==
    ASSUME ConnInv, NEW c \in connected, toServer[c] # <<>>, Head(toServer[c]).type = "kOpen",
           NEW id, id = Head(toServer[c]).id, OpenDocumentForClient(c, id)
    PROVE  (Answered(c, id))'
<1> DEFINE one == <<Entry(c, id)>>
           m == OpeningState(Opened)
<1>1. /\ c \in Clients /\ id \in Nat /\ toClient \in [Clients -> Seq(Letter)] /\ m \in Message
  BY FirstCommand, OpenedType DEF ConnInv, TypeOK
<1>2. toClient' = Send(toClient, one, m)
  BY DEF OpenDocumentForClient, Entry
<1>3. one \in Seq(Conn) /\ DOMAIN one = {1} /\ one[1].client = c /\ one[1].id = id
  BY <1>1 DEF Conn, Entry
<1> HIDE DEF one, m
<1>4. toClient' \in [Clients -> Seq(Letter)] /\ Posted(toClient'[c], toClient[c], c, one)
  BY <1>1, <1>2, <1>3, SendProperties
<1>5. PICK i \in Len(toClient[c]) + 1 .. Len(toClient'[c]) : toClient'[c][i].id = id
  BY <1>3, <1>4 DEF Posted
<1>6. i \in DOMAIN toClient'[c]
  <2>1. /\ Len(toClient[c]) \in Nat /\ Len(toClient'[c]) \in Nat
        /\ DOMAIN toClient'[c] = 1 .. Len(toClient'[c])
    BY <1>1, <1>4, LenProperties
  <2>2. QED BY <2>1
<1>7. QED
  BY <1>5, <1>6 DEF Answered

\* Who is served after a step of the server was served, or has just opened.
LEMMA ServedBefore ==
    ASSUME ConnInv, ServerStep, NEW c \in Clients, NEW id, (Served(c, id))'
    PROVE  Served(c, id) \/ Informs(c, id)
<1>1. Remember /\ ServerOnly /\ Counts /\ documentList \in [Clients -> Seq(Nat)]
      /\ toServer[c] \in Seq(Command)
  BY ServerCounts DEF ServerStep, ConnInv, TypeOK
<1>2. Among(Entry(c, id), connections') /\ (HasDocument(c, id))'
  BY DEF Served, Informed, Among, Entry
<1>3. Among(Entry(c, id), connections) \/ Informs(c, id)
  BY <1>1, <1>2 DEF Counts
<1>4. HasDocument(c, id) \/ Informs(c, id)
  <2>1. CASE documentList'[c] = documentList[c]
    BY <1>2, <2>1 DEF HasDocument
  <2>2. ASSUME NEW d \in Clients, ProcessMessage(d) PROVE HasDocument(c, id) \/ Informs(c, id)
    <3> DEFINE m == Head(toServer[d])
    <3>0. toServer[d] # <<>> /\ toServer'[d] = Tail(toServer[d])
      BY <1>1, <2>2, ProcessServes DEF Remember
    <3>1. CASE m.type = "kOpen" /\ OpenDocumentForClient(d, m.id)
      <4>1. documentList' = [documentList EXCEPT ![d] = Append(@, m.id)]
        BY <3>1 DEF OpenDocumentForClient
      <4>2. CASE c # d
        BY <1>1, <2>1, <4>1, <4>2
      <4>3. CASE c = d
        <5>1. documentList'[c] = Append(documentList[c], m.id) /\ documentList[c] \in Seq(Nat) /\ m.id \in Nat
          BY <1>1, <3>0, <4>1, <4>3, FirstCommand
        <5>2. Among(id, documentList'[c])
          BY <1>2 DEF HasDocument, Among
        <5>3. Among(id, documentList[c]) \/ id = m.id
          BY <5>1, <5>2, AmongAppend
        <5>4. QED BY <3>0, <3>1, <4>3, <5>3 DEF HasDocument, Among, Informs
      <4>4. QED BY <4>2, <4>3
    <3>2. CASE m.type = "kClose" /\ HasDocument(d, m.id) /\ HandleClose(d)
      <4>1. documentList' = [documentList EXCEPT ![d] = RemoveQuick(@, 1)]
        BY <3>2 DEF HandleClose
      <4>2. CASE c # d
        BY <1>1, <2>1, <4>1, <4>2
      <4>3. CASE c = d
        <5>1. documentList'[c] = RemoveQuick(documentList[c], 1) /\ documentList[c] \in Seq(Nat)
          BY <1>1, <4>1, <4>3
        <5>2. 1 \in 1 .. Len(documentList[c])
          BY <3>2, <4>3, <5>1, HasDocumentIsOpen, EmptySeq
        <5>3. Among(id, documentList'[c])
          BY <1>2 DEF HasDocument, Among
        <5>4. Among(id, documentList[c])
          BY <5>1, <5>2, <5>3, RemoveQuickKeeps
        <5>5. QED BY <5>4 DEF HasDocument, Among
      <4>4. QED BY <4>2, <4>3
    <3>3. CASE m.type = "kDisconnected" /\ HandleDisconnected(d)
      <4>1. CASE c # d
        BY <1>1, <2>1, <3>3, <4>1 DEF HandleDisconnected
      <4>2. CASE c = d
        BY <1>2, <3>3, <4>2, DisconnectCounts
      <4>3. QED BY <4>1, <4>2
    <3>4. CASE Talks
      BY <2>1, <3>4 DEF Talks
    <3>5. QED BY <2>2, <3>1, <3>2, <3>3, <3>4, CommandCases
  <2>3. CASE FileModified
    BY <2>1, <2>3 DEF FileModified
  <2>4. QED BY <2>2, <2>3 DEF ServerStep
<1>5. QED
  BY <1>3, <1>4 DEF Served, Informed, Among, Entry

\* Every step of the server.
LEMMA ServerSettles ==
    ASSUME ConnInv, AllLead, AllSettle, ServerStep, NEW c \in connected', NEW id \in OpenTabs(c)
    PROVE  (Settling(c, id))'
<1>1. /\ Remember /\ ServerOnly /\ Counts /\ c \in Clients /\ tabs' = tabs
  BY ServerCounts DEF ServerStep, ServerOnly
<1>2. c \in connected
  BY <1>1 DEF ConnInv, TabsAreOnline
<1>3. Settling(c, id)
  BY <1>2 DEF AllSettle
<1>4. AgreesElsewhere(tabs'[c][id])
  BY <1>1, <1>3 DEF Settling
<1>5. SUFFICES ASSUME (Hot(c, id))' PROVE (Asked(c, id))' \/ (Answered(c, id))'
  BY <1>4 DEF Settling
<1>6. (Served(c, id))' /\ tabs[c][id].state = "kLoaded" /\ tabs[c][id].hotSpots # {}
  BY <1>1, <1>5 DEF Hot
<1>7. Served(c, id) \/ Informs(c, id)
  BY <1>1, <1>6, ServedBefore
<1>8. CASE Served(c, id)
  <2>1. Hot(c, id)
    BY <1>6, <1>8 DEF Hot
  <2>2. Asked(c, id) \/ Answered(c, id)
    BY <1>3, <2>1 DEF Settling
  <2>3. CASE ProcessMessage(c) /\ Head(toServer[c]).type = "kChange" /\ Head(toServer[c]).id = id
    BY <1>1, <1>2, <2>1, <2>3, ChangeIsAnswered
  <2>4. CASE /\ toServer'[c] = Tail(toServer[c]) /\ toServer[c] # <<>> =>
                   ~(Head(toServer[c]).type = "kChange" /\ Head(toServer[c]).id = id)
    BY <1>1, <2>2, <2>4, WaitsOn
  <2>5. toServer'[c] = Tail(toServer[c]) /\ toServer[c] # <<>> => ProcessMessage(c)
    BY <1>1, ReadIsProcessed
  <2>6. QED BY <2>3, <2>4, <2>5
<1>9. CASE Informs(c, id)
  <2>1. ProcessMessage(c)
    BY <1>1, <1>9, ReadIsProcessed DEF Informs
  <2>2. toServer[c] # <<>> /\ Head(toServer[c]).type = "kOpen" /\ Head(toServer[c]).id = id
    BY <1>9 DEF Informs
  <2>3. OpenDocumentForClient(c, id)
    BY <1>1, <2>1, <2>2, CommandCases
  <2>4. QED BY <1>2, <2>2, <2>3, OpenIsAnswered
<1>10. QED
  BY <1>7, <1>8, <1>9

\* A tab that is as it was, with nothing gone that it waits for.
LEMMA SameSettles ==
    ASSUME AllSettle, NEW c \in connected, NEW id \in OpenTabs(c),
           UNCHANGED <<connections, documentList>>, tabs'[c][id] = tabs[c][id],
           Asked(c, id) => (Asked(c, id))', Answered(c, id) => (Answered(c, id))'
    PROVE  (Settling(c, id))'
<1>1. Settling(c, id)
  BY DEF AllSettle
<1>2. (Served(c, id))' <=> Served(c, id)
  BY DEF Served, Informed, HasDocument
<1>3. (Hot(c, id))' => Hot(c, id)
  BY <1>2 DEF Hot
<1>4. QED
  BY <1>1, <1>3 DEF Settling

\* A command that is sent takes none away.
LEMMA AskedStaysOnSend ==
    ASSUME ConnInv, NEW e \in Clients, NEW m \in Command, SendData(e, m), NEW c \in Clients, NEW id,
           Asked(c, id) \/ (c = e /\ m.type = "kChange" /\ m.id = id)
    PROVE  (Asked(c, id))'
<1>1. CASE c # e
  BY <1>1, SentCommand DEF Asked
<1>2. CASE c = e
  <2> DEFINE old == toServer[c]
             new == toServer'[c]
             n == Len(toServer[c])
  <2>1. /\ n \in Nat /\ DOMAIN old = 1 .. n /\ DOMAIN new = 1 .. n + 1
        /\ \A i \in 1 .. n : new[i] = old[i]
        /\ new[n + 1] = m
    BY <1>2, SentCommand
  <2> HIDE DEF old, new, n
  <2>2. CASE \E i \in DOMAIN old : old[i].type = "kChange" /\ old[i].id = id
    <3>1. PICK i \in DOMAIN old : old[i].type = "kChange" /\ old[i].id = id
      BY <2>2
    <3>2. i \in DOMAIN new /\ new[i] = old[i]
      BY <2>1
    <3>3. QED BY <3>1, <3>2 DEF Asked, new
  <2>3. CASE m.type = "kChange" /\ m.id = id
    <3>1. n + 1 \in DOMAIN new
      BY <2>1
    <3>2. QED BY <2>1, <2>3, <3>1 DEF Asked, new
  <2>4. QED BY <1>2, <2>2, <2>3 DEF Asked, old
<1>3. QED
  BY <1>1, <1>2

\* A letter for another tab is read: what this one waits for is still there.
LEMMA AnsweredStaysOnEvent ==
    ASSUME ConnInv, NEW c \in Clients, HandleDocumentServerEvent(c), NEW id,
           Head(toClient[c]).id # id, Answered(c, id)
    PROVE  (Answered(c, id))'
<1> DEFINE old == toClient[c]
           new == toClient'[c]
<1>1. old # <<>> /\ old \in Seq(Letter) /\ new = Tail(old) /\ new \in Seq(Letter)
  BY EventTab DEF ConnInv, TypeOK
<1>2. /\ DOMAIN old = 1 .. Len(old) /\ Len(old) \in Nat /\ DOMAIN new = 1 .. Len(new)
      /\ Head(old) = old[1]
  BY <1>1, LenProperties, EmptySeq
<1>3. PICK i \in DOMAIN old : old[i].id = id
  BY DEF Answered
<1>4. Head(old).id # id
  OBVIOUS
<1> HIDE DEF old, new
<1>5. Len(new) = Len(old) - 1 /\ \A j \in 1 .. Len(new) : new[j] = old[j + 1]
  BY <1>1, HeadTailProperties
<1>6. i # 1
  BY <1>2, <1>3, <1>4
<1>7. i - 1 \in DOMAIN new /\ new[i - 1] = old[i]
  <2>1. i \in Nat /\ i - 1 \in 1 .. Len(new) /\ (i - 1) + 1 = i
    BY <1>2, <1>3, <1>5, <1>6
  <2>2. QED BY <1>2, <1>5, <2>1
<1>8. QED
  BY <1>3, <1>7 DEF Answered, new

\* A tab that reads a letter settles.
LEMMA EventSettles ==
    ASSUME ConnInv, AllSettle, NEW e \in Clients, HandleDocumentServerEvent(e),
           NEW c \in connected, NEW id \in (OpenTabs(c))'
    PROVE  (Settling(c, id))'
<1> DEFINE l == Head(toClient[e])
           u == HandleMessage(tabs[e][l.id], l.message)
<1>1. /\ l \in Letter /\ \A d \in Clients \ {e} : toClient'[d] = toClient[d]
      /\ IF l.id \in OpenTabs(e) THEN tabs' = [tabs EXCEPT ![e] = [@ EXCEPT ![l.id] = u]] ELSE tabs' = tabs
  BY EventTab
<1>2. UNCHANGED <<connections, documentList, toServer>> /\ c \in Clients
  BY DEF HandleDocumentServerEvent, serverVars, ConnInv, TypeOK
<1>3. l.id \in OpenTabs(e) => tabs[e][l.id] \in Tab /\ u \in Tab /\ u # None /\ u \in Tab \cup {None}
  BY <1>1, OpenTabType, HandledType, EditorAssumption DEF Letter
<1>4. l.message \in Message
  BY <1>1 DEF Letter
<1>5. Asked(c, id) => (Asked(c, id))'
  BY <1>2 DEF Asked
<1> HIDE DEF u
<1>6. l.id \in OpenTabs(e) =>
         /\ tabs'[e][l.id] = u /\ \A i \in DOMAIN tabs[e] : i # l.id => tabs'[e][i] = tabs[e][i]
         /\ \A d \in Clients \ {e} : tabs'[d] = tabs[d] /\ (OpenTabs(d))' = OpenTabs(d)
         /\ (OpenTabs(e))' = IF u = None THEN OpenTabs(e) \ {l.id} ELSE OpenTabs(e)
  <2> HIDE DEF l
  <2>1. QED BY <1>1, <1>3, TabChanges
<1>7. id \in OpenTabs(c)
  <2> HIDE DEF l
  <2>1. CASE l.id \in OpenTabs(e)
    BY <1>2, <1>3, <1>6, <2>1
  <2>2. CASE l.id \notin OpenTabs(e)
    BY <1>1, <2>2 DEF OpenTabs
  <2>3. QED BY <2>1, <2>2
<1>8. id \in DOMAIN tabs[c] /\ tabs[c][id] \in Tab
  BY <1>2, <1>7, OpenTabType
<1>9. CASE c = e /\ l.id = id
  <2>1. tabs'[c][id] = u /\ u = HandleMessage(tabs[c][id], l.message)
    BY <1>6, <1>7, <1>9 DEF u
  <2>2. AgreesElsewhere(tabs[c][id])
    BY <1>7 DEF AllSettle, Settling
  <2> HIDE DEF l
  <2>3. AgreesElsewhere(u) /\ (u.state = "kLoaded" => u.hotSpots = {})
    BY <1>4, <1>8, <2>1, <2>2, HandledCools
  <2>4. QED BY <2>1, <2>3 DEF Settling, Hot
<1>10. CASE ~(c = e /\ l.id = id)
  <2>1. tabs'[c][id] = tabs[c][id]
    <3> HIDE DEF l
    <3>1. QED BY <1>1, <1>2, <1>6, <1>8, <1>10
  <2>2. Answered(c, id) => (Answered(c, id))'
    <3>1. CASE c = e
      BY <1>10, <3>1, AnsweredStaysOnEvent
    <3>2. CASE c # e
      BY <1>1, <1>2, <3>2 DEF Answered
    <3>3. QED BY <3>1, <3>2
  <2>3. QED BY <1>2, <1>5, <1>7, <2>1, <2>2, SameSettles
<1>11. QED
  BY <1>9, <1>10

\* Every step of an editor.
LEMMA EditorSettles ==
    ASSUME ConnInv, AllSettle, NEW e \in Clients, EditorStep(e),
           NEW c \in connected', NEW id \in (OpenTabs(c))'
    PROVE  (Settling(c, id))'
<1>1. UNCHANGED <<connections, documentList>> /\ c \in Clients
  BY EditorStepKeeps DEF EditorOnly, EditorKeeps
<1>2. ASSUME c \in connected, id \in OpenTabs(c), tabs'[c][id] = tabs[c][id], toClient'[c] = toClient[c],
             Asked(c, id) => (Asked(c, id))'
      PROVE  (Settling(c, id))'
  BY <1>1, <1>2, SameSettles DEF Answered
<1>3. tabs'[c] = tabs[c] => id \in OpenTabs(c)
  BY DEF OpenTabs
<1>4. CASE OpenTab(e)
  <2> DEFINE i == Len(tabs[e]) + 1
             m == [type |-> "kOpen", id |-> i]
  <2>1. /\ connected' = connected /\ toClient' = toClient /\ SendData(e, m)
        /\ tabs[e] \in Seq(Tab \cup {None}) /\ DOMAIN tabs[e] = 1 .. Len(tabs[e]) /\ Len(tabs[e]) \in Nat
    BY <1>4, LenProperties DEF OpenTab, ConnInv, TypeOK
  <2>2. /\ tabs'[e] = Append(tabs[e], NewTab) /\ \A d \in Clients \ {e} : tabs'[d] = tabs[d]
        /\ i \notin DOMAIN tabs[e] /\ (OpenTabs(e))' = OpenTabs(e) \cup {i}
    BY <1>4, OpenTabKeeps
  <2>3. m \in Command
    BY <2>1 DEF Command
  <2>4. NewTab \in Tab /\ NewTab \in Tab \cup {None} /\ NewTab.hotSpots = {} /\ AgreesElsewhere(NewTab)
    BY EmptyFileType DEF NewTab, Tab, AgreesElsewhere
  <2> HIDE DEF m
  <2>5. Asked(c, id) => (Asked(c, id))'
    BY <1>1, <2>1, <2>3, AskedStaysOnSend
  <2>6. CASE c = e /\ id = i
    <3>1. tabs'[c][id] = NewTab
      BY <2>1, <2>2, <2>4, <2>6, AppendProperties
    <3>2. QED BY <2>4, <3>1 DEF Settling, Hot
  <2>7. CASE c = e /\ id # i
    <3>1. id \in OpenTabs(c)
      BY <2>2, <2>7
    <3>2. id \in DOMAIN tabs[c]
      BY <1>1, <3>1, OpenTabType
    <3>3. tabs'[c][id] = tabs[c][id]
      BY <2>1, <2>2, <2>4, <2>7, <3>2, AppendProperties
    <3>4. QED BY <1>2, <2>1, <2>5, <3>1, <3>3
  <2>8. CASE c # e
    BY <1>1, <1>2, <1>3, <2>1, <2>2, <2>5, <2>8
  <2>9. QED BY <2>6, <2>7, <2>8
<1>5. CASE HandleDocumentServerEvent(e)
  <2>1. connected' = connected
    BY <1>5 DEF HandleDocumentServerEvent
  <2>2. QED BY <1>5, <2>1, EventSettles
<1>6. CASE LoseConnection(e)
  <2>1. /\ c # e /\ c \in connected /\ tabs'[c] = tabs[c] /\ toClient'[c] = toClient[c]
        /\ toServer'[c] = toServer[c]
    BY <1>1, <1>6, LoseConnectionKeeps
  <2>2. QED BY <1>2, <1>3, <2>1 DEF Asked
<1>7. ASSUME NEW i \in OpenTabs(e), CloseEditor(e, i) PROVE (Settling(c, id))'
  <2> DEFINE m == [type |-> "kClose", id |-> i]
  <2>1. /\ connected' = connected /\ toClient' = toClient /\ SendData(e, m) /\ m \in Command
        /\ tabs' = [tabs EXCEPT ![e] = [@ EXCEPT ![i] = None]]
    BY <1>7, CloseEditorKeeps DEF CloseEditor
  <2>2. /\ \A j \in DOMAIN tabs[e] : j # i => tabs'[e][j] = tabs[e][j]
        /\ \A d \in Clients \ {e} : tabs'[d] = tabs[d]
        /\ (OpenTabs(e))' = OpenTabs(e) \ {i}
    BY <2>1, TabChanges
  <2> HIDE DEF m
  <2>3. Asked(c, id) => (Asked(c, id))'
    BY <1>1, <2>1, AskedStaysOnSend
  <2>4. CASE c = e
    <3>1. id \in OpenTabs(c) /\ id # i
      BY <2>2, <2>4
    <3>2. id \in DOMAIN tabs[c]
      BY <1>1, <3>1, OpenTabType
    <3>3. QED BY <1>2, <2>1, <2>2, <2>3, <2>4, <3>1, <3>2
  <2>5. CASE c # e
    BY <1>1, <1>2, <1>3, <2>1, <2>2, <2>3, <2>5
  <2>6. QED BY <2>4, <2>5
<1>8. ASSUME NEW i \in OpenTabs(e), NEW changes \in Transactions, Edit(e, i, changes)
      PROVE  (Settling(c, id))'
  <2> DEFINE m == [type |-> "kChange", id |-> i, changes |-> changes]
             t == tabs[e][i]
             u == Edited(t, changes)
  <2>1. connected' = connected /\ toClient' = toClient /\ SendData(e, m) /\ m \in Command
    BY <1>8, EditKeeps DEF Edit
  <2>2. /\ changes \in Seq(Change) /\ u \in Tab /\ tabs' = [tabs EXCEPT ![e] = [@ EXCEPT ![i] = u]]
        /\ u.serverCopy = t.serverCopy /\ u.clientCopy = ApplyChanges(t.clientCopy, changes)
        /\ u.hotSpots = t.hotSpots \cup PathsOf(changes)
    BY <1>8, EditedTab
  <2>3. t \in Tab /\ u # None /\ u \in Tab \cup {None}
    BY <2>2, OpenTabType, EditorAssumption
  <2>4. m.type = "kChange" /\ m.id = i
    OBVIOUS
  <2> HIDE DEF m, t, u
  <2>5. /\ tabs'[e][i] = u /\ \A j \in DOMAIN tabs[e] : j # i => tabs'[e][j] = tabs[e][j]
        /\ \A d \in Clients \ {e} : tabs'[d] = tabs[d]
        /\ (OpenTabs(e))' = OpenTabs(e)
    BY <1>8, EditedPlaces DEF u, t
  <2>6. Asked(c, id) \/ (c = e /\ id = i) => (Asked(c, id))'
    BY <1>1, <2>1, <2>4, AskedStaysOnSend
  <2>7. CASE c # e
    BY <1>1, <1>2, <1>3, <2>1, <2>5, <2>6, <2>7
  <2>8. CASE c = e /\ id # i
    <3>1. id \in OpenTabs(c)
      BY <2>3, <2>5, <2>8
    <3>2. id \in DOMAIN tabs[c]
      BY <1>1, <3>1, OpenTabType
    <3>3. QED BY <1>2, <2>1, <2>5, <2>6, <2>8, <3>1, <3>2
  <2>9. CASE c = e /\ id = i
    <3>1. (Asked(c, id))' /\ tabs'[c][id] = u
      BY <2>5, <2>6, <2>9
    <3>2. AgreesElsewhere(t)
      BY <2>1, <2>9 DEF AllSettle, Settling, t
    <3>3. AgreesElsewhere(u)
      BY <2>2, <2>3, <3>2, EditedAgrees
    <3>4. QED BY <3>1, <3>3 DEF Settling
  <2>10. QED BY <2>7, <2>8, <2>9
<1>9. ASSUME NEW i \in OpenTabs(e), NEW type \in {"kSave", "kUndo", "kRedo"}, Request(e, i, type)
      PROVE  (Settling(c, id))'
  <2> DEFINE m == [type |-> type, id |-> i]
  <2>1. /\ SendData(e, m) /\ m \in Command /\ tabs' = tabs
        /\ toClient' = toClient /\ connected' = connected
    BY <1>9, OpenTabType DEF Request, Command
  <2> HIDE DEF m
  <2>2. Asked(c, id) => (Asked(c, id))'
    BY <1>1, <2>1, AskedStaysOnSend
  <2>3. QED BY <1>2, <1>3, <2>1, <2>2
<1>10. QED
  BY <1>4, <1>5, <1>6, <1>7, <1>8, <1>9 DEF EditorStep

\* Outside its hot spots what a tab shows is the server's data, and a tab that
\* nothing is on its way from or to shows the server's data (SyncHotSpots,
\* DocumentChangeComplete): whatever the user changed at once was told to the server,
\* and came back or was overruled.
THEOREM HotSpotsAreAlwaysTransient == Spec => []HotSpotsAreTransient
<1>1. Init => AllSettle
  BY DEF Init, ServerInit, AllSettle, OpenTabs
<1>2. ConnInv /\ AllLead /\ AllSettle /\ [Next]_vars => AllSettle'
  <2> SUFFICES ASSUME ConnInv, AllLead, AllSettle, [Next]_vars PROVE AllSettle'
    OBVIOUS
  <2>1. SUFFICES ASSUME NEW c \in connected', NEW id \in (OpenTabs(c))' PROVE (Settling(c, id))'
    BY DEF AllSettle
  <2>2. CASE ServerStep
    <3>1. id \in OpenTabs(c)
      BY <2>2, ServerCounts DEF ServerOnly, OpenTabs
    <3>2. QED BY <2>1, <2>2, <3>1, ServerSettles
  <2>3. ASSUME NEW e \in Clients, EditorStep(e) PROVE (Settling(c, id))'
    BY <2>1, <2>3, EditorSettles
  <2>4. CASE UNCHANGED <<connections, documentList, connected, toServer, toClient, tabs>>
    <3>1. c \in connected /\ id \in OpenTabs(c)
      BY <2>1, <2>4 DEF OpenTabs
    <3>2. QED BY <2>4, <3>1, SameSettles DEF Asked, Answered
  <2>5. CASE OutsideWrite
    BY <2>4, <2>5, OutsideWriteKeeps DEF EditorOnly
  <2>6. CASE UNCHANGED vars
    BY <2>4, <2>6 DEF vars, serverVars, pipes
  <2>7. QED BY <2>2, <2>3, <2>5, <2>6 DEF Next
<1>3. Spec => []AllLead
  BY MessagesAlwaysLeadToServer, AllLeadIs, PTL
<1>4. QED
  BY <1>1, <1>2, <1>3, SettlingIs, ConnectionsAgree, PTL DEF Spec
=============================================================================
