---------------------------- MODULE SvnIndex_proofs ----------------------------
(* Theorems about runs over an SVN repository, for every tree of files and        *)
(* directories, every history of commits the server gets meanwhile, every update  *)
(* of the working copy and every placement of aborts.                             *)
EXTENDS SvnIndex, Extrema

USE PathAssumption, BoundAssumption, SwitchAssumption

-----------------------------------------------------------------------------
(* The history.  A statement about it takes the history h as a parameter, so that *)
(* one about a longer history follows from one about the history before.           *)

RevisionRecord ==
  [tree : [Path -> Content], items : Seq(Item), born : [Path -> Content], blank : BOOLEAN]

Revisions(h) == 1..Len(h)
Places(h) == {x \in Revisions(h) \X (1..2) : x[2] \in DOMAIN h[x[1]].items}
Entry(h, x) == h[x[1]].items[x[2]]

\* An entry that names a path may tell of it and of what is below.
Reaches(item, p) == item.path = p \/ item.path \in Above[p]

TwoEntries(h) == \A r \in Revisions(h) : DOMAIN h[r].items \subseteq 1..2

\* A content is named by a revision up to the one that has it, and that one had it.
NotFromLater(h) == \A r \in Revisions(h), p \in Path : h[r].tree[p] <= r

FromItsRevision(h) ==
  \A r \in Revisions(h), p \in Path :
    h[r].tree[p] # 0 => h[h[r].tree[p]].tree[p] = h[r].tree[p]

\* A path that was changed never has its former content again.
Kept(h, s, u, p) == h[s].tree[p] = h[u].tree[p] /\ h[s].tree[p] # 0

NeverBack(h) ==
  \A s, t, u \in Revisions(h), p \in Path :
    s <= t /\ t <= u /\ Kept(h, s, u, p) => Kept(h, s, t, p)

ChangesLogged(h) ==
  \A s, t \in Revisions(h), p \in Path :
    s <= t /\ h[s].tree[p] # h[t].tree[p]
      => \E x \in Places(h) : s < x[1] /\ x[1] <= t /\ Reaches(Entry(h, x), p)

\* What an entry tells of the tree of its revision: below a directory only that
\* nothing is left of it.
Tells(item, tree, r) ==
  IF item.action = "Delete" THEN \A p \in Path : Reaches(item, p) => tree[p] = 0
  ELSE tree[item.path] = r

EntriesTell(h) == \A x \in Places(h) : Tells(Entry(h, x), h[x[1]].tree, x[1])

Coherent(h) ==
  /\ TwoEntries(h) /\ NotFromLater(h) /\ FromItsRevision(h) /\ NeverBack(h)
  /\ ChangesLogged(h) /\ EntriesTell(h)

\* What a commit adds to the history h.
Extends(h, new) ==
  /\ Len(h) + 1 \in Revision
  /\ new \in RevisionRecord
  /\ DOMAIN new.items \subseteq 1..2
  /\ \A k \in DOMAIN new.items : Tells(new.items[k], new.tree, Len(h) + 1)
  /\ \A p \in Path :
       /\ new.tree[p] \in {0, Len(h) + 1, h[Len(h)].tree[p]}
       /\ (\A k \in DOMAIN new.items : ~Reaches(new.items[k], p))
            => new.tree[p] = h[Len(h)].tree[p]
  /\ \A j, k \in DOMAIN new.items : new.items[j].path = new.items[k].path => j = k

CommitStep == (\E p \in Path : CommitPath(p)) \/ (\E p, q \in Path : CommitCopy(p, q))

\* The entries and the paths of a commit, in the terms of Commit.
Matches(items, added, deleted) ==
  /\ items \in Seq(Item) /\ DOMAIN items \subseteq 1..2
  /\ added \subseteq Path /\ deleted \subseteq Path
  /\ \A k \in DOMAIN items :
       IF items[k].action = "Delete"
       THEN With(items[k].path) \subseteq deleted /\ With(items[k].path) \cap added = {}
       ELSE items[k].path \in added
  /\ \A p \in added \cup deleted : \E k \in DOMAIN items : Reaches(items[k], p)
  /\ \A j, k \in DOMAIN items : items[j].path = items[k].path => j = k

LEMMA YoungestType ==
  ASSUME TypeOK
  PROVE  /\ Youngest \in Nat /\ Youngest >= 1 /\ Youngest \in Revisions(repository)
         /\ Youngest <= MaxRevision
         /\ \A r \in Revisions(repository) : repository[r] \in RevisionRecord
  <1>1. repository \in Seq(RevisionRecord) /\ Youngest \in Revision
    BY DEF TypeOK, RevisionRecord
  <1>2. \A r \in 1..Len(repository) : repository[r] \in RevisionRecord
    BY <1>1
  <1> QED
    BY <1>1, <1>2 DEF Youngest, Revision, Revisions

\* A path with all below it is what an entry of the path reaches.
LEMMA WithReaches ==
  ASSUME NEW p \in Path
  PROVE  With(p) \subseteq Path /\ \A q \in Path : q \in With(p) <=> p = q \/ p \in Above[q]
  BY DEF With, Under

LEMMA OneEntryMatches ==
  ASSUME NEW p \in Path, NEW action \in Action, NEW from \in Path \cup {NoPath},
         NEW added \in SUBSET With(p), NEW deleted \in SUBSET With(p),
         IF action = "Delete" THEN added = {} /\ deleted = With(p) ELSE p \in added
  PROVE  Matches(<<Changed(p, action, from)>>, added, deleted)
  <1> DEFINE items == <<Changed(p, action, from)>>
  <1>1. items \in Seq(Item) /\ DOMAIN items = {1} /\ items[1].path = p /\ items[1].action = action
    BY DEF Changed, Item
  <1> HIDE DEF items
  <1>2. added \subseteq Path /\ deleted \subseteq Path
    BY WithReaches
  <1>3. \A q \in added \cup deleted : Reaches(items[1], q)
    BY <1>1, <1>2, WithReaches DEF Reaches
  <1>4. IF items[1].action = "Delete"
        THEN With(items[1].path) \subseteq deleted /\ With(items[1].path) \cap added = {}
        ELSE items[1].path \in added
    BY <1>1
  <1>5. Matches(items, added, deleted)
    BY <1>1, <1>2, <1>3, <1>4 DEF Matches
  <1> QED
    BY <1>5 DEF items

\* What is moved and what it is moved onto have nothing in common.
LEMMA ApartBelow ==
  ASSUME NEW p \in Path, NEW q \in Path, p # q, p \notin Above[q], q \notin Above[p]
  PROVE  With(p) \cap With(q) = {}
  <1> SUFFICES ASSUME NEW z \in With(p), z \in With(q) PROVE FALSE
    OBVIOUS
  <1>1. z \in Path /\ (p = z \/ p \in Above[z]) /\ (q = z \/ q \in Above[z])
    BY WithReaches
  <1>2. p \in Above[z] /\ q \in Above[z]
    BY <1>1
  <1> QED
    BY <1>1, <1>2, TreeAssumption

LEMMA TwoEntriesMatch ==
  ASSUME NEW p \in Path, NEW q \in Path, p # q, p \notin Above[q], q \notin Above[p],
         NEW copy \in Item, copy.path = q, copy.action # "Delete",
         NEW added \in SUBSET With(q), q \in added,
         NEW items, items = <<copy, Changed(p, "Delete", NoPath)>>
                    \/ items = <<Changed(p, "Delete", NoPath), copy>>
  PROVE  Matches(items, added, With(p) \cup With(q))
  <1> DEFINE gone == Changed(p, "Delete", NoPath)
  <1>1. gone \in Item /\ gone.path = p /\ gone.action = "Delete"
    BY DEF Changed, Item, Action
  <1>2. items = <<copy, gone>> \/ items = <<gone, copy>>
    OBVIOUS
  <1> HIDE DEF gone
  <1>3. items \in Seq(Item) /\ DOMAIN items = 1..2
    <2>1. CASE items = <<copy, gone>>
      BY <1>1, <2>1
    <2>2. CASE items = <<gone, copy>>
      BY <1>1, <2>2
    <2> QED
      BY <1>2, <2>1, <2>2
  <1>4. \/ items[1] = copy /\ items[2] = gone
        \/ items[1] = gone /\ items[2] = copy
    BY <1>2
  <1>5. added \subseteq Path /\ With(p) \subseteq Path /\ With(q) \subseteq Path
        /\ With(p) \cap added = {}
    BY WithReaches, ApartBelow
  <1>6. \A z \in added \cup With(p) \cup With(q) : Reaches(copy, z) \/ Reaches(gone, z)
    BY <1>1, <1>5, WithReaches DEF Reaches
  <1>7. \A k \in DOMAIN items :
          IF items[k].action = "Delete"
          THEN With(items[k].path) \subseteq With(p) \cup With(q) /\ With(items[k].path) \cap added = {}
          ELSE items[k].path \in added
    BY <1>1, <1>3, <1>4, <1>5
  <1>8. \A z \in added \cup (With(p) \cup With(q)) : \E k \in DOMAIN items : Reaches(items[k], z)
    <2>1. \A z \in added \cup (With(p) \cup With(q)) : Reaches(copy, z) \/ Reaches(gone, z)
      BY <1>6
    <2>2. 1 \in DOMAIN items /\ 2 \in DOMAIN items
      BY <1>3
    <2> QED
      BY <1>4, <2>1, <2>2
  <1>9. \A j, k \in DOMAIN items : items[j].path = items[k].path => j = k
    BY <1>1, <1>3, <1>4
  <1> QED
    BY <1>3, <1>5, <1>7, <1>8, <1>9 DEF Matches

\* Every commit is one of Commit, with entries that match.
IsCommit(items, added, deleted, born) ==
  /\ Matches(items, added, deleted) /\ Commit(items, added, deleted, born)
  /\ born \in Content \cup {Youngest + 1}

CommitIsMatched == \E items, added, deleted, born : IsCommit(items, added, deleted, born)

LEMMA BornType == ASSUME TypeOK, NEW p \in Path PROVE Born(p) \in Content
  BY YoungestType DEF Born, RevisionRecord

LEMMA PathCommitMatches ==
  ASSUME TypeOK, NEW p \in Path, CommitPath(p) PROVE CommitIsMatched
  <1>y. Youngest \in Nat /\ Youngest <= MaxRevision /\ Born(p) \in Content
    BY YoungestType, BornType
  <1>b. 1..(Youngest + 1) \subseteq Content \cup {Youngest + 1} /\ 0 \in Content
    BY <1>y DEF Content
  <1>w. p \in With(p) /\ \A below \in Below(p) : {p} \cup below \subseteq With(p)
    BY DEF With, Below
  <1>1. CASE Commit(<<Changed(p, "Modify", NoPath)>>, {p}, {}, Born(p))
    <2>1. Matches(<<Changed(p, "Modify", NoPath)>>, {p}, {})
      BY <1>w, OneEntryMatches DEF Action
    <2> QED
      BY <1>1, <1>y, <2>1 DEF IsCommit, CommitIsMatched
  <1>2. CASE Commit(<<Changed(p, "Delete", NoPath)>>, {}, With(p), 0)
    <2>1. Matches(<<Changed(p, "Delete", NoPath)>>, {}, With(p))
      BY OneEntryMatches DEF Action
    <2> QED
      BY <1>2, <1>b, <2>1 DEF IsCommit, CommitIsMatched
  <1>3. CASE \E below \in Below(p), born \in 1..(Youngest + 1) :
               Commit(<<Changed(p, "Replace", NoPath)>>, {p} \cup below, With(p), born)
    <2>1. PICK below \in Below(p), born \in 1..(Youngest + 1) :
            Commit(<<Changed(p, "Replace", NoPath)>>, {p} \cup below, With(p), born)
      BY <1>3
    <2>2. Matches(<<Changed(p, "Replace", NoPath)>>, {p} \cup below, With(p))
      BY <1>w, OneEntryMatches DEF Action
    <2> QED
      BY <1>b, <2>1, <2>2 DEF IsCommit, CommitIsMatched
  <1>4. CASE \E below \in Below(p), born \in 1..(Youngest + 1) :
               Commit(<<Changed(p, "Add", NoPath)>>, {p} \cup below, {}, born)
    <2>1. PICK below \in Below(p), born \in 1..(Youngest + 1) :
            Commit(<<Changed(p, "Add", NoPath)>>, {p} \cup below, {}, born)
      BY <1>4
    <2>2. Matches(<<Changed(p, "Add", NoPath)>>, {p} \cup below, {})
      BY <1>w, OneEntryMatches DEF Action
    <2> QED
      BY <1>b, <2>1, <2>2 DEF IsCommit, CommitIsMatched
  <1> QED
    BY <1>1, <1>2, <1>3, <1>4 DEF CommitPath

LEMMA CopyCommitMatches ==
  ASSUME TypeOK, NEW p \in Path, NEW q \in Path, CommitCopy(p, q) PROVE CommitIsMatched
  <1> DEFINE action == IF q \in Live(Youngest) THEN "Replace" ELSE "Add"
             copy == Changed(q, action, p)
             gone == Changed(p, "Delete", NoPath)
             births == IF p \in Directory THEN 1..Youngest ELSE {Born(p)}
  <1>y. Youngest \in Nat /\ Youngest <= MaxRevision /\ Born(p) \in Content
    BY YoungestType, BornType
  <1>b. births \subseteq Content \cup {Youngest + 1}
    BY <1>y DEF Content
  <1>1. PICK below \in Below(q), born \in births :
          \/ Commit(<<copy>>, {q} \cup below, With(q), born)
          \/ /\ p \notin Above[q] /\ q \notin Above[p]
             /\ \/ Commit(<<copy, gone>>, {q} \cup below, With(p) \cup With(q), born)
                \/ Commit(<<gone, copy>>, {q} \cup below, With(p) \cup With(q), born)
    BY Zenon DEF CommitCopy
  <1>2. p # q
    BY DEF CommitCopy
  <1> HIDE DEF births
  <1>3. action \in Action /\ action # "Delete"
    BY DEF Action
  <1> HIDE DEF action
  <1>4. q \in {q} \cup below /\ {q} \cup below \subseteq With(q)
    BY DEF With, Below
  <1>5. copy \in Item /\ copy.path = q /\ copy.action # "Delete"
    BY <1>3 DEF Changed, Item
  <1>6. CASE Commit(<<copy>>, {q} \cup below, With(q), born)
    <2>1. Matches(<<copy>>, {q} \cup below, With(q))
      BY <1>3, <1>4, OneEntryMatches
    <2> QED
      BY <1>6, <1>b, <2>1 DEF IsCommit, CommitIsMatched
  <1>7. ASSUME p \notin Above[q], q \notin Above[p],
               NEW items, items = <<copy, gone>> \/ items = <<gone, copy>>,
               Commit(items, {q} \cup below, With(p) \cup With(q), born)
        PROVE  CommitIsMatched
    <2>1. Matches(items, {q} \cup below, With(p) \cup With(q))
      <3> HIDE DEF copy
      <3> QED
        BY <1>2, <1>4, <1>5, <1>7, TwoEntriesMatch
    <2> QED
      BY <1>7, <1>b, <2>1 DEF IsCommit, CommitIsMatched
  <1> QED
    BY <1>1, <1>6, <1>7

LEMMA CommitExtends ==
  ASSUME TypeOK, CommitStep
  PROVE  /\ UNCHANGED <<workingCopy, last, checkpoint, points, job>>
         /\ \E new :
              /\ Extends(repository, new) /\ repository' = Append(repository, new)
              /\ KeepsResumeFile =>
                   \A p \in Live(Youngest) \cap {checkpoint.file, job.path} : new.tree[p] # 0
  <1>0. CommitIsMatched
    BY PathCommitMatches, CopyCommitMatches DEF CommitStep
  <1>2. PICK items, added, deleted, born : IsCommit(items, added, deleted, born)
    BY <1>0 DEF CommitIsMatched
  <1>m. Matches(items, added, deleted) /\ Commit(items, added, deleted, born)
        /\ born \in Content \cup {Youngest + 1}
    BY <1>2 DEF IsCommit
  <1> DEFINE r == Youngest + 1
             old == repository[Youngest]
             tree == [p \in Path |-> IF p \in added THEN r ELSE IF p \in deleted THEN 0 ELSE old.tree[p]]
             births == [p \in Path |-> IF p \in added THEN born
                                       ELSE IF p \in deleted THEN 0 ELSE old.born[p]]
  <1>3. /\ r <= MaxRevision
        /\ KeepsResumeFile => (deleted \ added) \cap {checkpoint.file, job.path} = {}
        /\ \E blank \in BOOLEAN :
             repository' = Append(repository, [tree |-> tree, items |-> items,
                                               born |-> births, blank |-> blank])
        /\ UNCHANGED <<workingCopy, last, checkpoint, points, job>>
    BY <1>m DEF Commit, Tree, Blankness
  <1>b. PICK blank \in BOOLEAN :
          repository' = Append(repository, [tree |-> tree, items |-> items,
                                            born |-> births, blank |-> blank])
    BY <1>3
  <1> DEFINE new == [tree |-> tree, items |-> items, born |-> births, blank |-> blank]
  <1>4. Youngest \in Nat /\ Youngest >= 1 /\ old \in RevisionRecord
    BY YoungestType
  <1>5. r \in Content /\ r # 0 /\ 0 \in Content /\ r \in Revision
    BY <1>3, <1>4 DEF Content, Revision
  <1>6. tree \in [Path -> Content] /\ births \in [Path -> Content]
    BY <1>m, <1>4, <1>5 DEF RevisionRecord
  <1>7. new.tree = tree /\ new.items = items /\ new \in RevisionRecord
    BY <1>m, <1>6 DEF Matches, RevisionRecord
  <1>8. \A p \in Path : /\ p \in added => tree[p] = r
                        /\ p \in deleted \ added => tree[p] = 0
                        /\ p \notin added \cup deleted => tree[p] = old.tree[p]
    OBVIOUS
  <1> HIDE DEF tree, births, new
  <1>9. \A k \in DOMAIN items : items[k].path \in Path
    <2>1. items \in Seq(Item)
      BY <1>m DEF Matches
    <2>2. \A k \in DOMAIN items : items[k] \in Item
      BY <2>1
    <2> QED
      BY <2>2 DEF Item
  <1>t. \A k \in DOMAIN items : Tells(items[k], tree, r)
    <2> SUFFICES ASSUME NEW k \in DOMAIN items PROVE Tells(items[k], tree, r)
      OBVIOUS
    <2>1. CASE items[k].action = "Delete"
      <3> SUFFICES ASSUME NEW p \in Path, Reaches(items[k], p) PROVE tree[p] = 0
        BY <2>1 DEF Tells
      <3>1. p \in With(items[k].path)
        BY <1>9, WithReaches DEF Reaches
      <3> QED
        BY <1>m, <1>8, <2>1, <3>1 DEF Matches
    <2>2. CASE items[k].action # "Delete"
      BY <1>m, <1>8, <1>9, <2>2 DEF Matches, Tells
    <2> QED
      BY <2>1, <2>2
  <1>10. Extends(repository, new)
    <2>1. \A p \in Path :
            /\ tree[p] \in {0, r, old.tree[p]}
            /\ (\A k \in DOMAIN items : ~Reaches(items[k], p)) => tree[p] = old.tree[p]
      BY <1>m, <1>8 DEF Matches
    <2> QED
      BY <1>m, <1>5, <1>7, <1>t, <2>1 DEF Extends, Matches, Youngest
  <1>11. KeepsResumeFile =>
           \A p \in Live(Youngest) \cap {checkpoint.file, job.path} : new.tree[p] # 0
    BY <1>3, <1>5, <1>7, <1>8 DEF Live, Tree
  <1> QED
    BY <1>3, <1>b, <1>10, <1>11 DEF new

\* Entries are of paths.
LEMMA EntryType ==
  ASSUME NEW h \in Seq(RevisionRecord), NEW x \in Places(h)
  PROVE  /\ Entry(h, x) \in Item /\ Entry(h, x).path \in Path
         /\ x[1] \in Revisions(h) /\ x[2] \in 1..2
  <1>1. x[1] \in 1..Len(h) /\ x[2] \in 1..2 /\ x[2] \in DOMAIN h[x[1]].items
    BY DEF Places, Revisions
  <1>2. h[x[1]] \in RevisionRecord
    BY <1>1
  <1>3. h[x[1]].items \in Seq(Item)
    BY <1>2 DEF RevisionRecord
  <1>4. h[x[1]].items[x[2]] \in Item
    BY <1>1, <1>3
  <1> QED
    BY <1>1, <1>4 DEF Entry, Item, Revisions

LEMMA TreeType ==
  ASSUME NEW h \in Seq(RevisionRecord), NEW r \in Revisions(h), NEW p \in Path
  PROVE  h[r].tree[p] \in Nat
  <1>1. h[r] \in RevisionRecord
    BY DEF Revisions
  <1>2. h[r].tree[p] \in Content
    BY <1>1 DEF RevisionRecord
  <1> QED
    BY <1>2 DEF Content

\* A commit leaves a coherent history coherent.
LEMMA ExtendsCoherent ==
  ASSUME NEW h \in Seq(RevisionRecord), Len(h) >= 1, Coherent(h),
         NEW new, Extends(h, new)
  PROVE  Coherent(Append(h, new))
  <1> DEFINE g == Append(h, new)
             n == Len(h)
  <1>n. n \in Nat /\ n >= 1 /\ n \in Revisions(h) /\ new \in RevisionRecord
    BY DEF Extends, Revisions
  <1>1. /\ g \in Seq(RevisionRecord) /\ Len(g) = n + 1
        /\ \A r \in 1..n : g[r] = h[r]
        /\ g[n + 1] = new
    BY <1>n
  <1> HIDE DEF g
  <1>2. Revisions(g) = Revisions(h) \cup {n + 1} /\ Revisions(h) = 1..n
    BY <1>n, <1>1 DEF Revisions
  <1> HIDE DEF n
  <1>t. /\ \A r \in Revisions(g), p \in Path : g[r].tree[p] \in Nat
        /\ \A p \in Path : new.tree[p] \in Nat
    BY <1>1, <1>2, TreeType
  <1>3. \A x \in Places(g) : x \in Places(h) \/ (x[1] = n + 1 /\ x[2] \in DOMAIN new.items)
    BY <1>1, <1>2 DEF Places
  <1>4. \A x \in Places(h) : x \in Places(g) /\ Entry(g, x) = Entry(h, x) /\ x[1] \in 1..n
    BY <1>1, <1>2 DEF Places, Entry
  <1>5. \A k \in DOMAIN new.items : /\ <<n + 1, k>> \in Places(g)
                                    /\ Entry(g, <<n + 1, k>>) = new.items[k]
    BY <1>1, <1>2 DEF Places, Entry, Extends
  <1>6. \A x \in Places(g) : /\ Entry(g, x).path \in Path
                             /\ x[1] \in Revisions(g) /\ x[2] \in 1..2
    BY <1>1, EntryType
  <1>7. \A p \in Path : new.tree[p] \in {0, n + 1, h[n].tree[p]}
    BY DEF Extends, n
  <1>8. TwoEntries(g)
    BY <1>1, <1>2 DEF TwoEntries, Coherent, Extends
  <1>9. NotFromLater(g)
    <2> SUFFICES ASSUME NEW r \in Revisions(g), NEW p \in Path PROVE g[r].tree[p] <= r
      BY DEF NotFromLater
    <2>1. CASE r \in Revisions(h)
      BY <1>1, <1>2, <2>1 DEF NotFromLater, Coherent
    <2>2. CASE r = n + 1
      <3>1. h[n].tree[p] <= n /\ h[n].tree[p] \in Nat
        BY <1>n, <1>2, TreeType DEF NotFromLater, Coherent
      <3> QED
        BY <1>n, <1>1, <1>7, <2>2, <3>1
    <2> QED
      BY <1>2, <2>1, <2>2
  <1>f. FromItsRevision(g)
    <2> SUFFICES ASSUME NEW r \in Revisions(g), NEW p \in Path, g[r].tree[p] # 0
                 PROVE  g[g[r].tree[p]].tree[p] = g[r].tree[p]
      BY DEF FromItsRevision
    <2>1. \A q \in Revisions(h) :
            h[q].tree[p] # 0 => g[h[q].tree[p]].tree[p] = h[q].tree[p]
      <3> SUFFICES ASSUME NEW q \in Revisions(h), h[q].tree[p] # 0
                   PROVE  g[h[q].tree[p]].tree[p] = h[q].tree[p]
        OBVIOUS
      <3>1. h[q].tree[p] \in Nat /\ h[q].tree[p] <= q
        BY TreeType DEF NotFromLater, Coherent
      <3>2. h[q].tree[p] \in 1..n
        BY <1>n, <1>2, <3>1
      <3>3. h[h[q].tree[p]].tree[p] = h[q].tree[p]
        BY DEF FromItsRevision, Coherent
      <3> QED
        BY <1>1, <3>2, <3>3
    <2>2. CASE r \in Revisions(h)
      BY <1>1, <1>2, <2>1, <2>2
    <2>3. CASE r = n + 1
      BY <1>n, <1>1, <1>7, <2>1, <2>3
    <2> QED
      BY <1>2, <2>2, <2>3
  <1>10. NeverBack(g)
    <2> SUFFICES ASSUME NEW s \in Revisions(g), NEW t \in Revisions(g), NEW u \in Revisions(g),
                        NEW p \in Path, s <= t, t <= u, Kept(g, s, u, p)
                 PROVE  Kept(g, s, t, p)
      BY DEF NeverBack
    <2>1. \A r, q \in Revisions(h) : Kept(g, r, q, p) <=> Kept(h, r, q, p)
      BY <1>1, <1>2 DEF Kept
    <2>2. CASE u \in Revisions(h)
      <3>1. s \in Revisions(h) /\ t \in Revisions(h)
        BY <1>n, <1>2, <2>2
      <3> QED
        BY <2>1, <2>2, <3>1 DEF NeverBack, Coherent
    <2>3. CASE u = n + 1 /\ s \in Revisions(h) /\ t \in Revisions(h)
      <3>1. g[s].tree[p] <= n
        BY <1>n, <1>2, <1>9, <1>t, <2>3 DEF NotFromLater
      <3>2. Kept(h, s, n, p)
        BY <1>n, <1>1, <1>2, <1>7, <1>t, <2>3, <3>1 DEF Kept
      <3>3. t <= n
        BY <1>n, <1>2, <2>3
      <3> QED
        BY <1>n, <2>1, <2>3, <3>2, <3>3 DEF NeverBack, Coherent
    <2>4. CASE t = n + 1 /\ u = n + 1
      BY <2>4
    <2>5. CASE s = n + 1
      <3>1. t = n + 1
        BY <1>n, <1>2, <2>5
      <3> QED
        BY <2>5, <3>1 DEF Kept
    <2> QED
      BY <1>n, <1>2, <2>2, <2>3, <2>4, <2>5
  <1>11. ChangesLogged(g)
    <2> SUFFICES ASSUME NEW s \in Revisions(g), NEW t \in Revisions(g), NEW p \in Path,
                        s <= t, g[s].tree[p] # g[t].tree[p]
                 PROVE  \E x \in Places(g) : s < x[1] /\ x[1] <= t /\ Reaches(Entry(g, x), p)
      BY DEF ChangesLogged
    <2>1. CASE t \in Revisions(h)
      <3>1. s \in Revisions(h) /\ h[s].tree[p] # h[t].tree[p]
        BY <1>n, <1>1, <1>2, <2>1
      <3>2. PICK x \in Places(h) : s < x[1] /\ x[1] <= t /\ Reaches(Entry(h, x), p)
        BY <2>1, <3>1 DEF ChangesLogged, Coherent
      <3> QED
        BY <1>4, <3>2
    <2>2. CASE t = n + 1 /\ new.tree[p] # h[n].tree[p]
      <3>1. PICK k \in DOMAIN new.items : Reaches(new.items[k], p)
        BY <2>2 DEF Extends, n
      <3>2. s < n + 1 /\ n + 1 <= t
        BY <1>n, <1>2, <2>2
      <3>3. <<n + 1, k>> \in Places(g) /\ Reaches(Entry(g, <<n + 1, k>>), p)
        BY <1>5, <3>1
      <3> QED
        BY <3>2, <3>3
    <2>3. CASE t = n + 1 /\ new.tree[p] = h[n].tree[p]
      <3>1. s \in Revisions(h) /\ h[s].tree[p] # h[n].tree[p]
        BY <1>n, <1>1, <1>2, <2>3
      <3>2. PICK x \in Places(h) : s < x[1] /\ x[1] <= n /\ Reaches(Entry(h, x), p)
        BY <1>n, <1>2, <3>1 DEF ChangesLogged, Coherent
      <3> QED
        BY <1>n, <1>4, <2>3, <3>2
    <2> QED
      BY <1>2, <2>1, <2>2, <2>3
  <1>12. EntriesTell(g)
    <2> SUFFICES ASSUME NEW x \in Places(g) PROVE Tells(Entry(g, x), g[x[1]].tree, x[1])
      BY DEF EntriesTell
    <2>1. CASE x \in Places(h)
      BY <1>1, <1>4, <2>1 DEF EntriesTell, Coherent
    <2>2. CASE x[1] = n + 1 /\ x[2] \in DOMAIN new.items
      <3>1. Entry(g, x) = new.items[x[2]]
        BY <1>1, <2>2 DEF Entry
      <3> QED
        BY <1>1, <2>2, <3>1 DEF Extends, n
    <2> QED
      BY <1>3, <2>1, <2>2
  <1> QED
    BY <1>8, <1>9, <1>f, <1>10, <1>11, <1>12 DEF Coherent, g

-----------------------------------------------------------------------------
(* What the provider makes of the log *)

\* A place before all the others, and one after them, exist: CHOOSE finds them.
LEMMA FirstExists ==
  ASSUME NEW S \in SUBSET (Revision \X (1..2)), S # {} PROVE First(S) \in S
  <1> DEFINE T == {2 * x[1] + x[2] : x \in S}
  <1>1. T \in SUBSET Nat /\ T # {}
    BY DEF Revision
  <1>2. PICK m \in T : \A k \in T : m <= k
    <2> HIDE DEF T
    <2> QED
      BY <1>1, LeastExists
  <1>3. PICK x \in S : m = 2 * x[1] + x[2]
    BY <1>2
  <1>4. \A y \in S \ {x} : Earlier(x, y)
    <2> SUFFICES ASSUME NEW y \in S, y # x PROVE Earlier(x, y)
      OBVIOUS
    <2>1. 2 * x[1] + x[2] <= 2 * y[1] + y[2]
      BY <1>2, <1>3
    <2>2. /\ x[1] \in Nat /\ y[1] \in Nat /\ x[2] \in 1..2 /\ y[2] \in 1..2
          /\ x[1] # y[1] \/ x[2] # y[2]
      BY DEF Revision
    <2> QED
      BY <2>1, <2>2 DEF Earlier
  <1> QED
    BY <1>4 DEF First

LEMMA LatestExists ==
  ASSUME NEW S \in SUBSET (Revision \X (1..2)), S # {}
  PROVE  Latest(S) \in S /\ \A y \in S : y # Latest(S) => Earlier(y, Latest(S))
  <1> DEFINE T == {2 * x[1] + x[2] : x \in S}
  <1>1. T \in SUBSET Nat /\ T # {} /\ \A k \in T : k <= 2 * MaxRevision + 2
    BY DEF Revision
  <1>2. PICK m \in T : \A k \in T : k <= m
    <2> HIDE DEF T
    <2>1. 2 * MaxRevision + 2 \in Nat
      OBVIOUS
    <2> QED
      BY <1>1, <2>1, GreatestExists
  <1>3. PICK x \in S : m = 2 * x[1] + x[2]
    BY <1>2
  <1>4. \A y \in S \ {x} : Earlier(y, x)
    <2> SUFFICES ASSUME NEW y \in S, y # x PROVE Earlier(y, x)
      OBVIOUS
    <2>1. 2 * y[1] + y[2] <= 2 * x[1] + x[2]
      BY <1>2, <1>3
    <2>2. /\ x[1] \in Nat /\ y[1] \in Nat /\ x[2] \in 1..2 /\ y[2] \in 1..2
          /\ x[1] # y[1] \/ x[2] # y[2]
      BY DEF Revision
    <2> QED
      BY <2>1, <2>2 DEF Earlier
  <1> QED
    BY <1>4 DEF Latest

ToDo == [path : Path, kind : {"Added", "Modified", "Deleted", "Renamed"},
         oldPath : Path \cup {NoPath}, place : Nat \X Nat]

\* What every run relies on of the history.
History == repository \in Seq(RevisionRecord) /\ Youngest \in Revision /\ Coherent(repository)

LEMMA LoggedPlaces ==
  ASSUME History, NEW since \in Nat
  PROVE  /\ Logged(since) = {x \in Places(repository) : since < x[1]}
         /\ Logged(since) \subseteq Revision \X (1..2)
         /\ \A x \in Logged(since) : ItemAt(x) = Entry(repository, x)
  BY DEF History, Logged, Places, Revisions, Youngest, Revision, ItemAt, Entry

LEMMA MergedType ==
  ASSUME History, NEW since \in Nat, NEW p \in Path, NEW places,
         places = {x \in Logged(since) : ItemAt(x).path = p}, places # {}
  PROVE  LET f == Merged(p, places)
         IN  /\ f \in ToDo /\ f.path = p
             /\ f.kind = "Deleted" <=> ItemAt(Latest(places)).action = "Delete"
             /\ f.kind = "Renamed" /\ f.oldPath # NoPath => f.oldPath \in CopiedFrom
  <1> DEFINE f == Merged(p, places)
             x == Latest(places)
             item == ItemAt(x)
             kind == MapSvnAction(item.action)
  <1>1. places \in SUBSET (Revision \X (1..2))
    BY LoggedPlaces
  <1>2. x \in places /\ First(places) \in places
    BY <1>1, FirstExists, LatestExists
  <1>3. First(places) \in Nat \X Nat
    BY <1>1, <1>2 DEF Revision
  <1>4. x \in Places(repository) /\ item = Entry(repository, x)
    BY <1>2, LoggedPlaces
  <1>5. item \in Item
    BY <1>4, EntryType DEF History
  <1>6. item.action \in Action /\ item.from \in Path \cup {NoPath}
    BY <1>5 DEF Item
  <1>7. /\ kind \in {"Added", "Modified", "Deleted", "Renamed"}
        /\ kind = "Deleted" <=> item.action = "Delete"
        /\ kind = "Renamed" <=> item.action = "Replace"
    BY <1>6 DEF MapSvnAction, Action
  <1>8. item.action = "Replace" => item.from \in CopiedFrom
    <2>1. x \in Logged(0)
      BY <1>2, <1>4, LoggedPlaces DEF History, Places, Revisions
    <2> QED
      BY <2>1 DEF CopiedFrom
  <1>9. /\ f.path = p /\ f.kind = kind /\ f.place = First(places)
        /\ f.oldPath = IF kind = "Renamed" THEN item.from ELSE NoPath
        /\ f = [path |-> p, kind |-> kind, place |-> First(places),
                oldPath |-> IF kind = "Renamed" THEN item.from ELSE NoPath]
    BY DEF Merged, ChangedFile
  <1> HIDE DEF f, x, item, kind
  <1>10. f \in ToDo
    BY <1>3, <1>6, <1>7, <1>9 DEF ToDo
  <1> QED
    BY <1>7, <1>8, <1>9, <1>10 DEF f, x, item

LEMMA ChangesType ==
  ASSUME History, NEW since \in Nat
  PROVE  /\ Changes(since) \subseteq ToDo
         /\ \A f \in Changes(since) :
              f.kind = "Renamed" /\ f.oldPath # NoPath => f.oldPath \in CopiedFrom
         /\ \A f, g \in Changes(since) : f.path = g.path => f = g
  <1> DEFINE places(p) == {x \in Logged(since) : ItemAt(x).path = p}
  <1>1. \A f \in Changes(since) : \E p \in Path : places(p) # {} /\ f = Merged(p, places(p))
    BY DEF Changes
  <1>2. \A p \in Path : places(p) # {} =>
          LET f == Merged(p, places(p))
          IN  /\ f \in ToDo /\ f.path = p
              /\ f.kind = "Renamed" /\ f.oldPath # NoPath => f.oldPath \in CopiedFrom
    BY MergedType
  <1> HIDE DEF places
  <1> QED
    BY <1>1, <1>2

\* x is the last that is logged of its path.
LastOf(h, x) == \A y \in Places(h) : Entry(h, y).path = Entry(h, x).path => ~Earlier(x, y)

\* Nothing is logged of the directories above p, after revision l and up to t.
Alone(h, l, t, p) ==
  \A y \in Places(h) : l < y[1] /\ y[1] <= t => Entry(h, y).path \notin Above[p]

LEMMA HistoryType ==
  ASSUME History
  PROVE  /\ Len(repository) = Youngest /\ Youngest \in Nat /\ Youngest >= 1
         /\ repository \in Seq(RevisionRecord)
         /\ Revisions(repository) = 1..Youngest /\ Coherent(repository)
  BY DEF History, Youngest, Revision, Revisions

LEMMA LoggedIsChange ==
  ASSUME History, NEW since \in Nat, NEW x \in Places(repository), since < x[1]
  PROVE  \E f \in Changes(since) : f.path = Entry(repository, x).path
  <1> DEFINE places(q) == {y \in Logged(since) : ItemAt(y).path = q}
  <1>1. PICK p \in Path : p = Entry(repository, x).path
    BY HistoryType, EntryType
  <1>2. x \in places(p)
    BY <1>1, LoggedPlaces
  <1>3. Merged(p, places(p)) \in Changes(since)
    BY <1>2 DEF Changes
  <1>4. Merged(p, places(p)).path = p
    BY <1>2, MergedType
  <1> QED
    BY <1>1, <1>3, <1>4

\* A change tells what the last entry of its path tells.
LEMMA ChangeIsLast ==
  ASSUME History, NEW since \in Nat, NEW f \in Changes(since)
  PROVE  \E x \in Places(repository) :
           /\ since < x[1] /\ Entry(repository, x).path = f.path /\ LastOf(repository, x)
           /\ f.kind = "Deleted" <=> Entry(repository, x).action = "Delete"
  <1> DEFINE places(p) == {x \in Logged(since) : ItemAt(x).path = p}
             h == repository
  <1>l. /\ Logged(since) = {x \in Places(h) : since < x[1]}
        /\ Logged(since) \subseteq Revision \X (1..2)
        /\ \A x \in Logged(since) : ItemAt(x) = Entry(h, x)
    BY LoggedPlaces
  <1>1. PICK p \in Path : places(p) # {} /\ f = Merged(p, places(p))
    BY DEF Changes
  <1> DEFINE x == Latest(places(p))
  <1>2. f.path = p /\ (f.kind = "Deleted" <=> ItemAt(x).action = "Delete")
    BY <1>1, MergedType
  <1>3. x \in places(p) /\ \A y \in places(p) : y # x => Earlier(y, x)
    <2>1. places(p) \in SUBSET (Revision \X (1..2))
      BY <1>l
    <2> HIDE DEF places
    <2> QED
      BY <1>1, <2>1, LatestExists
  <1> HIDE DEF x
  <1>4. x \in Places(h) /\ since < x[1] /\ Entry(h, x).path = p /\ ItemAt(x) = Entry(h, x)
    BY <1>l, <1>3
  <1>5. x[1] \in Nat /\ x[2] \in 1..2
    BY <1>4, HistoryType, EntryType
  <1>6. LastOf(h, x)
    <2> SUFFICES ASSUME NEW y \in Places(h), Entry(h, y).path = p, Earlier(x, y) PROVE FALSE
      BY <1>4 DEF LastOf
    <2>1. y[1] \in Nat /\ y[2] \in 1..2
      BY HistoryType, EntryType
    <2>2. since < y[1]
      BY <1>4, <1>5, <2>1 DEF Earlier
    <2>3. y = x \/ Earlier(y, x)
      BY <1>l, <1>3, <2>2
    <2> QED
      BY <1>5, <2>1, <2>3 DEF Earlier
  <1> QED
    BY <1>2, <1>4, <1>6

\* The log reaches whatever it changes.
LEMMA ChangesReach ==
  ASSUME History, NEW since \in 1..Youngest, NEW r \in since..Youngest, NEW p \in Path,
         Tree(r)[p] # Tree(Youngest)[p]
  PROVE  \E f \in Changes(since) : f.path = p \/ f.path \in Above[p]
  <1>1. /\ r \in Revisions(repository) /\ Youngest \in Revisions(repository)
        /\ r <= Youngest /\ since <= r /\ since \in Nat /\ r \in Nat
    BY HistoryType
  <1>2. PICK x \in Places(repository) :
          r < x[1] /\ x[1] <= Youngest /\ Reaches(Entry(repository, x), p)
    BY <1>1, HistoryType DEF Coherent, ChangesLogged, Tree
  <1>3. x[1] \in Nat
    BY HistoryType, EntryType
  <1>4. since < x[1]
    BY <1>1, <1>2, <1>3
  <1>5. PICK f \in Changes(since) : f.path = Entry(repository, x).path
    BY <1>1, <1>4, LoggedIsChange
  <1> QED
    BY <1>2, <1>5 DEF Reaches

\* Of a path with nothing logged above, the change tells whether it is there.
LEMMA AloneTells ==
  ASSUME History, NEW since \in 1..Youngest, NEW f \in Changes(since),
         Alone(repository, since, Youngest, f.path)
  PROVE  f.kind = "Deleted" <=> f.path \notin Live(Youngest)
  <1> DEFINE h == repository
  <1>1. since \in Nat /\ f.path \in Path
    BY HistoryType, ChangesType DEF ToDo
  <1>2. PICK x \in Places(h) :
          /\ since < x[1] /\ Entry(h, x).path = f.path /\ LastOf(h, x)
          /\ f.kind = "Deleted" <=> Entry(h, x).action = "Delete"
    BY <1>1, ChangeIsLast
  <1>3. x[1] \in Revisions(h) /\ Youngest \in Revisions(h) /\ x[1] <= Youngest /\ x[1] \in Nat
    BY HistoryType, EntryType
  <1>4. h[x[1]].tree[f.path] = h[Youngest].tree[f.path]
    <2> SUFFICES ASSUME h[x[1]].tree[f.path] # h[Youngest].tree[f.path] PROVE FALSE
      OBVIOUS
    <2>1. PICK y \in Places(h) : x[1] < y[1] /\ y[1] <= Youngest /\ Reaches(Entry(h, y), f.path)
      BY <1>1, <1>3, HistoryType DEF Coherent, ChangesLogged
    <2>2. y[1] \in Nat
      BY HistoryType, EntryType
    <2>3. Entry(h, y).path # f.path
      BY <1>2, <2>1 DEF LastOf, Earlier
    <2>4. since < y[1]
      BY <1>1, <1>2, <1>3, <2>1, <2>2
    <2> QED
      BY <2>1, <2>3, <2>4 DEF Reaches, Alone
  <1>5. Tells(Entry(h, x), h[x[1]].tree, x[1])
    BY HistoryType DEF Coherent, EntriesTell
  <1>6. IF Entry(h, x).action = "Delete" THEN h[x[1]].tree[f.path] = 0
        ELSE h[x[1]].tree[f.path] = x[1]
    BY <1>1, <1>2, <1>5 DEF Tells, Reaches
  <1>7. x[1] # 0
    BY <1>3, HistoryType
  <1> QED
    BY <1>1, <1>2, <1>4, <1>6, <1>7 DEF Live, Tree

LEMMA OnTheirOwnIs ==
  ASSUME History, NEW since \in Nat, NEW p \in Path
  PROVE  p \in OnTheirOwn(since) <=> Alone(repository, since, Youngest, p)
  <1>1. \A y \in Places(repository) : y[1] <= Youngest
    BY HistoryType, EntryType
  <1> QED
    BY <1>1, LoggedPlaces DEF OnTheirOwn, Alone

\* The merged log is the difference of the trees as far as it names paths.
LEMMA HistoryGivesDifference == ASSUME History PROVE LogIsDifference
  <1> SUFFICES ASSUME NEW since \in 1..Youngest
               PROVE  /\ \A p \in Path : Tree(since)[p] # Tree(Youngest)[p] =>
                           \E f \in Changes(since) : f.path = p \/ f.path \in Above[p]
                      /\ \A f \in Changes(since) : f.path \in OnTheirOwn(since) =>
                           (f.kind = "Deleted" <=> f.path \notin Live(Youngest))
                      /\ \A f, g \in Changes(since) : f.path = g.path => f = g
    BY DEF LogIsDifference
  <1>1. since \in Nat /\ since \in since..Youngest
    BY HistoryType
  <1>2. \A f \in Changes(since) : f.path \in Path
    BY <1>1, ChangesType DEF ToDo
  <1> QED
    BY <1>1, <1>2, ChangesReach, AloneTells, OnTheirOwnIs, ChangesType

LEMMA InitHistory == Init => History
  <1> SUFFICES ASSUME Init PROVE History
    OBVIOUS
  <1>1. PICK live \in SUBSET Path, blank \in BOOLEAN :
          repository = <<[tree |-> [p \in Path |-> IF p \in live THEN 1 ELSE 0],
                          items |-> <<>>,
                          born |-> [p \in Path |-> IF p \in live THEN 1 ELSE 0],
                          blank |-> blank]>>
    BY DEF Init, Blankness
  <1> DEFINE first == [p \in Path |-> IF p \in live THEN 1 ELSE 0]
             record == [tree |-> first, items |-> <<>>, born |-> first, blank |-> blank]
  <1>2. first \in [Path -> Content] /\ \A p \in Path : first[p] \in {0, 1}
    BY DEF Content
  <1>3. repository = <<record>> /\ record.tree = first /\ DOMAIN record.items = {}
    BY <1>1
  <1> HIDE DEF first
  <1>4. record \in RevisionRecord
    BY <1>2 DEF RevisionRecord
  <1> HIDE DEF record
  <1>5. /\ repository \in Seq(RevisionRecord) /\ Len(repository) = 1 /\ repository[1] = record
        /\ Revisions(repository) = {1}
    BY <1>3, <1>4 DEF Revisions
  <1>6. Places(repository) = {}
    BY <1>3, <1>5 DEF Places
  <1>7. TwoEntries(repository) /\ ChangesLogged(repository) /\ EntriesTell(repository)
    BY <1>3, <1>5, <1>6 DEF TwoEntries, ChangesLogged, EntriesTell
  <1>8. NotFromLater(repository)
    BY <1>2, <1>3, <1>5 DEF NotFromLater
  <1>f. FromItsRevision(repository)
    BY <1>2, <1>3, <1>5 DEF FromItsRevision
  <1>9. NeverBack(repository)
    BY <1>5 DEF NeverBack, Kept
  <1> QED
    BY <1>5, <1>7, <1>8, <1>f, <1>9 DEF History, Coherent, Youngest, Revision

\* The content a path has at the server's HEAD, the paths that were copied from, and
\* those last named as deleted.
Now(h, p) == h[Len(h)].tree[p]
Copied(h) == {Entry(h, x).from : x \in {y \in Places(h) : Entry(h, y).action = "Replace"}}
LastGone(h) ==
  {p \in Path : \E x \in Places(h) : /\ Entry(h, x).path = p /\ Entry(h, x).action = "Delete"
                                     /\ LastOf(h, x)}

\* Files that a run is right to leave alone: unchanged since revision r, never copied
\* from and not last named as deleted.
Stable(h, r) ==
  {p \in Path \ (Directory \cup Copied(h) \cup LastGone(h)) :
     Now(h, p) # 0 /\ h[r].tree[p] = Now(h, p)}

\* A path that is there and has changed without being named is below a directory
\* that is named as something else than deleted.
LEMMA ChangedBelow ==
  ASSUME History, NEW since \in 1..Youngest, NEW p \in Path,
         Tree(Youngest)[p] # 0, Tree(since)[p] # Tree(Youngest)[p],
         \A f \in Changes(since) : f.path # p
  PROVE  \E f \in Changes(since) : f.path \in Above[p] /\ f.kind # "Deleted"
  <1> DEFINE h == repository
             c == h[Youngest].tree[p]
  <1>0. h[Youngest].tree[p] # 0 /\ h[since].tree[p] # h[Youngest].tree[p]
    BY DEF Tree
  <1>1. /\ Youngest \in Revisions(h) /\ since \in Revisions(h)
        /\ c \in Nat /\ c <= Youngest /\ h[c].tree[p] = c
    <2>1. Youngest \in Revisions(h) /\ since \in Revisions(h)
      BY HistoryType
    <2>2. c \in Nat
      BY <2>1, HistoryType, TreeType
    <2>3. c <= Youngest /\ h[c].tree[p] = c
      BY <1>0, <2>1, HistoryType DEF Coherent, NotFromLater, FromItsRevision
    <2> QED
      BY <2>1, <2>2, <2>3
  <1> HIDE DEF c
  <1>2. c \in Revisions(h) /\ c # 0 /\ Kept(h, c, Youngest, p)
    BY <1>0, <1>1, HistoryType DEF c, Kept
  <1>3. \A t \in Revisions(h) : c <= t => h[t].tree[p] = c
    <2> SUFFICES ASSUME NEW t \in Revisions(h), c <= t PROVE h[t].tree[p] = c
      OBVIOUS
    <2>1. t <= Youngest
      BY HistoryType
    <2>2. Kept(h, c, t, p)
      BY <1>1, <1>2, <2>1, HistoryType DEF Coherent, NeverBack
    <2> QED
      BY <1>1, <2>2 DEF Kept
  <1>4. since < c
    BY <1>0, <1>1, <1>3, HistoryType DEF c
  <1>5. c - 1 \in Revisions(h) /\ c - 1 <= c
    BY <1>1, <1>2, <1>4, HistoryType
  <1>6. h[c - 1].tree[p] # h[c].tree[p]
    BY <1>1, <1>5, HistoryType, TreeType DEF Coherent, NotFromLater
  <1>7. PICK x \in Places(h) : c - 1 < x[1] /\ x[1] <= c /\ Reaches(Entry(h, x), p)
    BY <1>2, <1>5, <1>6, HistoryType DEF Coherent, ChangesLogged
  <1>8. x[1] \in Nat /\ x[1] = c
    BY <1>1, <1>7, HistoryType, EntryType
  <1>9. PICK f \in Changes(since) : f.path = Entry(h, x).path
    BY <1>4, <1>8, HistoryType, LoggedIsChange
  <1>10. f.path \in Above[p]
    BY <1>7, <1>9 DEF Reaches
  <1>11. ASSUME f.kind = "Deleted" PROVE FALSE
    <2>1. PICK y \in Places(h) :
            /\ since < y[1] /\ Entry(h, y).path = f.path /\ LastOf(h, y)
            /\ f.kind = "Deleted" <=> Entry(h, y).action = "Delete"
      BY HistoryType, ChangeIsLast
    <2>2. y[1] \in Revisions(h) /\ y[1] \in Nat
      BY HistoryType, EntryType
    <2>3. c <= y[1]
      BY <1>8, <1>9, <2>1, <2>2 DEF LastOf, Earlier
    <2>4. Tells(Entry(h, y), h[y[1]].tree, y[1])
      BY HistoryType DEF Coherent, EntriesTell
    <2>5. h[y[1]].tree[p] = 0
      BY <1>10, <1>11, <2>1, <2>4 DEF Tells, Reaches
    <2> QED
      BY <1>2, <1>3, <2>2, <2>3, <2>5
  <1> QED
    BY <1>10, <1>11

LEMMA CopiedFromIs == ASSUME History PROVE CopiedFrom = Copied(repository)
  <1>1. Logged(0) = Places(repository) /\ \A x \in Logged(0) : ItemAt(x) = Entry(repository, x)
    <2>1. \A x \in Places(repository) : 0 < x[1]
      BY DEF Places, Revisions
    <2>2. /\ Logged(0) = {x \in Places(repository) : 0 < x[1]}
          /\ \A x \in Logged(0) : ItemAt(x) = Entry(repository, x)
      BY LoggedPlaces
    <2> QED
      BY <2>1, <2>2
  <1> QED
    BY <1>1 DEF CopiedFrom, Copied

\* A change that deletes is of a path last named as deleted.
LEMMA DeletedIsLastGone ==
  ASSUME History, NEW since \in Nat, NEW f \in Changes(since), f.kind = "Deleted"
  PROVE  f.path \in LastGone(repository)
  <1>1. f.path \in Path
    BY ChangesType DEF ToDo
  <1> QED
    BY <1>1, ChangeIsLast DEF LastGone

LEMMA LastDeletedIs == ASSUME History PROVE LastGone(repository) \subseteq LastDeleted
  <1> DEFINE h == repository
  <1> SUFFICES ASSUME NEW x \in Places(h), Entry(h, x).action = "Delete", LastOf(h, x)
               PROVE  Entry(h, x).path \in LastDeleted
    BY DEF LastGone
  <1>1. x \in Nat \X Nat /\ 0 < x[1]
    BY DEF Places, Revisions
  <1>2. PICK f \in Changes(0) : f.path = Entry(h, x).path
    BY <1>1, LoggedIsChange
  <1>3. PICK y \in Places(h) :
          /\ 0 < y[1] /\ Entry(h, y).path = f.path /\ LastOf(h, y)
          /\ f.kind = "Deleted" <=> Entry(h, y).action = "Delete"
    BY ChangeIsLast
  <1>4. y \in Nat \X Nat
    BY DEF Places, Revisions
  <1>5. ~Earlier(x, y) /\ ~Earlier(y, x)
    BY <1>2, <1>3 DEF LastOf
  <1>6. x = y
    BY <1>1, <1>4, <1>5 DEF Earlier
  <1>7. f.kind = "Deleted"
    BY <1>3, <1>6
  <1> QED
    BY <1>2, <1>7 DEF LastDeleted

\* What the loop relies on of a change f between revisions l and t: what it deletes is
\* no stable file, and what it does not is there unless something became of a
\* directory above.
ToldRight(h, l, t, f) ==
  /\ f.kind = "Deleted" => \A r \in 1..t : f.path \notin Stable(h, r)
  /\ f.kind # "Deleted" /\ Alone(h, l, t, f.path) => h[t].tree[f.path] # 0
  /\ f.kind = "Renamed" /\ f.oldPath # NoPath => f.oldPath \in Copied(h)

LEMMA ChangesToldRight ==
  ASSUME History, NEW since \in 1..Youngest, NEW f \in Changes(since)
  PROVE  ToldRight(repository, since, Youngest, f)
  <1>1. since \in Nat /\ f.path \in Path
    BY HistoryType, ChangesType DEF ToDo
  <1>2. ASSUME f.kind = "Deleted", NEW r \in 1..Youngest PROVE f.path \notin Stable(repository, r)
    BY <1>1, <1>2, DeletedIsLastGone DEF Stable
  <1>3. f.kind # "Deleted" /\ Alone(repository, since, Youngest, f.path)
          => repository[Youngest].tree[f.path] # 0
    BY <1>1, AloneTells DEF Live, Tree
  <1>4. f.kind = "Renamed" /\ f.oldPath # NoPath => f.oldPath \in Copied(repository)
    BY <1>1, ChangesType, CopiedFromIs
  <1> QED
    BY <1>2, <1>3, <1>4 DEF ToldRight

\* What a commit leaves as it was.
LEMMA CommitKeeps ==
  ASSUME TypeOK, History, CommitStep
  PROVE  /\ History' /\ Youngest' = Youngest + 1
         /\ \A r \in 1..Youngest : Tree(r)' = Tree(r) /\ Live(r)' = Live(r)
         /\ \A l \in Nat, t \in 1..Youngest, f \in ToDo :
              ToldRight(repository, l, t, f) => ToldRight(repository', l, t, f)
         /\ \A l, t \in Nat, p \in Path : Alone(repository', l, t, p) => Alone(repository, l, t, p)
         /\ \A r \in 1..Youngest : \A p \in Stable(repository', r) :
              p \in Stable(repository, r) /\ Now(repository', p) = Now(repository, p)
         /\ KeepsResumeFile =>
              \A p \in Live(Youngest) \cap {checkpoint.file, job.path} : p \in Live(Youngest)'
         /\ UNCHANGED <<workingCopy, last, checkpoint, points, job>>
  <1> DEFINE h == repository
             n == Youngest
  <1>1. PICK new :
          /\ Extends(h, new) /\ repository' = Append(h, new)
          /\ KeepsResumeFile =>
               \A p \in Live(Youngest) \cap {checkpoint.file, job.path} : new.tree[p] # 0
    BY CommitExtends
  <1>2. UNCHANGED <<workingCopy, last, checkpoint, points, job>>
    BY CommitExtends
  <1>3. /\ n \in Nat /\ n >= 1 /\ Len(h) = n /\ h \in Seq(RevisionRecord) /\ Coherent(h)
        /\ Revisions(h) = 1..n /\ n + 1 \in Revision /\ new \in RevisionRecord
    BY <1>1 DEF History, Youngest, Revision, Revisions, Extends
  <1>4. /\ repository' \in Seq(RevisionRecord) /\ Len(repository') = n + 1
        /\ \A r \in 1..n : repository'[r] = h[r]
        /\ repository'[n + 1] = new
    BY <1>1, <1>3
  <1>5. Youngest' = n + 1
    BY <1>4 DEF Youngest
  <1>6. Coherent(repository')
    BY <1>1, <1>3, ExtendsCoherent
  <1>7. History'
    BY <1>3, <1>4, <1>5, <1>6 DEF History, Revision
  <1>8. \A r \in 1..n : Tree(r)' = Tree(r) /\ Live(r)' = Live(r)
    BY <1>4 DEF Tree, Live
  <1>p. \A x \in Places(h) :
          x \in Places(repository') /\ Entry(repository', x) = Entry(h, x) /\ x[1] \in 1..n
    BY <1>3, <1>4 DEF Places, Entry, Revisions
  <1>9. Copied(h) \subseteq Copied(repository')
    BY <1>p DEF Copied
  <1>a. \A l, t \in Nat, p \in Path : Alone(repository', l, t, p) => Alone(h, l, t, p)
    BY <1>p DEF Alone
  <1>k. \A k \in DOMAIN new.items : /\ <<n + 1, k>> \in Places(repository')
                                    /\ Entry(repository', <<n + 1, k>>) = new.items[k]
    <2>1. \A k \in DOMAIN new.items : k \in 1..2
      BY <1>1 DEF Extends
    <2> QED
      BY <1>3, <1>4, <2>1 DEF Places, Entry, Revisions
  <1>q. \A x \in Places(repository') :
          \/ x \in Places(h)
          \/ x[1] = n + 1 /\ x[2] \in DOMAIN new.items /\ Entry(repository', x) = new.items[x[2]]
    BY <1>3, <1>4 DEF Places, Entry, Revisions
  <1>10. ASSUME NEW r \in 1..n, NEW p \in Stable(repository', r)
         PROVE  p \in Stable(repository, r) /\ Now(repository', p) = Now(repository, p)
    <2>1. /\ p \in Path \ Directory /\ new.tree[p] # 0 /\ p \notin Copied(h)
          /\ p \notin LastGone(repository') /\ h[r].tree[p] = new.tree[p]
      BY <1>4, <1>9, <1>10 DEF Stable, Now
    <2>2. h[r].tree[p] <= r /\ h[r].tree[p] \in Nat
      BY <1>3, <2>1, TreeType DEF Coherent, NotFromLater
    <2>3. new.tree[p] # n + 1
      BY <1>3, <2>1, <2>2
    <2>4. new.tree[p] = h[n].tree[p]
      BY <1>1, <1>3, <2>1, <2>3 DEF Extends
    <2>5. \A k \in DOMAIN new.items : new.items[k].path # p
      <3> SUFFICES ASSUME NEW k \in DOMAIN new.items, new.items[k].path = p PROVE FALSE
        OBVIOUS
      <3>1. Tells(new.items[k], new.tree, n + 1)
        BY <1>1, <1>3 DEF Extends
      <3> QED
        BY <2>1, <2>3, <3>1 DEF Tells, Reaches
    <2>6. p \notin LastGone(h)
      <3> SUFFICES ASSUME NEW x \in Places(h), Entry(h, x).path = p,
                          Entry(h, x).action = "Delete", LastOf(h, x)
                   PROVE  FALSE
        BY DEF LastGone
      <3>1. LastOf(repository', x)
        <4> SUFFICES ASSUME NEW y \in Places(repository'), Entry(repository', y).path = p
                     PROVE  ~Earlier(x, y)
          BY <1>p DEF LastOf
        <4>1. y \in Places(h) /\ Entry(h, y).path = p
          BY <1>p, <1>q, <2>5
        <4> QED
          BY <4>1 DEF LastOf
      <3> QED
        BY <1>p, <2>1, <3>1 DEF LastGone
    <2> QED
      BY <1>3, <1>4, <2>1, <2>4, <2>6 DEF Stable, Now
  <1>c. ASSUME NEW l \in Nat, NEW t \in 1..n, NEW f \in ToDo, ToldRight(h, l, t, f)
        PROVE  ToldRight(repository', l, t, f)
    <2>1. f.path \in Path /\ t \in Nat
      BY DEF ToDo
    <2>2. f.kind = "Deleted" => \A r \in 1..t : f.path \notin Stable(repository', r)
      <3>1. 1..t \subseteq 1..n
        BY <1>3
      <3> QED
        BY <1>10, <1>c, <3>1 DEF ToldRight
    <2>3. f.kind # "Deleted" /\ Alone(repository', l, t, f.path) => repository'[t].tree[f.path] # 0
      BY <1>4, <1>a, <1>c, <2>1 DEF ToldRight
    <2>4. f.kind = "Renamed" /\ f.oldPath # NoPath => f.oldPath \in Copied(repository')
      BY <1>9, <1>c DEF ToldRight
    <2> QED
      BY <2>2, <2>3, <2>4 DEF ToldRight
  <1>11. KeepsResumeFile =>
           \A p \in Live(Youngest) \cap {checkpoint.file, job.path} : p \in Live(Youngest)'
    BY <1>1, <1>4, <1>5 DEF Live, Tree
  <1> QED
    BY <1>2, <1>5, <1>7, <1>8, <1>a, <1>c, <1>10, <1>11

-----------------------------------------------------------------------------
(* The run *)

JobState ==
  [pc : {"idle", "toRevision", "list", "loop", "save", "commit"}, full : BOOLEAN,
   to : 0..Youngest, revision : 0..Youngest, listed : 0..Youngest,
   resume : Path \cup {NoPath}, todo : SUBSET ToDo, path : Path \cup {NoPath}]

\* A run with the changes since the last indexed revision; one with all files.
Diffing == ~job.full /\ job.pc \in {"toRevision", "loop"}
Listing == job.full /\ job.pc \in {"loop", "save", "commit"}

Phases ==
  /\ job.pc = "idle" => job = Idle
  /\ job.pc \in {"list", "save", "commit"} => job.full
  /\ job.pc = "toRevision" => ~job.full
  /\ job.pc \notin {"idle", "toRevision"} => 1 <= job.to
  /\ job.pc \in {"list", "commit"} => job.todo = {}
  /\ job.pc = "save" => job.path \in Path

\* The working copy's revision is read before it moves on.
Bounds ==
  /\ checkpoint.revision <= workingCopy /\ job.to <= workingCopy /\ job.revision <= workingCopy
  /\ Diffing => /\ 1 <= last /\ last <= job.listed /\ checkpoint.revision <= job.listed
                /\ job.pc = "loop" => job.revision = job.to
  /\ Listing => job.to <= job.revision /\ job.revision <= job.listed

TodoInv ==
  /\ \A f, g \in job.todo : f.path = g.path => f = g
  /\ Diffing => \A f \in job.todo : ToldRight(repository, last, job.listed, f)
  /\ job.full => \A f \in job.todo :
                  f.kind = "Added" /\ f.place = <<0, f.path>> /\ f.path \notin Directory

RunInv == TypeOK /\ History /\ Phases /\ Bounds /\ TodoInv

LEMMA TypeParts ==
  TypeOK <=> /\ repository \in Seq(RevisionRecord)
             /\ Youngest \in Revision
             /\ workingCopy \in Revision /\ workingCopy <= Youngest
             /\ last \in 0..workingCopy
             /\ checkpoint \in [revision : 0..Youngest, file : Path \cup {NoPath}]
             /\ points \subseteq Path \X Revision
             /\ job \in JobState
  BY DEF TypeOK, JobState, ToDo, RevisionRecord

LEMMA IdleType == ASSUME Youngest \in Revision PROVE Idle \in JobState
  BY DEF Idle, JobState, Revision

\* What a run's own steps leave alone.
LEMMA SameHistory ==
  ASSUME History, UNCHANGED repository
  PROVE  /\ History' /\ Youngest' = Youngest /\ CopiedFrom' = CopiedFrom
         /\ \A r \in Nat : Tree(r)' = Tree(r) /\ Live(r)' = Live(r)
  <1>1. Youngest' = Youngest
    BY DEF Youngest
  <1>2. Coherent(repository)' = Coherent(repository)
    BY DEF Coherent, TwoEntries, NotFromLater,
           NeverBack, Kept, ChangesLogged, EntriesTell, FromItsRevision, Places, Entry, Revisions
  <1>3. CopiedFrom' = CopiedFrom
    BY <1>1 DEF CopiedFrom, Logged, ItemAt
  <1>4. \A r \in Nat : Tree(r)' = Tree(r) /\ Live(r)' = Live(r)
    BY DEF Tree, Live
  <1> QED
    BY <1>1, <1>2, <1>3, <1>4 DEF History

\* A run that is not there has nothing to keep.
LEMMA IdleInv ==
  ASSUME RunInv, job' = Idle, UNCHANGED <<repository, workingCopy>>,
         last' \in 0..workingCopy, checkpoint' \in {checkpoint, NoCheckpoint}, UNCHANGED points
  PROVE  RunInv'
  <1>1. /\ History' /\ Youngest' = Youngest /\ Youngest \in Revision
        /\ workingCopy \in Nat /\ workingCopy >= 1
    BY SameHistory DEF RunInv, History, Revision, TypeOK
  <1>2. job' \in JobState
    BY <1>1, IdleType
  <1>3. job'.pc = "idle" /\ job'.full = FALSE /\ job'.to = 0 /\ job'.revision = 0 /\ job'.todo = {}
    BY DEF Idle
  <1>4. checkpoint' \in [revision : 0..Youngest, file : Path \cup {NoPath}]
        /\ checkpoint'.revision <= workingCopy
    BY <1>1 DEF NoCheckpoint, RunInv, Bounds, TypeOK, Revision
  <1>5. TypeOK'
    <2>1. job' \in JobState'
      BY <1>1, <1>2 DEF JobState
    <2> QED
      BY <1>1, <1>4, <2>1 DEF RunInv, TypeOK, JobState, ToDo
  <1>6. Phases' /\ Bounds' /\ TodoInv'
    BY <1>1, <1>3, <1>4 DEF Phases, Bounds, TodoInv, Diffing, Listing
  <1> QED
    BY <1>1, <1>5, <1>6 DEF RunInv

LEMMA StepTypes ==
  ASSUME RunInv, UNCHANGED <<repository, workingCopy, last>>, job' \in JobState,
         points' \subseteq Path \X Revision,
         checkpoint' \in [revision : 0..Youngest, file : Path \cup {NoPath}]
  PROVE  TypeOK' /\ History'
  <1>1. History' /\ Youngest' = Youngest
    BY SameHistory DEF RunInv
  <1>2. job' \in JobState'
    BY <1>1 DEF JobState
  <1> QED
    BY <1>1, <1>2 DEF RunInv, TypeOK, JobState, ToDo

LEMMA RunFacts ==
  ASSUME RunInv
  PROVE  /\ Youngest \in Nat /\ Youngest >= 1 /\ workingCopy \in 1..Youngest
         /\ last \in 0..workingCopy
         /\ checkpoint \in [revision : 0..Youngest, file : Path \cup {NoPath}]
         /\ points \subseteq Path \X Revision
         /\ job \in JobState /\ History
         /\ {0, workingCopy, Youngest} \subseteq 0..Youngest
  BY TypeParts DEF RunInv, Revision

LEMMA StartDiffInv == ASSUME RunInv, GetChangedFilesSince PROVE RunInv'
  <1> DEFINE s == [Idle EXCEPT !.pc = "toRevision", !.listed = Youngest, !.todo = Changes(last)]
  <1>1. /\ last # 0 /\ last < Youngest /\ job' = s
        /\ UNCHANGED <<repository, workingCopy, last, checkpoint, points>>
    BY DEF GetChangedFilesSince
  <1>2. last \in 1..Youngest /\ last \in Nat
    BY <1>1, RunFacts
  <1>3. /\ s.pc = "toRevision" /\ s.full = FALSE /\ s.listed = Youngest /\ s.todo = Changes(last)
        /\ s.to = 0 /\ s.revision = 0
    BY DEF Idle
  <1>4. Changes(last) \subseteq ToDo
    BY <1>2, RunFacts, ChangesType
  <1>5. s \in JobState
    <2>1. Youngest \in 0..Youngest /\ Idle \in JobState
      BY RunFacts, IdleType DEF RunInv, TypeOK
    <2> QED
      BY <1>4, <2>1 DEF JobState
  <1> HIDE DEF s
  <1>6. TypeOK' /\ History'
    BY <1>1, <1>5, RunFacts, StepTypes
  <1>7. Phases'
    BY <1>1, <1>3 DEF Phases
  <1>8. Bounds'
    BY <1>1, <1>2, <1>3, RunFacts DEF Bounds, Diffing, Listing, RunInv
  <1>9. TodoInv'
    <2>1. /\ \A f, g \in s.todo : f.path = g.path => f = g
          /\ \A f \in s.todo : ToldRight(repository, last, s.listed, f)
      BY <1>2, <1>3, RunFacts, ChangesType, ChangesToldRight
    <2> QED
      BY <1>1, <1>3, <2>1 DEF TodoInv, Diffing
  <1> QED
    BY <1>6, <1>7, <1>8, <1>9 DEF RunInv

LEMMA CurrentRevisionInv == ASSUME RunInv, GetCurrentRevision PROVE RunInv'
  <1> DEFINE s == [job EXCEPT !.pc = "loop", !.to = workingCopy, !.revision = workingCopy]
  <1>1. /\ job.pc = "toRevision" /\ job' = s
        /\ UNCHANGED <<repository, workingCopy, last, checkpoint, points>>
    BY DEF GetCurrentRevision
  <1>2. /\ s.pc = "loop" /\ s.full = job.full /\ s.listed = job.listed /\ s.todo = job.todo
        /\ s.to = workingCopy /\ s.revision = workingCopy
    BY RunFacts DEF JobState
  <1>3. s \in JobState
    <2>1. workingCopy \in 0..Youngest /\ job \in JobState
      BY RunFacts
    <2> QED
      BY <2>1 DEF JobState
  <1> HIDE DEF s
  <1>4. TypeOK' /\ History'
    BY <1>1, <1>3, RunFacts, StepTypes
  <1>5. Phases'
    BY <1>1, <1>2, RunFacts DEF Phases, RunInv
  <1>6. Bounds'
    BY <1>1, <1>2, RunFacts DEF Bounds, Diffing, Listing, RunInv, Phases
  <1>7. TodoInv'
    BY <1>1, <1>2 DEF TodoInv, Diffing, RunInv
  <1> QED
    BY <1>4, <1>5, <1>6, <1>7 DEF RunInv

LEMMA StartFullInv == ASSUME RunInv, StartFull PROVE RunInv'
  <1> DEFINE resume == IF checkpoint.revision = workingCopy THEN checkpoint.file ELSE NoPath
             s == [Idle EXCEPT !.pc = "list", !.full = TRUE, !.to = workingCopy, !.resume = resume]
  <1>1. job' = s /\ UNCHANGED <<repository, workingCopy, last, checkpoint, points>>
    BY DEF StartFull
  <1>2. resume \in Path \cup {NoPath}
    BY RunFacts
  <1> HIDE DEF resume
  <1>3. /\ s.pc = "list" /\ s.full = TRUE /\ s.todo = {} /\ s.to = workingCopy /\ s.revision = 0
    BY DEF Idle
  <1>4. s \in JobState
    <2>1. workingCopy \in 0..Youngest /\ Idle \in JobState
      BY RunFacts, IdleType DEF RunInv, TypeOK
    <2> QED
      BY <1>2, <2>1 DEF JobState
  <1> HIDE DEF s
  <1>5. TypeOK' /\ History'
    BY <1>1, <1>4, RunFacts, StepTypes
  <1>6. Phases' /\ Bounds' /\ TodoInv'
    BY <1>1, <1>3, RunFacts DEF Phases, Bounds, TodoInv, Diffing, Listing, RunInv
  <1> QED
    BY <1>5, <1>6 DEF RunInv

LEMMA ListInv == ASSUME RunInv, GetFilesAtHead PROVE RunInv'
  <1> DEFINE due == FilesToProcess(job.resume, Files(Youngest))
             todo == {ChangedFile(p, "Added", NoPath, <<0, p>>) : p \in due}
             s == [job EXCEPT !.pc = "loop", !.listed = Youngest, !.revision = workingCopy,
                              !.todo = todo]
  <1>1. /\ job.pc = "list" /\ job' = s
        /\ UNCHANGED <<repository, workingCopy, last, checkpoint, points>>
    BY DEF GetFilesAtHead
  <1>2. due \subseteq Path \ Directory
    BY DEF FilesToProcess, Files, Live
  <1> HIDE DEF due
  <1>3. /\ todo \subseteq ToDo
        /\ \A f \in todo : f.kind = "Added" /\ f.place = <<0, f.path>> /\ f.path \notin Directory
        /\ \A f, g \in todo : f.path = g.path => f = g
    BY <1>2 DEF ChangedFile, ToDo
  <1> HIDE DEF todo
  <1>4. /\ s.pc = "loop" /\ s.full = job.full /\ s.todo = todo /\ s.to = job.to
        /\ s.revision = workingCopy /\ s.listed = Youngest
    BY RunFacts DEF JobState
  <1>5. s \in JobState
    <2>1. workingCopy \in 0..Youngest /\ Youngest \in 0..Youngest /\ job \in JobState
      BY RunFacts
    <2> QED
      BY <1>3, <2>1 DEF JobState
  <1> HIDE DEF s
  <1>6. TypeOK' /\ History'
    BY <1>1, <1>5, RunFacts, StepTypes
  <1>7. Phases' /\ Bounds' /\ TodoInv'
    BY <1>1, <1>3, <1>4, RunFacts DEF Phases, Bounds, TodoInv, Diffing, Listing, RunInv
  <1> QED
    BY <1>6, <1>7 DEF RunInv

\* A step of the loop that takes f off the list, or puts back what is left to do of it.
LEMMA LoopInv ==
  ASSUME RunInv, NEW f \in job.todo, job.pc = "loop",
         NEW todo, todo = job.todo \ {f}
                   \/ (~job.full /\ f.kind = "Renamed"
                       /\ todo = (job.todo \ {f}) \cup {[f EXCEPT !.kind = "Added"]}),
         NEW pc, pc = "loop" \/ (pc = "save" /\ job.full),
         NEW path \in Path \cup {NoPath}, pc = "save" => path \in Path,
         job' = [job EXCEPT !.todo = todo, !.pc = pc, !.path = path],
         points' \subseteq Path \X Revision,
         UNCHANGED <<repository, workingCopy, last, checkpoint>>
  PROVE  RunInv'
  <1> DEFINE s == [job EXCEPT !.todo = todo, !.pc = pc, !.path = path]
             h == [f EXCEPT !.kind = "Added"]
  <1>1. job \in JobState /\ f \in ToDo
    BY RunFacts DEF JobState
  <1>2. h \in ToDo /\ h.path = f.path /\ h.kind = "Added"
    BY <1>1 DEF ToDo
  <1> HIDE DEF h
  <1>3. /\ todo \subseteq ToDo
        /\ \A g \in todo : g \in job.todo \ {f} \/ (g = h /\ ~job.full /\ f.kind = "Renamed")
    BY <1>1, <1>2 DEF JobState, h
  <1>4. /\ s.pc = pc /\ s.full = job.full /\ s.listed = job.listed /\ s.todo = todo
        /\ s.to = job.to /\ s.revision = job.revision /\ s.path = path
    BY <1>1 DEF JobState
  <1>5. s \in JobState
    BY <1>1, <1>3 DEF JobState
  <1>6. job' = s
    OBVIOUS
  <1> HIDE DEF s
  <1>7. TypeOK' /\ History'
    BY <1>5, <1>6, RunFacts, StepTypes
  <1>8. Phases'
    BY <1>4, <1>6 DEF Phases, RunInv
  <1>9. Bounds'
    BY <1>4, <1>6 DEF Bounds, Diffing, Listing, RunInv
  <1>10. TodoInv'
    <2>1. \A g1, g2 \in todo : g1.path = g2.path => g1 = g2
      BY <1>2, <1>3 DEF RunInv, TodoInv
    <2>2. job.full => \A g \in todo : /\ g.kind = "Added" /\ g.place = <<0, g.path>>
                                     /\ g.path \notin Directory
      BY <1>3 DEF RunInv, TodoInv
    <2>3. ~job.full => \A g \in todo : ToldRight(repository, last, job.listed, g)
      <3> SUFFICES ASSUME ~job.full, NEW g \in todo PROVE ToldRight(repository, last, job.listed, g)
        OBVIOUS
      <3>1. \A e \in job.todo : ToldRight(repository, last, job.listed, e)
        BY DEF RunInv, TodoInv, Diffing
      <3>2. CASE g \in job.todo
        BY <3>1, <3>2
      <3>3. CASE g = h /\ f.kind = "Renamed"
        <4>1. ToldRight(repository, last, job.listed, f)
          BY <3>1
        <4> QED
          BY <1>2, <3>3, <4>1 DEF ToldRight
      <3> QED
        BY <1>3, <3>2, <3>3
    <2> QED
      BY <1>4, <1>6, <2>1, <2>2, <2>3 DEF TodoInv, Diffing
  <1> QED
    BY <1>7, <1>8, <1>9, <1>10 DEF RunInv

LEMMA WithoutPathType ==
  ASSUME RunInv, NEW p PROVE WithoutPath(p) \subseteq Path \X Revision
  BY RunFacts DEF WithoutPath

LEMMA DeleteFileInv == ASSUME RunInv, NEW f \in job.todo, DeleteFile(f) PROVE RunInv'
  <1> DEFINE todo == job.todo \ {f}
  <1>1. job.pc = "loop" /\ UNCHANGED <<repository, workingCopy, last, checkpoint>>
    BY DEF DeleteFile, IsNext
  <1>2. job' = [job EXCEPT !.todo = todo, !.pc = "loop", !.path = job.path]
    BY <1>1, RunFacts DEF DeleteFile, JobState
  <1>3. points' \subseteq Path \X Revision /\ job.path \in Path \cup {NoPath}
    BY WithoutPathType, RunFacts DEF DeleteFile, JobState
  <1> HIDE DEF todo
  <1> QED
    BY <1>1, <1>2, <1>3, LoopInv DEF todo

LEMMA DeleteOldPathInv == ASSUME RunInv, NEW f \in job.todo, DeleteOldPath(f) PROVE RunInv'
  <1> DEFINE todo == (job.todo \ {f}) \cup {[f EXCEPT !.kind = "Added"]}
  <1>1. /\ job.pc = "loop" /\ UNCHANGED <<repository, workingCopy, last, checkpoint>>
        /\ f.kind = "Renamed"
    BY DEF DeleteOldPath, IsNext
  <1>2. job' = [job EXCEPT !.todo = todo, !.pc = "loop", !.path = job.path]
    BY <1>1, RunFacts DEF DeleteOldPath, JobState
  <1>3. points' \subseteq Path \X Revision /\ job.path \in Path \cup {NoPath}
    BY WithoutPathType, RunFacts DEF DeleteOldPath, JobState
  <1>4. ~job.full
    BY <1>1 DEF RunInv, TodoInv
  <1> HIDE DEF todo
  <1> QED
    BY <1>1, <1>2, <1>3, <1>4, LoopInv DEF todo

\* The point of a file that could be read.
LEMMA NewPoint ==
  ASSUME RunInv, NEW f \in job.todo, ProcessFile(f)
  PROVE  /\ f.path \in Path /\ job.pc = "loop" /\ f.kind # "Deleted"
         /\ Tree(job.revision)[f.path] \in Revision /\ f.path \in Live(Youngest)
         /\ job.revision \in 1..Youngest
  <1>1. f \in ToDo /\ job \in JobState
    BY RunFacts DEF JobState
  <1>2. /\ f.path \in Live(job.revision) /\ f.path \in Live(Youngest)
        /\ job.pc = "loop" /\ f.kind # "Deleted"
    BY DEF ProcessFile, Readable, Files, ToProcess, IsNext
  <1>3. job.revision \in 1..Youngest
    <2>1. 1 <= job.to
      BY <1>2 DEF RunInv, Phases
    <2>2. job.to <= job.revision
      BY <1>1, <1>2 DEF RunInv, Bounds, Diffing, Listing, JobState
    <2> QED
      BY <1>1, <2>1, <2>2, RunFacts DEF JobState
  <1>4. repository[job.revision] \in RevisionRecord
    BY <1>3, YoungestType DEF RunInv, Revisions, Youngest
  <1>5. Tree(job.revision)[f.path] \in Content /\ Tree(job.revision)[f.path] # 0
    BY <1>1, <1>2, <1>4 DEF RevisionRecord, Tree, Live, ToDo
  <1> QED
    BY <1>1, <1>2, <1>3, <1>5 DEF Content, Revision, ToDo

LEMMA ProcessFileInv == ASSUME RunInv, NEW f \in job.todo, ProcessFile(f) PROVE RunInv'
  <1> DEFINE todo == job.todo \ {f}
             pc == IF job.full THEN "save" ELSE "loop"
             path == IF job.full THEN f.path ELSE NoPath
  <1>1. job.pc = "loop" /\ UNCHANGED <<repository, workingCopy, last, checkpoint>>
    BY DEF ProcessFile, ToProcess, IsNext
  <1>2. job' = [job EXCEPT !.todo = todo, !.pc = pc, !.path = path]
    BY DEF ProcessFile
  <1>3. points' \subseteq Path \X Revision
    <2>1. <<f.path, Tree(job.revision)[f.path]>> \in Path \X Revision
      BY NewPoint
    <2>2. points \subseteq Path \X Revision
      BY RunFacts
    <2> QED
      BY <2>1, <2>2 DEF ProcessFile
  <1>4. /\ path \in Path \cup {NoPath}
        /\ pc = "save" => path \in Path
        /\ pc = "loop" \/ (pc = "save" /\ job.full)
    BY NewPoint
  <1> HIDE DEF todo, pc, path
  <1> QED
    BY <1>1, <1>2, <1>3, <1>4, LoopInv DEF todo

LEMMA SaveCheckpointInv == ASSUME RunInv, SaveCheckpoint PROVE RunInv'
  <1> DEFINE s == [job EXCEPT !.pc = "loop", !.path = NoPath]
  <1>1. /\ job.pc = "save" /\ job' = s /\ checkpoint' = [revision |-> job.to, file |-> job.path]
        /\ UNCHANGED <<repository, workingCopy, last, points>>
    BY DEF SaveCheckpoint
  <1>2. /\ s.pc = "loop" /\ s.full = job.full /\ s.listed = job.listed /\ s.todo = job.todo
        /\ s.to = job.to /\ s.revision = job.revision /\ s \in JobState
        /\ job.to \in 0..Youngest /\ job.path \in Path \cup {NoPath}
    BY RunFacts DEF JobState
  <1> HIDE DEF s
  <1>3. TypeOK' /\ History'
    BY <1>1, <1>2, RunFacts, StepTypes
  <1>4. Phases' /\ Bounds' /\ TodoInv'
    BY <1>1, <1>2 DEF Phases, Bounds, TodoInv, Diffing, Listing, RunInv
  <1> QED
    BY <1>3, <1>4 DEF RunInv

LEMMA ClearCheckpointInv == ASSUME RunInv, ClearCheckpoint PROVE RunInv'
  <1> DEFINE s == [job EXCEPT !.pc = "commit"]
  <1>1. /\ job.pc = "loop" /\ job.todo = {} /\ job.full /\ job' = s /\ checkpoint' = NoCheckpoint
        /\ UNCHANGED <<repository, workingCopy, last, points>>
    BY DEF ClearCheckpoint, LoopDone
  <1>2. /\ s.pc = "commit" /\ s.full = job.full /\ s.listed = job.listed /\ s.todo = job.todo
        /\ s.to = job.to /\ s.revision = job.revision /\ s \in JobState
    BY RunFacts DEF JobState
  <1> HIDE DEF s
  <1>3. TypeOK' /\ History'
    BY <1>1, <1>2, RunFacts, StepTypes DEF NoCheckpoint
  <1>4. Phases' /\ Bounds' /\ TodoInv'
    BY <1>1, <1>2, RunFacts DEF Phases, Bounds, TodoInv, Diffing, Listing, RunInv, NoCheckpoint
  <1> QED
    BY <1>3, <1>4 DEF RunInv

LEMMA RunOverInv ==
  ASSUME RunInv,
         SetLastIndexedRevision \/ Abort \/ (\E f \in job.todo : ProcessFileThrows(f))
  PROVE  RunInv'
  <1>1. /\ job' = Idle /\ UNCHANGED <<repository, workingCopy, points>>
        /\ last' \in {last, job.to} /\ checkpoint' \in {checkpoint, NoCheckpoint}
    BY DEF SetLastIndexedRevision, Abort, ProcessFileThrows
  <1>2. job.to \in Nat /\ job.to <= workingCopy
    BY RunFacts DEF RunInv, Bounds, JobState
  <1>3. last' \in 0..workingCopy
    BY <1>1, <1>2, RunFacts
  <1> QED
    BY <1>1, <1>3, IdleInv

LEMMA UpdateInv == ASSUME RunInv, Update PROVE RunInv'
  <1>1. /\ workingCopy < Youngest /\ workingCopy' = Youngest
        /\ UNCHANGED <<repository, last, checkpoint, points, job>>
    BY DEF Update
  <1>2. History' /\ Youngest' = Youngest
    BY <1>1, SameHistory DEF RunInv
  <1>3. TypeOK'
    BY <1>1, <1>2, RunFacts DEF RunInv, TypeOK, Revision
  <1>4. Phases' /\ TodoInv'
    BY <1>1, <1>2 DEF RunInv, Phases, TodoInv, Diffing
  <1>5. Bounds'
    BY <1>1, RunFacts DEF RunInv, Bounds, Diffing, Listing, JobState
  <1> QED
    BY <1>2, <1>3, <1>4, <1>5 DEF RunInv

LEMMA CommitInv == ASSUME RunInv, CommitStep PROVE RunInv'
  <1>1. /\ History' /\ Youngest' = Youngest + 1
        /\ \A l \in Nat, t \in 1..Youngest, f \in ToDo :
             ToldRight(repository, l, t, f) => ToldRight(repository', l, t, f)
        /\ UNCHANGED <<workingCopy, last, checkpoint, points, job>>
    BY CommitKeeps DEF RunInv
  <1>2. repository' \in Seq(RevisionRecord) /\ Youngest' \in Revision
    BY <1>1 DEF History
  <1>3. job' \in JobState' /\ checkpoint' \in [revision : 0..Youngest', file : Path \cup {NoPath}]
    <2>1. 0..Youngest \subseteq 0..Youngest'
      BY <1>1, RunFacts
    <2> QED
      BY <1>1, <2>1, RunFacts DEF JobState
  <1>4. TypeOK'
    <2>1. /\ workingCopy' \in Revision /\ workingCopy' <= Youngest' /\ last' \in 0..workingCopy'
          /\ points' \subseteq Path \X Revision
      BY <1>1, RunFacts DEF RunInv, TypeOK
    <2> QED
      BY <1>2, <1>3, <2>1 DEF TypeOK, JobState, ToDo, RevisionRecord
  <1>5. Phases' /\ Bounds'
    BY <1>1 DEF RunInv, Phases, Bounds, Diffing, Listing
  <1>6. Diffing => job.listed \in 1..Youngest /\ last \in Nat /\ job.todo \subseteq ToDo
    BY RunFacts DEF RunInv, Bounds, JobState
  <1>7. TodoInv'
    BY <1>1, <1>6 DEF RunInv, TodoInv, Diffing
  <1> QED
    BY <1>1, <1>4, <1>5, <1>7 DEF RunInv

LEMMA InitInv == Init => RunInv
  <1> SUFFICES ASSUME Init PROVE RunInv
    OBVIOUS
  <1>1. History /\ Youngest = 1
    BY InitHistory DEF Init, Youngest
  <1>2. /\ workingCopy = 1 /\ last = 0 /\ checkpoint = NoCheckpoint /\ points = {} /\ job = Idle
    BY DEF Init
  <1>3. Idle \in JobState
    BY <1>1, IdleType DEF History
  <1>4. TypeOK
    BY <1>1, <1>2, <1>3, TypeParts DEF History, NoCheckpoint, Revision
  <1>5. Phases /\ Bounds /\ TodoInv
    BY <1>2 DEF Idle, NoCheckpoint, Phases, Bounds, TodoInv, Diffing, Listing
  <1> QED
    BY <1>1, <1>4, <1>5 DEF RunInv

LEMMA RunInvNext == RunInv /\ [Next]_vars => RunInv'
  <1> SUFFICES ASSUME RunInv, [Next]_vars PROVE RunInv'
    OBVIOUS
  <1>1. CASE User
    BY <1>1, UpdateInv, CommitInv DEF User, CommitStep
  <1>2. CASE GetChangedFilesSince \/ StartFull \/ Abort
    BY <1>2, StartDiffInv, StartFullInv, RunOverInv
  <1>3. CASE Step
    BY <1>3, CurrentRevisionInv, ListInv, DeleteFileInv, DeleteOldPathInv, ProcessFileInv,
       SaveCheckpointInv, ClearCheckpointInv, RunOverInv DEF Step
  <1>4. CASE UNCHANGED vars
    <2>1. /\ UNCHANGED <<repository, workingCopy, last, checkpoint, points, job>>
      BY <1>4 DEF vars
    <2>2. History'
      BY <2>1, SameHistory DEF RunInv
    <2> QED
      BY <2>1, <2>2 DEF RunInv, TypeOK, Phases, Bounds, TodoInv, Diffing, Listing, Youngest
  <1> QED
    BY <1>1, <1>2, <1>3, <1>4 DEF Next

LEMMA RunInvariant == Spec => []RunInv
  BY InitInv, RunInvNext, PTL DEF Spec

\* Every variable has its type, and what is recorded as indexed is never ahead of the
\* working copy, nor that of the server.
THEOREM TypeCorrect == Spec => []TypeOK
  <1>1. RunInv => TypeOK
    BY DEF RunInv
  <1> QED
    BY <1>1, RunInvariant, PTL

\* The log that a run works through, merged as GetChangedFilesSinceAsync merges it,
\* names every path that differs between the trees or a directory it lies in, each
\* path once, and as deleted, of those with nothing logged above, just the ones that
\* are gone, whatever is committed, copied and moved.
THEOREM LogAlwaysDifference == Spec => []LogIsDifference
  <1>1. RunInv => LogIsDifference
    BY HistoryGivesDifference DEF RunInv
  <1> QED
    BY <1>1, RunInvariant, PTL

-----------------------------------------------------------------------------
(* What incremental runs purge *)

Awaits(s, p) == \E f \in s.todo : f.path = p

HasNone(P, p) == \A x \in P : x[1] # p

\* A file that is gone since the last indexed revision, with nothing logged above, is
\* still to be deleted, or has no point left.
Purges(h, P, l, s) ==
  \A p \in Path : \A r \in l..s.listed :
    Alone(h, l, s.listed, p) /\ h[s.listed].tree[p] = 0 /\ h[r].tree[p] # 0
      => Awaits(s, p) \/ HasNone(P, p)

PurgeInv == Diffing => Purges(repository, points, last, job)

\* The loop keeps what is awaited, except for the file it takes off the list.
LEMMA LoopAwaits ==
  ASSUME RunInv, NEW f \in job.todo,
         DeleteFile(f) \/ DeleteOldPath(f) \/ ProcessFile(f)
  PROVE  /\ UNCHANGED <<repository, workingCopy, last, checkpoint>>
         /\ job.pc = "loop" /\ job'.full = job.full /\ job'.listed = job.listed
         /\ job'.to = job.to /\ job'.revision = job.revision
         /\ \A p \in Path : Awaits(job, p) => Awaits(job', p) \/ p = f.path
         /\ job' = [job EXCEPT !.todo = job'.todo, !.pc = job'.pc, !.path = job'.path]
  <1>1. job \in JobState
    BY RunFacts
  <1>2. CASE DeleteFile(f)
    BY <1>1, <1>2 DEF DeleteFile, IsNext, JobState, Awaits
  <1>3. CASE DeleteOldPath(f)
    BY <1>1, <1>3 DEF DeleteOldPath, IsNext, JobState, Awaits
  <1>4. CASE ProcessFile(f)
    BY <1>1, <1>4 DEF ProcessFile, ToProcess, IsNext, JobState, Awaits
  <1> QED
    BY <1>2, <1>3, <1>4

LEMMA StartPurge == ASSUME RunInv, GetChangedFilesSince PROVE PurgeInv'
  <1>1. /\ last # 0 /\ last < Youngest /\ job'.listed = Youngest /\ job'.todo = Changes(last)
        /\ UNCHANGED <<repository, last, points>>
    BY DEF GetChangedFilesSince, Idle
  <1>2. last \in 1..Youngest
    BY <1>1, RunFacts
  <1>3. ASSUME NEW p \in Path, NEW r \in last..Youngest, Alone(repository, last, Youngest, p),
               repository[Youngest].tree[p] = 0, repository[r].tree[p] # 0
        PROVE  Awaits(job', p)
    <2>1. PICK f \in Changes(last) : f.path = p \/ f.path \in Above[p]
      BY <1>2, <1>3, RunFacts, ChangesReach DEF Tree
    <2>2. \E x \in Places(repository) : last < x[1] /\ Entry(repository, x).path = f.path
      BY <1>2, RunFacts, ChangeIsLast
    <2>3. \A x \in Places(repository) : x[1] <= Youngest
      BY RunFacts, HistoryType, EntryType
    <2>4. f.path \notin Above[p]
      BY <1>3, <2>2, <2>3 DEF Alone
    <2> QED
      BY <1>1, <2>1, <2>4 DEF Awaits
  <1> QED
    BY <1>1, <1>3 DEF PurgeInv, Purges

LEMMA LoopPurge ==
  ASSUME RunInv, PurgeInv, NEW f \in job.todo,
         DeleteFile(f) \/ DeleteOldPath(f) \/ ProcessFile(f)
  PROVE  PurgeInv'
  <1>1. CASE job.full
    BY <1>1, LoopAwaits DEF PurgeInv, Diffing
  <1>2. CASE ~job.full
    <2>1. Diffing /\ f.path \in Path
      BY <1>2, LoopAwaits, RunFacts DEF Diffing, JobState, ToDo
    <2>2. repository' = repository /\ last' = last /\ job'.listed = job.listed
      BY LoopAwaits
    <2> SUFFICES ASSUME NEW p \in Path, NEW r \in last..job.listed,
                        Alone(repository, last, job.listed, p),
                        repository[job.listed].tree[p] = 0, repository[r].tree[p] # 0
                 PROVE  Awaits(job', p) \/ HasNone(points', p)
      BY <2>2 DEF PurgeInv, Purges
    <2>3. Awaits(job, p) \/ HasNone(points, p)
      BY <2>1 DEF PurgeInv, Purges
    <2>4. CASE DeleteFile(f)
      BY <2>3, <2>4, LoopAwaits DEF DeleteFile, WithoutPath, HasNone
    <2>5. CASE DeleteOldPath(f)
      <3>1. Awaits(job, p) => Awaits(job', p)
        <4> DEFINE h == [f EXCEPT !.kind = "Added"]
        <4>1. job \in JobState /\ f \in ToDo
          BY RunFacts DEF JobState
        <4>2. h.path = f.path
          BY <4>1 DEF ToDo
        <4>3. job'.todo = (job.todo \ {f}) \cup {h}
          BY <2>5, <4>1 DEF DeleteOldPath, JobState
        <4> HIDE DEF h
        <4> QED
          BY <4>2, <4>3 DEF Awaits
      <3>2. points' \subseteq points
        BY <2>5 DEF DeleteOldPath, WithoutPath
      <3> QED
        BY <2>3, <3>1, <3>2 DEF HasNone
    <2>6. CASE ProcessFile(f)
      <3>1. ToldRight(repository, last, job.listed, f) /\ f.kind # "Deleted"
        BY <2>1, <2>6, NewPoint DEF RunInv, TodoInv
      <3>2. p # f.path
        BY <3>1 DEF ToldRight
      <3>3. points' = points \cup {<<f.path, Tree(job.revision)[f.path]>>}
        BY <2>6 DEF ProcessFile
      <3> QED
        BY <2>3, <3>2, <3>3, LoopAwaits DEF HasNone
    <2> QED
      BY <2>4, <2>5, <2>6
  <1> QED
    BY <1>1, <1>2

LEMMA CommitPurge == ASSUME RunInv, PurgeInv, CommitStep PROVE PurgeInv'
  <1>1. /\ \A r \in 1..Youngest : Tree(r)' = Tree(r)
        /\ UNCHANGED <<last, points, job>>
        /\ \A l, t \in Nat, p \in Path : Alone(repository', l, t, p) => Alone(repository, l, t, p)
    BY CommitKeeps DEF RunInv
  <1>2. Diffing => last \in 1..Youngest /\ job.listed \in last..Youngest
    BY RunFacts DEF RunInv, Bounds, JobState
  <1>3. ASSUME Diffing, NEW p \in Path, NEW r \in last..job.listed
        PROVE  /\ repository'[r].tree[p] = repository[r].tree[p]
               /\ repository'[job.listed].tree[p] = repository[job.listed].tree[p]
               /\ Alone(repository', last, job.listed, p) => Alone(repository, last, job.listed, p)
    <2>1. r \in 1..Youngest /\ job.listed \in 1..Youngest /\ last \in Nat /\ job.listed \in Nat
      BY <1>2, <1>3, RunFacts
    <2>2. \A t \in 1..Youngest : repository'[t].tree = repository[t].tree
      BY <1>1 DEF Tree
    <2> QED
      BY <1>1, <2>1, <2>2
  <1> QED
    BY <1>1, <1>3 DEF PurgeInv, Purges, Diffing

LEMMA PurgeInvNext == RunInv /\ PurgeInv /\ [Next]_vars => PurgeInv'
  <1> SUFFICES ASSUME RunInv, PurgeInv, [Next]_vars PROVE PurgeInv'
    OBVIOUS
  <1>1. CASE CommitStep
    BY <1>1, CommitPurge
  <1>2. CASE Update \/ UNCHANGED vars
    BY <1>2 DEF Update, vars, PurgeInv, Purges, Diffing
  <1>3. CASE GetChangedFilesSince
    BY <1>3, StartPurge
  <1>4. CASE \E f \in job.todo : DeleteFile(f) \/ DeleteOldPath(f) \/ ProcessFile(f)
    BY <1>4, LoopPurge
  <1>5. CASE GetCurrentRevision
    <2>1. /\ job.pc = "toRevision" /\ job'.full = job.full /\ job'.listed = job.listed
          /\ job'.todo = job.todo /\ UNCHANGED <<repository, last, points>>
      BY <1>5, RunFacts DEF GetCurrentRevision, JobState
    <2> QED
      BY <2>1 DEF PurgeInv, Purges, Diffing, Awaits
  <1>6. CASE StartFull \/ GetFilesAtHead \/ SaveCheckpoint \/ ClearCheckpoint
    <2>1. job'.full
      <3>1. job \in JobState /\ (job.pc \in {"list", "save"} => job.full)
        BY RunFacts DEF RunInv, Phases
      <3> QED
        BY <1>6, <3>1 DEF StartFull, GetFilesAtHead, SaveCheckpoint, ClearCheckpoint, JobState, Idle
    <2> QED
      BY <2>1 DEF PurgeInv, Diffing
  <1>7. CASE SetLastIndexedRevision \/ Abort \/ \E f \in job.todo : ProcessFileThrows(f)
    <2>1. job' = Idle
      BY <1>7 DEF SetLastIndexedRevision, Abort, ProcessFileThrows
    <2> QED
      BY <2>1 DEF PurgeInv, Diffing, Idle
  <1> QED
    BY <1>1, <1>2, <1>3, <1>4, <1>5, <1>6, <1>7 DEF Next, User, Step, CommitStep

\* An incremental run that ends well has purged every file that was there since the
\* revision before and was deleted by itself, with what runs that were cut off have
\* left of it.
THEOREM DeletedFilesAlwaysPurged == Spec => DeletedFilesPurged
  <1>1. ASSUME RunInv, PurgeInv, SetLastIndexedRevision, ~job.full
        PROVE  \A p \in Path \ Live(job.listed) :
                 /\ \E r \in last..job.listed : p \in Live(r)
                 /\ \A x \in Logged(last) : x[1] <= job.listed => ItemAt(x).path \notin Above[p]
                 => \A x \in points : x[1] # p
    <2>1. job.pc = "loop" /\ job.todo = {}
      BY <1>1 DEF SetLastIndexedRevision, LoopDone, RunInv, Phases
    <2> SUFFICES ASSUME NEW p \in Path \ Live(job.listed), NEW r \in last..job.listed, p \in Live(r),
                        \A x \in Logged(last) :
                          x[1] <= job.listed => ItemAt(x).path \notin Above[p]
                 PROVE  HasNone(points, p)
      BY DEF HasNone
    <2>2. Alone(repository, last, job.listed, p)
      <3>1. last \in Nat
        BY <1>1, RunFacts
      <3> QED
        BY <1>1, <3>1, RunFacts, LoggedPlaces DEF Alone
    <2>3. Diffing
      BY <1>1, <2>1 DEF Diffing
    <2>4. repository[job.listed].tree[p] = 0 /\ repository[r].tree[p] # 0
      BY DEF Live, Tree
    <2> QED
      BY <1>1, <2>1, <2>2, <2>3, <2>4 DEF PurgeInv, Purges, Awaits
  <1>2. Init => PurgeInv
    BY DEF Init, Idle, PurgeInv, Diffing
  <1> QED
    BY <1>1, <1>2, RunInvariant, PurgeInvNext, PTL DEF Spec, DeletedFilesPurged
-----------------------------------------------------------------------------
(* What is recorded as indexed is in the store.                                    *)
(*                                                                                 *)
(* The argument: a run deletes only what was last named as deleted or was copied from, *)
(* so the point of a stable file stays.  An incremental run starts with the points of *)
(* what has not changed since the last indexed revision and awaits the rest of its  *)
(* target, unless it is doomed: a file that changed with a directory is not named,  *)
(* but the directory is, and the run throws when it comes to it.  A full run starts *)
(* with what the checkpoint vouches for and awaits the rest, because the file it    *)
(* resumes after is still listed.                                                   *)

Quiet == ~RacingReads /\ KeepsResumeFile

Has(h, P, p) == <<p, Now(h, p)>> \in P

Stores(h, P, r) == \A p \in Stable(h, r) : Has(h, P, p)

\* A run that cannot end well: a directory is to be read.
Doomed(s) == \E f \in s.todo : f.path \in Directory /\ f.kind # "Deleted"

Covers(h, P, s, r) == Doomed(s) \/ \A p \in Stable(h, r) : Has(h, P, p) \/ Awaits(s, p)

LastStored(h, P, l) == l # 0 => Stores(h, P, l)

CheckpointStored(h, P, cp) ==
  cp.revision # 0 =>
    /\ cp.file \in Path \ Directory /\ Now(h, cp.file) # 0
    /\ \A p \in Stable(h, cp.revision) : p <= cp.file => Has(h, P, p)

JobStored(h, P, cp, copy, s) ==
  /\ s.pc = "toRevision" => copy <= s.listed /\ Covers(h, P, s, copy)
  /\ s.pc = "list" /\ s.resume # NoPath => cp.revision = s.to /\ cp.file = s.resume
  /\ s.pc = "loop" /\ ~s.full => s.to <= s.listed
  /\ s.pc \in {"loop", "save", "commit"} => Covers(h, P, s, s.to)
  /\ s.pc = "save" => /\ s.path \notin Directory /\ Now(h, s.path) # 0
                      /\ \A f \in s.todo : s.path < f.path

StoredInv ==
  /\ LastStored(repository, points, last)
  /\ CheckpointStored(repository, points, checkpoint)
  /\ JobStored(repository, points, checkpoint, workingCopy, job)

LEMMA HistoryFacts ==
  ASSUME History
  PROVE  /\ Len(repository) = Youngest /\ Youngest \in Nat /\ Youngest >= 1
         /\ Revisions(repository) = 1..Youngest /\ Coherent(repository)
         /\ \A p \in Path : Tree(Youngest)[p] = Now(repository, p)
         /\ \A p \in Path : p \in Live(Youngest) <=> Now(repository, p) # 0
         /\ \A p \in Path : p \in Files(Youngest) <=> Now(repository, p) # 0 /\ p \notin Directory
  BY DEF History, Youngest, Revision, Revisions, Now, Tree, Live, Files

\* A stable file has its content at every revision since.
LEMMA StableBetween ==
  ASSUME History, NEW r \in 1..Youngest, NEW t \in r..Youngest, NEW p \in Stable(repository, r)
  PROVE  /\ p \in Path /\ Tree(t)[p] = Now(repository, p) /\ p \in Live(t)
         /\ p \in Stable(repository, t) /\ p \notin CopiedFrom
  <1>1. /\ p \in Path \ (Directory \cup Copied(repository) \cup LastGone(repository))
        /\ Now(repository, p) # 0 /\ repository[r].tree[p] = Now(repository, p)
    BY DEF Stable
  <1>2. Kept(repository, r, Youngest, p)
    BY <1>1, HistoryFacts DEF Kept, Now
  <1>3. r \in Revisions(repository) /\ t \in Revisions(repository) /\ r <= t /\ t <= Youngest
        /\ Youngest \in Revisions(repository)
    BY HistoryFacts
  <1>4. Kept(repository, r, t, p)
    BY <1>1, <1>2, <1>3, HistoryFacts DEF Coherent, NeverBack
  <1> QED
    BY <1>1, <1>4, CopiedFromIs DEF Kept, Tree, Live, Stable

\* Deleting keeps the point of a stable file.
LEMMA DeleteKeeps ==
  ASSUME RunInv, NEW f \in job.todo, DeleteFile(f) \/ DeleteOldPath(f),
         NEW r \in 1..Youngest, r <= job.listed, NEW p \in Stable(repository, r)
  PROVE  /\ p # f.path \/ f.kind # "Deleted"
         /\ Has(repository, points, p) => Has(repository, points', p)
  <1>1. Diffing
    BY DEF RunInv, TodoInv, DeleteFile, DeleteOldPath, IsNext, Diffing
  <1>2. job.listed \in r..Youngest
    BY RunFacts DEF JobState
  <1>3. p \in Live(job.listed) /\ p \notin CopiedFrom
    BY <1>2, RunFacts, StableBetween
  <1>r. ToldRight(repository, last, job.listed, f)
    BY <1>1 DEF RunInv, TodoInv
  <1>4. CASE DeleteFile(f)
    <2>1. f.kind = "Deleted"
      BY <1>4 DEF DeleteFile
    <2>2. p # f.path
      <3>1. r \in 1..job.listed
        BY <1>2
      <3> QED
        BY <1>r, <2>1, <3>1 DEF ToldRight
    <2> QED
      BY <1>4, <2>2 DEF DeleteFile, WithoutPath, Has
  <1>5. CASE DeleteOldPath(f)
    <2>1. f.kind = "Renamed" /\ f.oldPath \in CopiedFrom
      BY <1>5, <1>r, RunFacts, CopiedFromIs DEF DeleteOldPath, ToldRight
    <2> QED
      BY <1>3, <1>5, <2>1 DEF DeleteOldPath, WithoutPath, Has
  <1> QED
    BY <1>4, <1>5

\* A step that keeps the points of stable files keeps what the records vouch for.
LEMMA RecordsStay ==
  ASSUME RunInv, StoredInv, UNCHANGED <<repository, last, checkpoint>>,
         \A r \in {last, checkpoint.revision} :
           r # 0 => \A p \in Stable(repository, r) :
                      Has(repository, points, p) => Has(repository, points', p)
  PROVE  /\ LastStored(repository', points', last')
         /\ CheckpointStored(repository', points', checkpoint')
  BY DEF StoredInv, LastStored, CheckpointStored, Stores

\* A doomed run stays doomed, whatever it deletes and processes before it throws.
LEMMA DoomedStays ==
  ASSUME RunInv, Doomed(job), NEW f \in job.todo,
         DeleteFile(f) \/ DeleteOldPath(f) \/ ProcessFile(f)
  PROVE  Doomed(job')
  <1>1. job \in JobState /\ f \in ToDo
    BY RunFacts DEF JobState
  <1>2. PICK g \in job.todo : g.path \in Directory /\ g.kind # "Deleted"
    BY DEF Doomed
  <1>3. CASE DeleteFile(f)
    <2>1. job'.todo = job.todo \ {f} /\ g # f
      BY <1>1, <1>2, <1>3 DEF DeleteFile, JobState
    <2> QED
      BY <1>2, <2>1 DEF Doomed
  <1>4. CASE DeleteOldPath(f)
    <2> DEFINE h == [f EXCEPT !.kind = "Added"]
    <2>1. job'.todo = (job.todo \ {f}) \cup {h}
      BY <1>1, <1>4 DEF DeleteOldPath, JobState
    <2>2. h.path = f.path /\ h.kind = "Added"
      BY <1>1 DEF ToDo
    <2> HIDE DEF h
    <2>3. g \in job'.todo \/ (g = f /\ h \in job'.todo)
      BY <2>1
    <2> QED
      BY <1>2, <2>2, <2>3 DEF Doomed
  <1>5. CASE ProcessFile(f)
    <2>1. job'.todo = job.todo \ {f} /\ f.path \notin Directory
      BY <1>1, <1>5 DEF ProcessFile, Readable, Files, JobState
    <2> QED
      BY <1>2, <2>1 DEF Doomed
  <1> QED
    BY <1>3, <1>4, <1>5

LEMMA DeleteStored ==
  ASSUME RunInv, StoredInv, NEW f \in job.todo, DeleteFile(f) \/ DeleteOldPath(f)
  PROVE  StoredInv'
  <1>1. /\ Diffing /\ job.pc = "loop" /\ ~job.full
    BY DEF RunInv, TodoInv, DeleteFile, DeleteOldPath, IsNext, Diffing
  <1>2. /\ last <= job.listed /\ checkpoint.revision <= job.listed /\ job.to <= job.listed
        /\ job.to \in 1..Youngest
        /\ last \in 1..Youngest /\ checkpoint.revision \in 0..Youngest
    BY <1>1, RunFacts DEF RunInv, Bounds, Phases, StoredInv, JobStored, JobState
  <1>3. LastStored(repository', points', last') /\ CheckpointStored(repository', points', checkpoint')
    BY <1>2, DeleteKeeps, LoopAwaits, RecordsStay
  <1>4. Covers(repository, points, job, job.to)
    BY <1>1 DEF StoredInv, JobStored
  <1>5. ASSUME ~Doomed(job'), NEW p \in Stable(repository, job.to)
        PROVE  Has(repository, points', p) \/ Awaits(job', p)
    <2>0. ~Doomed(job)
      BY <1>5, DoomedStays
    <2>1. p \in Path
      BY DEF Stable
    <2>2. CASE p # f.path
      BY <1>2, <1>4, <2>0, <2>1, <2>2, DeleteKeeps, LoopAwaits DEF Covers
    <2>3. CASE p = f.path
      <3>1. DeleteOldPath(f)
        BY <1>2, <2>3, DeleteKeeps DEF DeleteFile
      <3> DEFINE h == [f EXCEPT !.kind = "Added"]
      <3>2. job \in JobState /\ f \in ToDo
        BY RunFacts DEF JobState
      <3>3. h.path = f.path
        BY <3>2 DEF ToDo
      <3>4. h \in job'.todo
        BY <3>1, <3>2 DEF DeleteOldPath, JobState
      <3> HIDE DEF h
      <3> QED
        BY <2>3, <3>3, <3>4 DEF Awaits
    <2> QED
      BY <2>2, <2>3
  <1>6. job'.pc = "loop" /\ ~job'.full /\ job'.to = job.to /\ job'.listed = job.listed
    BY <1>1, LoopAwaits, RunFacts DEF DeleteFile, DeleteOldPath, JobState
  <1>7. repository' = repository
    BY LoopAwaits
  <1>8. JobStored(repository', points', checkpoint', workingCopy', job')
    BY <1>2, <1>5, <1>6, <1>7 DEF JobStored, Covers
  <1> QED
    BY <1>3, <1>8 DEF StoredInv

LEMMA ProcessStored ==
  ASSUME RunInv, StoredInv, NEW f \in job.todo, ProcessFile(f)
  PROVE  StoredInv'
  <1>1. /\ job \in JobState /\ f \in ToDo /\ job.pc = "loop"
        /\ points' = points \cup {<<f.path, Tree(job.revision)[f.path]>>}
        /\ job'.pc = IF job.full THEN "save" ELSE "loop"
        /\ job'.path = IF job.full THEN f.path ELSE NoPath
        /\ job'.todo = job.todo \ {f}
    BY RunFacts, LoopAwaits DEF ProcessFile, JobState
  <1>2. /\ job'.full = job.full /\ job'.listed = job.listed /\ job'.to = job.to
        /\ UNCHANGED <<repository, workingCopy, last, checkpoint>>
    BY LoopAwaits
  <1>3. LastStored(repository', points', last') /\ CheckpointStored(repository', points', checkpoint')
    BY <1>1, <1>2, RecordsStay DEF Has
  <1>4. job.to \in 1..Youngest /\ job.revision \in job.to..Youngest
    BY <1>1, NewPoint, RunFacts DEF RunInv, Phases, Bounds, Diffing, Listing, JobState
  <1>5. ASSUME ~Doomed(job'), NEW p \in Stable(repository, job.to)
        PROVE  Has(repository, points', p) \/ Awaits(job', p)
    <2>0. ~Doomed(job)
      BY <1>5, DoomedStays
    <2>1. p \in Path /\ Tree(job.revision)[p] = Now(repository, p)
      BY <1>4, RunFacts, StableBetween
    <2>2. Has(repository, points, p) \/ Awaits(job, p)
      BY <1>1, <2>0 DEF StoredInv, JobStored, Covers
    <2>3. CASE p = f.path
      BY <1>1, <2>1, <2>3 DEF Has
    <2> QED
      BY <1>1, <2>1, <2>2, <2>3, LoopAwaits DEF Has
  <1>6. job.full => \A g \in job'.todo : f.path < g.path
    <2> SUFFICES ASSUME job.full, NEW g \in job.todo, g # f PROVE f.path < g.path
      BY <1>1
    <2>1. Earlier(f.place, g.place)
      BY DEF ProcessFile, ToProcess, IsNext
    <2>2. f.place = <<0, f.path>> /\ g.place = <<0, g.path>>
      BY DEF RunInv, TodoInv
    <2> QED
      BY <2>1, <2>2 DEF Earlier
  <1>7. Now(repository, f.path) # 0 /\ f.path \notin Directory
    BY NewPoint, RunFacts, HistoryFacts DEF ProcessFile, Readable, Files
  <1>8. JobStored(repository', points', checkpoint', workingCopy', job')
    <2>1. job.pc = "loop" /\ ~job.full => job.to <= job.listed
      BY DEF StoredInv, JobStored
    <2> QED
      BY <1>1, <1>2, <1>5, <1>6, <1>7, <2>1 DEF JobStored, Covers
  <1> QED
    BY <1>3, <1>8 DEF StoredInv

LEMMA StartDiffStored == ASSUME RunInv, StoredInv, GetChangedFilesSince PROVE StoredInv'
  <1>1. /\ last # 0 /\ last < Youngest /\ job'.listed = Youngest /\ job'.todo = Changes(last)
        /\ job'.pc = "toRevision"
        /\ UNCHANGED <<repository, workingCopy, last, checkpoint, points>>
    BY DEF GetChangedFilesSince, Idle
  <1>2. last \in 1..Youngest /\ last \in last..Youngest /\ workingCopy \in 1..Youngest
    BY <1>1, RunFacts
  <1>3. ASSUME NEW p \in Stable(repository, workingCopy), ~Doomed(job'), ~Awaits(job', p)
        PROVE  Has(repository, points, p)
    <2>1. /\ p \in Path \ (Directory \cup Copied(repository) \cup LastGone(repository))
          /\ Now(repository, p) # 0 /\ Tree(Youngest)[p] = Now(repository, p)
      BY RunFacts, HistoryFacts DEF Stable
    <2>2. Tree(last)[p] = Tree(Youngest)[p]
      <3> SUFFICES ASSUME Tree(last)[p] # Tree(Youngest)[p] PROVE FALSE
        OBVIOUS
      <3>1. PICK f \in Changes(last) : f.path \in Above[p] /\ f.kind # "Deleted"
        BY <1>1, <1>2, <1>3, <2>1, RunFacts, ChangedBelow DEF Awaits
      <3>2. f.path \in Directory
        BY <2>1, <3>1, TreeAssumption
      <3> QED
        BY <1>1, <1>3, <3>1, <3>2 DEF Doomed
    <2>3. p \in Stable(repository, last)
      BY <2>1, <2>2 DEF Stable, Tree
    <2> QED
      BY <1>1, <2>3 DEF StoredInv, LastStored, Stores
  <1> QED
    BY <1>1, <1>2, <1>3 DEF StoredInv, JobStored, Covers

LEMMA CurrentRevisionStored == ASSUME RunInv, StoredInv, GetCurrentRevision PROVE StoredInv'
  <1>1. /\ job.pc = "toRevision" /\ job'.pc = "loop" /\ job'.full = job.full
        /\ job'.listed = job.listed /\ job'.todo = job.todo /\ job'.to = workingCopy
        /\ UNCHANGED <<repository, workingCopy, last, checkpoint, points>>
    BY RunFacts DEF GetCurrentRevision, JobState
  <1> QED
    BY <1>1 DEF StoredInv, JobStored, Covers, Awaits, Doomed

LEMMA StartFullStored == ASSUME RunInv, StoredInv, StartFull PROVE StoredInv'
  <1>1. /\ job'.pc = "list" /\ job'.to = workingCopy
        /\ job'.resume = IF checkpoint.revision = workingCopy THEN checkpoint.file ELSE NoPath
        /\ UNCHANGED <<repository, workingCopy, last, checkpoint, points>>
    BY DEF StartFull, Idle
  <1> QED
    BY <1>1 DEF StoredInv, JobStored

LEMMA ListStored == ASSUME RunInv, StoredInv, GetFilesAtHead PROVE StoredInv'
  <1> DEFINE due == FilesToProcess(job.resume, Files(Youngest))
  <1>1. /\ job.pc = "list" /\ job'.pc = "loop" /\ job'.full = job.full /\ job'.to = job.to
        /\ job'.todo = {ChangedFile(p, "Added", NoPath, <<0, p>>) : p \in due}
        /\ UNCHANGED <<repository, workingCopy, last, checkpoint, points>>
    BY RunFacts DEF GetFilesAtHead, JobState
  <1>2. job.full /\ 1 <= job.to /\ job.to \in Nat
    BY <1>1, RunFacts DEF RunInv, Phases, JobState
  <1>3. \A p \in due : Awaits(job', p)
    <2> SUFFICES ASSUME NEW p \in due PROVE Awaits(job', p)
      OBVIOUS
    <2> DEFINE g == ChangedFile(p, "Added", NoPath, <<0, p>>)
    <2>1. g \in job'.todo /\ g.path = p
      BY <1>1 DEF ChangedFile
    <2> HIDE DEF g
    <2> QED
      BY <2>1 DEF Awaits
  <1>4. ASSUME NEW p \in Stable(repository, job.to), p \notin due
        PROVE  Has(repository, points, p)
    <2>1. p \in Files(Youngest) /\ p \in Nat
      BY RunFacts, HistoryFacts DEF Stable
    <2>2. job.resume # NoPath /\ (job.resume \in Files(Youngest) => ~(p > job.resume))
      BY <1>4, <2>1 DEF FilesToProcess
    <2>3. checkpoint.revision = job.to /\ checkpoint.file = job.resume
      BY <1>1, <2>2 DEF StoredInv, JobStored
    <2>4. /\ checkpoint.file \in Path \ Directory /\ Now(repository, checkpoint.file) # 0
          /\ p <= checkpoint.file => Has(repository, points, p)
      BY <1>2, <2>3 DEF StoredInv, CheckpointStored
    <2>5. job.resume \in Files(Youngest)
      BY <2>3, <2>4, RunFacts, HistoryFacts
    <2>6. checkpoint.file \in Nat /\ ~(p > checkpoint.file)
      BY <2>2, <2>3, <2>4, <2>5
    <2>7. p <= checkpoint.file
      BY <2>1, <2>6
    <2> QED
      BY <2>4, <2>7
  <1> HIDE DEF due
  <1> QED
    BY <1>1, <1>2, <1>3, <1>4 DEF StoredInv, JobStored, Covers

LEMMA SaveStored == ASSUME RunInv, StoredInv, SaveCheckpoint PROVE StoredInv'
  <1>1. /\ job.pc = "save" /\ job'.pc = "loop" /\ job'.full = job.full /\ job'.to = job.to
        /\ job'.todo = job.todo /\ checkpoint' = [revision |-> job.to, file |-> job.path]
        /\ UNCHANGED <<repository, workingCopy, last, points>>
    BY RunFacts DEF SaveCheckpoint, JobState
  <1>2. job.full /\ job.path \in Path
    BY <1>1 DEF RunInv, Phases
  <1>3. ASSUME NEW p \in Stable(repository, job.to), p <= job.path
        PROVE  Has(repository, points, p)
    <2>1. p \in Nat /\ job.path \in Nat
      BY <1>2 DEF Stable
    <2>2. ~Awaits(job, p)
      BY <1>1, <1>3, <2>1 DEF StoredInv, JobStored, Awaits
    <2>3. ~Doomed(job)
      BY <1>2 DEF RunInv, TodoInv, Doomed
    <2> QED
      BY <1>1, <2>2, <2>3 DEF StoredInv, JobStored, Covers
  <1>4. CheckpointStored(repository', points', checkpoint')
    BY <1>1, <1>2, <1>3 DEF CheckpointStored, StoredInv, JobStored
  <1> QED
    BY <1>1, <1>2, <1>4 DEF StoredInv, JobStored, Covers, Awaits, Doomed

LEMMA ClearStored == ASSUME RunInv, StoredInv, ClearCheckpoint PROVE StoredInv'
  <1>1. /\ job.pc = "loop" /\ job'.pc = "commit" /\ job'.to = job.to
        /\ job'.todo = job.todo /\ checkpoint'.revision = 0
        /\ UNCHANGED <<repository, workingCopy, last, points>>
    BY RunFacts DEF ClearCheckpoint, LoopDone, NoCheckpoint, JobState
  <1> QED
    BY <1>1 DEF StoredInv, CheckpointStored, JobStored, Covers, Awaits, Doomed

LEMMA LastStoredNext == ASSUME RunInv, StoredInv, SetLastIndexedRevision PROVE StoredInv'
  <1>1. /\ job.pc \in {"loop", "commit"} /\ job.todo = {} /\ last' = job.to
        /\ checkpoint'.revision = 0 /\ job'.pc = "idle"
        /\ UNCHANGED <<repository, points>>
    BY DEF SetLastIndexedRevision, LoopDone, NoCheckpoint, Idle, RunInv, Phases
  <1>2. Stores(repository, points, job.to)
    BY <1>1 DEF StoredInv, JobStored, Covers, Awaits, Doomed, Stores
  <1> QED
    BY <1>1, <1>2 DEF StoredInv, LastStored, CheckpointStored, JobStored

LEMMA CommitStored == ASSUME Quiet, RunInv, StoredInv, CommitStep PROVE StoredInv'
  <1> DEFINE h == repository
             g == repository'
  <1>1. /\ \A r \in 1..Youngest : \A p \in Stable(g, r) :
             p \in Stable(h, r) /\ Now(g, p) = Now(h, p)
        /\ \A p \in Live(Youngest) \cap {checkpoint.file, job.path} : p \in Live(Youngest)'
        /\ UNCHANGED <<workingCopy, last, checkpoint, points, job>>
    BY CommitKeeps DEF RunInv, Quiet
  <1>2. \A p \in Path : p \in Live(Youngest)' => Now(g, p) # 0
    BY DEF Live, Tree, Now, Youngest
  <1> HIDE DEF g
  <1>3. \A r \in 1..Youngest :
          /\ Stores(h, points, r) => Stores(g, points, r)
          /\ Covers(h, points, job, r) => Covers(g, points, job, r)
    BY <1>1 DEF Stores, Covers, Has
  <1>4. LastStored(g, points, last)
    BY <1>3, RunFacts DEF StoredInv, LastStored
  <1>5. CheckpointStored(g, points, checkpoint)
    <2> SUFFICES ASSUME checkpoint.revision # 0 PROVE CheckpointStored(g, points, checkpoint)
      BY DEF CheckpointStored
    <2>1. checkpoint.revision \in 1..Youngest
      BY RunFacts
    <2>2. checkpoint.file \in Path \ Directory /\ checkpoint.file \in Live(Youngest)
      BY RunFacts, HistoryFacts DEF StoredInv, CheckpointStored
    <2>3. Now(g, checkpoint.file) # 0
      BY <1>1, <1>2, <2>2
    <2>4. \A p \in Stable(g, checkpoint.revision) : p <= checkpoint.file => Has(g, points, p)
      BY <1>1, <2>1 DEF StoredInv, CheckpointStored, Has
    <2> QED
      BY <2>2, <2>3, <2>4 DEF CheckpointStored
  <1>6. JobStored(g, points, checkpoint, workingCopy, job)
    <2>1. job.pc \in {"loop", "save", "commit"} => job.to \in 1..Youngest
      BY RunFacts DEF RunInv, Phases, JobState
    <2>2. job.pc = "save" => Now(g, job.path) # 0
      <3> SUFFICES ASSUME job.pc = "save" PROVE Now(g, job.path) # 0
        OBVIOUS
      <3>1. job.path \in Path /\ job.path \in Live(Youngest)
        BY RunFacts, HistoryFacts DEF RunInv, Phases, StoredInv, JobStored
      <3> QED
        BY <1>1, <1>2, <3>1
    <2> QED
      BY <1>3, <2>1, <2>2, RunFacts DEF StoredInv, JobStored
  <1> QED
    BY <1>1, <1>4, <1>5, <1>6 DEF StoredInv, g

LEMMA StoredInvNext == Quiet => (RunInv /\ StoredInv /\ [Next]_vars => StoredInv')
  <1> SUFFICES ASSUME Quiet, RunInv, StoredInv, [Next]_vars PROVE StoredInv'
    OBVIOUS
  <1>1. CASE CommitStep
    BY <1>1, CommitStored
  <1>2. CASE Update
    BY <1>2 DEF Update, Quiet, StoredInv, JobStored
  <1>3. CASE UNCHANGED vars
    BY <1>3 DEF vars, StoredInv
  <1>4. CASE GetChangedFilesSince \/ StartFull
    BY <1>4, StartDiffStored, StartFullStored
  <1>5. CASE Step /\ ~(\E f \in job.todo : ProcessFileThrows(f))
    BY <1>5, CurrentRevisionStored, ListStored, DeleteStored, ProcessStored, SaveStored,
       ClearStored, LastStoredNext DEF Step
  <1>6. CASE Abort \/ \E f \in job.todo : ProcessFileThrows(f)
    BY <1>6 DEF Abort, ProcessFileThrows, StoredInv, JobStored, Idle
  <1> QED
    BY <1>1, <1>2, <1>3, <1>4, <1>5, <1>6 DEF Next, User, CommitStep

\* When the working copy stays between the log and its revision, and commits do not
\* delete the file a checkpoint names: a file that has not changed since the last
\* indexed revision, was never copied from and is not back with its directory is
\* searchable, wherever runs were cut off and whatever directories were changed.
THEOREM IndexedAlwaysSearchable == Quiet => (Spec => []IndexedIsSearchable)
  <1> SUFFICES ASSUME Quiet PROVE Spec => []IndexedIsSearchable
    OBVIOUS
  <1>1. RunInv /\ StoredInv => IndexedIsSearchable
    <2> SUFFICES ASSUME RunInv, StoredInv, last # 0,
                        NEW p \in Files(Youngest) \ (CopiedFrom \cup LastDeleted),
                        Tree(last)[p] = Tree(Youngest)[p]
                 PROVE  <<p, Tree(Youngest)[p]>> \in points
      BY DEF IndexedIsSearchable
    <2>1. p \in Path \ Directory
      BY DEF Files, Live
    <2>2. p \in Stable(repository, last)
      <3>1. p \notin Copied(repository) /\ p \notin LastGone(repository)
        BY RunFacts, CopiedFromIs, LastDeletedIs
      <3> QED
        BY <2>1, <3>1, RunFacts, HistoryFacts DEF Stable, Tree
    <2> QED
      BY <2>1, <2>2, RunFacts, HistoryFacts DEF StoredInv, LastStored, Stores, Has
  <1>2. Init => StoredInv
    BY DEF Init, Idle, NoCheckpoint, StoredInv, LastStored, CheckpointStored, JobStored
  <1>3. RunInv /\ StoredInv /\ [Next]_vars => StoredInv'
    BY StoredInvNext
  <1> QED
    BY <1>1, <1>2, <1>3, RunInvariant, PTL DEF Spec
=============================================================================
