---------------------------- MODULE RecipesProofs ----------------------------
(***************************************************************************)
(* What recipe_service.py promises about the versions of a recipe, for any *)
(* number of workers, recipes and requests.  Versions change under the     *)
(* lock of their recipe only, so that what a session has read when it took *)
(* the lock is what it writes back to; and one request on well-formed      *)
(* versions leaves them well formed.                                       *)
(***************************************************************************)
EXTENDS Recipes, SequenceTheorems, FiniteSetTheorems, TLAPS

Servings == {q.servings : q \in Request}
Lines == {q.lines : q \in Request} \cup {Empty}
States == {"draft", "published", "archived"}
VersionRow == [number : Nat, servings : Servings, lines : Lines, state : States]

\* The versions of one recipe: numbered in order, and at most one published.
WellFormed(v) ==
  /\ v \in Seq(VersionRow)
  /\ \A i \in 1..Len(v) : v[i].number = i
  /\ \A i, j \in 1..Len(v) : v[i].state = "published" /\ v[j].state = "published" => i = j

\* What has left draft stays as it is or is archived.
Kept(v, w) ==
  \A i \in 1..Len(v) :
    v[i].state # "draft" => w[i] \in {v[i], [v[i] EXCEPT !.state = "archived"]}
-----------------------------------------------------------------------------
(***************************************************************************)
(* One request on the versions of one recipe.                              *)
(***************************************************************************)
LEMMA LatestIsLast ==
  ASSUME NEW v, WellFormed(v), Len(v) > 0 PROVE Latest(v) = Len(v)
<1>1. Len(v) \in 1..Len(v) /\ DOMAIN v = 1..Len(v) BY DEF WellFormed
<1>2. \A j \in DOMAIN v : v[j].number <= v[Len(v)].number BY <1>1 DEF WellFormed
<1>3. \A i \in DOMAIN v : (\A j \in DOMAIN v : v[j].number <= v[i].number) => i = Len(v)
  BY <1>1 DEF WellFormed
<1> QED BY <1>1, <1>2, <1>3 DEF Latest

\* A draft at the end.
LEMMA DraftAppended ==
  ASSUME NEW v, WellFormed(v), NEW d \in VersionRow, d.number = Len(v) + 1, d.state = "draft"
  PROVE  /\ WellFormed(Append(v, d))
         /\ Len(Append(v, d)) = Len(v) + 1
         /\ Append(v, d)[Len(v) + 1] = d
         /\ \A i \in 1..Len(v) : Append(v, d)[i] = v[i]
<1> DEFINE w == Append(v, d)
<1>1. /\ w \in Seq(VersionRow) /\ Len(w) = Len(v) + 1 /\ Len(v) \in Nat
      /\ w[Len(v) + 1] = d /\ \A i \in 1..Len(v) : w[i] = v[i]
  BY DEF WellFormed
<1> HIDE DEF w
<1>2. WellFormed(w) BY <1>1 DEF WellFormed
<1> QED BY <1>1, <1>2 DEF w

LEMMA DraftCopied ==
  ASSUME NEW row \in VersionRow
  PROVE  LET d == [row EXCEPT !.number = @ + 1, !.state = "draft"] IN
         d \in VersionRow /\ d.number = row.number + 1 /\ d.state = "draft"
<1>1. [row EXCEPT !.number = row.number + 1] \in VersionRow BY DEF VersionRow
<1> QED BY <1>1 DEF VersionRow, States

LEMMA EditableIsDraft ==
  ASSUME NEW v, WellFormed(v), Len(v) > 0
  PROVE  LET w == Editable(v) IN
         /\ WellFormed(w) /\ Len(w) >= Len(v) /\ Len(w) > 0
         /\ w[Len(w)].state = "draft"
         /\ \A i \in 1..Len(v) : w[i] = v[i]
<1> DEFINE last == v[Len(v)]
<1>1. Latest(v) = Len(v) BY LatestIsLast
<1>2. last \in VersionRow /\ last.number = Len(v) /\ Len(v) \in Nat BY DEF WellFormed
<1>3. CASE last.state = "draft"
  BY <1>1, <1>2, <1>3 DEF Editable
<1>4. CASE last.state # "draft"
  <2> DEFINE d == [last EXCEPT !.number = @ + 1, !.state = "draft"]
  <2>1. d \in VersionRow /\ d.number = Len(v) + 1 /\ d.state = "draft"
    BY <1>2, DraftCopied
  <2>2. Editable(v) = Append(v, d) BY <1>1, <1>4 DEF Editable
  <2> HIDE DEF d
  <2>3. /\ WellFormed(Append(v, d)) /\ Len(Append(v, d)) = Len(v) + 1
        /\ Append(v, d)[Len(v) + 1] = d /\ \A i \in 1..Len(v) : Append(v, d)[i] = v[i]
    BY <2>1, DraftAppended
  <2> QED BY <1>2, <2>1, <2>2, <2>3
<1> QED BY <1>3, <1>4

\* A draft is published: the one that was published before is archived.
LEMMA PublishedOne ==
  ASSUME NEW v, WellFormed(v), NEW i \in 1..Len(v), v[i].state = "draft"
  PROVE  LET w == Published(v, i) IN WellFormed(w) /\ Len(w) = Len(v) /\ Kept(v, w)
<1> DEFINE w == Published(v, i)
<1>1. DOMAIN v = 1..Len(v) /\ Len(v) \in Nat BY DEF WellFormed
<1>2. ASSUME NEW j \in 1..Len(v)
      PROVE  /\ v[j] \in VersionRow
             /\ w[j] \in VersionRow
             /\ w[j].number = v[j].number
             /\ w[j].state = "published" => j = i
             /\ v[j].state # "draft" => w[j] \in {v[j], [v[j] EXCEPT !.state = "archived"]}
  <2>1. v[j] \in VersionRow BY DEF WellFormed
  <2>2. w[j] = CASE j = i -> [v[j] EXCEPT !.state = "published"]
                 [] j # i /\ v[j].state = "published" -> [v[j] EXCEPT !.state = "archived"]
                 [] OTHER -> v[j]
    BY <1>1 DEF Published
  <2>3. CASE j = i BY <2>1, <2>2, <2>3 DEF VersionRow, States
  <2>4. CASE j # i /\ v[j].state = "published"
    <3>1. w[j] = [v[j] EXCEPT !.state = "archived"] BY <2>2, <2>4
    <3> QED BY <2>1, <2>4, <3>1 DEF VersionRow, States
  <2>5. CASE j # i /\ v[j].state # "published"
    <3>1. w[j] = v[j] BY <2>2, <2>5
    <3> QED BY <2>1, <2>5, <3>1 DEF VersionRow, States
  <2> QED BY <2>3, <2>4, <2>5
<1>3. DOMAIN w = 1..Len(v) BY <1>1 DEF Published
<1>4. w = [j \in 1..Len(v) |-> w[j]] BY <1>1 DEF Published
<1> HIDE DEF w
<1>5. w \in Seq(VersionRow) /\ Len(w) = Len(v) BY <1>1, <1>2, <1>3, <1>4
<1>6. WellFormed(w) BY <1>1, <1>2, <1>5 DEF WellFormed
<1>7. Kept(v, w) BY <1>2 DEF Kept
<1> QED BY <1>5, <1>6, <1>7 DEF w

\* Servings and lines of a draft.
Edited(v, i, s, l) == [v EXCEPT ![i].servings = s, ![i].lines = l]

LEMMA DraftEdited ==
  ASSUME NEW v, WellFormed(v), NEW i \in 1..Len(v), v[i].state = "draft",
         NEW s \in Servings, NEW l \in Lines
  PROVE  LET w == Edited(v, i, s, l) IN
         /\ WellFormed(w) /\ Len(w) = Len(v) /\ w[i].state = "draft"
         /\ \A j \in 1..Len(v) : j # i => w[j] = v[j]
<1> DEFINE d == [v[i] EXCEPT !.servings = s, !.lines = l]
           w == [v EXCEPT ![i] = d]
<1>1. v[i] \in VersionRow BY DEF WellFormed
<1>2. d \in VersionRow /\ d.number = v[i].number /\ d.state = "draft"
  BY <1>1 DEF VersionRow
<1>3. w = Edited(v, i, s, l) BY <1>1 DEF WellFormed, Edited
<1> HIDE DEF d
<1>4. /\ w \in Seq(VersionRow) /\ Len(w) = Len(v) /\ w[i] = d
      /\ \A j \in 1..Len(v) : j # i => w[j] = v[j]
  BY <1>2 DEF WellFormed
<1> HIDE DEF w
<1>5. WellFormed(w)
  <2>1. \A j \in 1..Len(v) : w[j].number = v[j].number /\ (w[j].state = "published" => v[j].state = "published")
    BY <1>2, <1>4
  <2> QED BY <1>4, <2>1 DEF WellFormed
<1> QED BY <1>2, <1>3, <1>4, <1>5

LEMMA RevisedKeeps ==
  ASSUME NEW v, WellFormed(v), Len(v) > 0, NEW q \in Request
  PROVE  LET w == Revised(v, q) IN WellFormed(w) /\ Len(w) >= Len(v) /\ Kept(v, w)
<1> DEFINE base == Editable(v)
           n == Len(base)
           s == Given(q.servings, base[n].servings)
           l == Given(q.lines, base[n].lines)
           edited == Edited(base, n, s, l)
<1>1. /\ WellFormed(base) /\ n >= Len(v) /\ n > 0 /\ base[n].state = "draft"
      /\ \A i \in 1..Len(v) : base[i] = v[i]
  BY EditableIsDraft
<1>2. Latest(base) = n BY <1>1, LatestIsLast
<1> HIDE DEF base
<1>3. n \in 1..n /\ base[n] \in VersionRow /\ n \in Nat /\ Len(v) \in Nat BY <1>1 DEF WellFormed
<1>4. s \in Servings /\ l \in Lines
  BY <1>3 DEF Given, Servings, Lines, VersionRow
<1>5. Revised(v, q) = IF q.publish THEN Published(edited, n) ELSE edited
  BY <1>1, <1>2, <1>3 DEF Revised, base, WellFormed, Edited
<1> HIDE DEF s, l
<1>6. /\ WellFormed(edited) /\ Len(edited) = n /\ edited[n].state = "draft"
      /\ \A i \in 1..n : i # n => edited[i] = base[i]
  BY <1>1, <1>3, <1>4, DraftEdited
<1> HIDE DEF edited
<1>7. ASSUME NEW i \in 1..Len(v), v[i].state # "draft" PROVE i \in 1..n /\ edited[i] = v[i]
  BY <1>1, <1>3, <1>6, <1>7
<1>8. CASE q.publish
  <2>1. LET w == Published(edited, n) IN WellFormed(w) /\ Len(w) = n /\ Kept(edited, w)
    BY <1>3, <1>6, PublishedOne
  <2> QED BY <1>1, <1>5, <1>6, <1>7, <1>8, <2>1 DEF Kept
<1>9. CASE ~q.publish BY <1>1, <1>5, <1>6, <1>7, <1>9 DEF Kept
<1> QED BY <1>8, <1>9

\* A new version is a draft without lines.
LEMMA NewDraft ==
  ASSUME NEW n \in Nat, NEW q \in Request
  PROVE  /\ Draft(n, q.servings, Empty) \in VersionRow
         /\ Draft(n, q.servings, Empty).number = n
         /\ Draft(n, q.servings, Empty).state = "draft"
<1>1. q.servings \in Servings BY DEF Servings
<1>2. Empty \in Lines BY DEF Lines
<1> QED BY <1>1, <1>2 DEF Draft, VersionRow, States

\* Every request leaves the versions well formed, and only adds to those that
\* have left draft or archives them.
LEMMA NewVersionsKeep ==
  ASSUME NEW v, WellFormed(v), Len(v) > 0, NEW q \in Request,
         q.op \in {"lines", "publish"} => IsDraft(v, q.version)
  PROVE  LET w == NewVersions(q, v) IN WellFormed(w) /\ Len(w) >= Len(v) /\ Kept(v, w)
<1>0. Len(v) \in Nat /\ DOMAIN v = 1..Len(v) BY DEF WellFormed
<1>1. CASE q.op = "version"
  <2> DEFINE d == Draft(Len(v) + 1, q.servings, Empty)
  <2>1. d \in VersionRow /\ d.number = Len(v) + 1 /\ d.state = "draft" BY <1>0, NewDraft
  <2>2. v[Latest(v)].number = Len(v) BY <1>0, LatestIsLast DEF WellFormed
  <2>3. NewVersions(q, v) = Append(v, d) BY <1>1, <2>2 DEF NewVersions, WithVersion
  <2> HIDE DEF d
  <2>4. /\ WellFormed(Append(v, d)) /\ Len(Append(v, d)) = Len(v) + 1
        /\ \A i \in 1..Len(v) : Append(v, d)[i] = v[i]
    BY <2>1, DraftAppended
  <2> QED BY <1>0, <2>3, <2>4 DEF Kept
<1>2. CASE q.op = "lines"
  <2> DEFINE i == q.version
  <2>1. i \in 1..Len(v) /\ v[i].state = "draft" BY <1>0, <1>2 DEF IsDraft
  <2>2. v[i] \in VersionRow /\ v[i].servings \in Servings /\ q.lines \in Lines
    <3>1. v[i] \in VersionRow BY <2>1 DEF WellFormed
    <3>2. q.lines \in Lines BY DEF Lines
    <3> QED BY <3>1, <3>2 DEF VersionRow
  <2>3. NewVersions(q, v) = [v EXCEPT ![i].lines = q.lines]
    BY <1>2 DEF NewVersions, WithLines
  <2> HIDE DEF i
  <2> DEFINE w == Edited(v, i, v[i].servings, q.lines)
  <2>4. [v EXCEPT ![i].lines = q.lines] = w
    <3>1. [v[i] EXCEPT !.servings = v[i].servings] = v[i] BY <2>2 DEF VersionRow
    <3>2. [v EXCEPT ![i] = [v[i] EXCEPT !.servings = v[i].servings]] = v
      BY <2>1, <3>1 DEF WellFormed
    <3> QED BY <3>2 DEF Edited
  <2>5. /\ WellFormed(w) /\ Len(w) = Len(v)
        /\ \A j \in 1..Len(v) : j # i => w[j] = v[j]
    BY <2>1, <2>2, DraftEdited
  <2> HIDE DEF w
  <2>6. NewVersions(q, v) = w BY <2>3, <2>4 DEF w, i
  <2> QED BY <1>0, <2>1, <2>5, <2>6 DEF Kept
<1>3. CASE q.op = "publish"
  <2>1. q.version \in 1..Len(v) /\ v[q.version].state = "draft"
    BY <1>0, <1>3 DEF IsDraft
  <2>2. NewVersions(q, v) = Published(v, q.version) BY <1>3 DEF NewVersions
  <2> QED BY <1>0, <2>1, <2>2, PublishedOne
<1>4. CASE q.op = "revise" \/ (q.op = "mcp_update" /\ HasContent(q))
  <2>1. NewVersions(q, v) = Revised(v, q) BY <1>4 DEF NewVersions
  <2> QED BY <2>1, RevisedKeeps
<1>5. CASE /\ q.op \notin {"version", "lines", "publish", "revise"}
           /\ ~(q.op = "mcp_update" /\ HasContent(q))
  <2>1. NewVersions(q, v) = v BY <1>5 DEF NewVersions
  <2> QED BY <1>0, <2>1 DEF Kept
<1> QED BY <1>1, <1>2, <1>3, <1>4, <1>5

LEMMA FirstVersion ==
  ASSUME NEW q \in Request, q.op \in CreateOps
  PROVE  WellFormed(VersionsOfNew(q)) /\ Len(VersionsOfNew(q)) = 1
<1>1. \A d \in VersionRow : d.number = 1 /\ d.state = "draft" => WellFormed(<<d>>)
  BY DEF WellFormed
<1>2. CASE q.op = "create"
  <2>1. VersionsOfNew(q) = <<Draft(1, q.servings, Empty)>> BY <1>2 DEF VersionsOfNew
  <2> QED BY <1>1, <2>1, NewDraft
<1>3. CASE q.op = "mcp_create"
  <2> DEFINE d == Draft(1, q.servings, q.lines)
  <2>1. d \in VersionRow /\ d.number = 1 /\ d.state = "draft"
    <3>1. q.servings \in Servings /\ q.lines \in Lines BY DEF Servings, Lines
    <3> QED BY <3>1 DEF Draft, VersionRow, States
  <2>2. VersionsOfNew(q) = IF q.publish THEN Published(<<d>>, 1) ELSE <<d>>
    BY <1>3 DEF VersionsOfNew
  <2> HIDE DEF d
  <2>3. WellFormed(<<d>>) /\ Len(<<d>>) = 1 /\ 1 \in 1..Len(<<d>>) /\ <<d>>[1].state = "draft"
    BY <1>1, <2>1
  <2>4. WellFormed(Published(<<d>>, 1)) /\ Len(Published(<<d>>, 1)) = Len(<<d>>)
    BY <2>3, PublishedOne
  <2> QED BY <2>2, <2>3, <2>4
<1> QED BY <1>2, <1>3 DEF CreateOps

\* An UPDATE of rows that are still as they were loaded writes the result.
LEMMA WrittenAsComputed ==
  ASSUME NEW v, WellFormed(v), NEW w, WellFormed(w), Len(w) >= Len(v)
  PROVE  UpdatedVersions(v, v, w) = w
<1>1. /\ v \in Seq(VersionRow) /\ w \in Seq(VersionRow)
      /\ Len(v) \in Nat /\ Len(w) \in Nat
      /\ DOMAIN v = 1..Len(v) /\ DOMAIN w = 1..Len(w)
  BY DEF WellFormed
<1>0. Len(v) \in Nat /\ Len(w) \in Nat /\ Len(v) <= Len(w)
  <2>1. Len(v) \in Nat /\ Len(w) \in Nat BY <1>1
  <2> QED BY <2>1
<1> DEFINE old == [i \in 1..Len(v) |-> w[i]]
           new == SubSeq(w, Len(v) + 1, Len(w))
<1>2. \A i \in 1..Len(v) : Assigned(v[i], v[i], w[i]) = w[i] BY DEF Assigned
<1>3. UpdatedVersions(v, v, w) = old \o new
  BY <1>1, <1>2 DEF UpdatedVersions, Inserted
<1>4. /\ old \in Seq(VersionRow) /\ Len(old) = Len(v)
      /\ \A i \in 1..Len(v) : old[i] = w[i]
  <2>1. \A i \in 1..Len(v) : w[i] \in VersionRow BY <1>1, ElementOfSeq
  <2>2. old \in [1..Len(v) -> VersionRow] BY <1>1, <2>1
  <2>3. old \in Seq(VersionRow) BY <1>1, <2>2, SeqDef
  <2>4. DOMAIN old = 1..Len(v) /\ DOMAIN old = 1..Len(old) /\ Len(old) \in Nat
    BY <2>3, LenProperties
  <2>5. Len(old) = Len(v)
    <3> HIDE DEF old
    <3> QED BY <1>1, <2>4
  <2> QED BY <2>3, <2>5
<1>5. /\ new \in Seq(VersionRow) /\ Len(new) = Len(w) - Len(v)
      /\ \A i \in 1..Len(w) - Len(v) : new[i] = w[Len(v) + i]
  <2>1. \A i \in Len(v) + 1..Len(w) : w[i] \in VersionRow BY <1>1, ElementOfSeq
  <2> DEFINE m == Len(v) + 1
             n == Len(w)
  <2>2. m \in Int /\ n \in Int BY <1>1
  <2>3. /\ SubSeq(w, m, n) \in Seq(VersionRow)
        /\ Len(SubSeq(w, m, n)) = IF m <= n THEN n - m + 1 ELSE 0
        /\ \A i \in 1..n - m + 1 : SubSeq(w, m, n)[i] = w[m + i - 1]
    <3> HIDE DEF m, n
    <3>1. \A i \in m..n : w[i] \in VersionRow BY <2>1 DEF m, n
    <3> QED BY <2>2, <3>1, SubSeqProperties
  <2> HIDE DEF new
  <2>4. new = SubSeq(w, m, n) BY DEF new
  <2>5. \A i \in 1..n - Len(v) : i \in 1..n - m + 1 /\ m + i - 1 = Len(v) + i BY <1>1
  <2>6. Len(new) = n - Len(v)
    <3>1. n - m + 1 = n - Len(v) BY <1>0
    <3>2. m <= n \/ n = Len(v) BY <1>0
    <3>3. Len(new) = IF m <= n THEN n - Len(v) ELSE 0 BY <2>3, <2>4, <3>1
    <3>4. n - Len(v) = IF m <= n THEN n - Len(v) ELSE 0 BY <1>0, <3>2
    <3> QED BY <3>3, <3>4
  <2>7. \A i \in 1..n - Len(v) : new[i] = w[Len(v) + i] BY <2>3, <2>4, <2>5
  <2> QED BY <2>3, <2>4, <2>6, <2>7
<1> HIDE DEF old, new
<1>6. /\ old \o new \in Seq(VersionRow) /\ Len(old \o new) = Len(w)
      /\ \A i \in 1..Len(w) : (old \o new)[i] = w[i]
  <2>1. /\ old \o new \in Seq(VersionRow) /\ Len(old \o new) = Len(old) + Len(new)
        /\ \A i \in 1..Len(old) + Len(new) :
             (old \o new)[i] = IF i <= Len(old) THEN old[i] ELSE new[i - Len(old)]
    <3>1. \A s, t \in Seq(VersionRow) :
            /\ s \o t \in Seq(VersionRow) /\ Len(s \o t) = Len(s) + Len(t)
            /\ \A i \in 1..Len(s) + Len(t) :
                 (s \o t)[i] = IF i <= Len(s) THEN s[i] ELSE t[i - Len(s)]
      BY ConcatProperties
    <3> QED BY <1>4, <1>5, <3>1
  <2>2. Len(old) = Len(v) /\ Len(old) + Len(new) = Len(w)
    <3>1. Len(old) = Len(v) /\ Len(new) = Len(w) - Len(v) BY <1>4, <1>5
    <3> QED BY <1>0, <3>1
  <2>3. ASSUME NEW i \in 1..Len(w) PROVE (old \o new)[i] = w[i]
    <3>1. CASE i <= Len(v)
      <4>1. i \in 1..Len(v) BY <1>0, <3>1
      <4> QED BY <1>4, <2>1, <2>2, <3>1, <4>1
    <3>2. CASE i > Len(v)
      <4>1. i - Len(v) \in 1..Len(w) - Len(v) /\ Len(v) + (i - Len(v)) = i
        BY <1>0, <3>2
      <4>2. (old \o new)[i] = new[i - Len(v)] 
        <5>1. ~(i <= Len(v)) BY <1>0, <3>2
        <5> QED BY <2>1, <2>2, <5>1
      <4> QED BY <1>5, <4>1, <4>2
    <3>3. i <= Len(v) \/ i > Len(v) BY <1>0
    <3> QED BY <3>1, <3>2, <3>3
  <2> QED BY <2>1, <2>2, <2>3
<1> QED BY <1>1, <1>3, <1>6, SeqEqual

-----------------------------------------------------------------------------
(***************************************************************************)
(* The inductive invariant.                                                *)
(***************************************************************************)
Names == {q.name : q \in Request} \cup {Omitted}
Row == [name : Names, archived : BOOLEAN]
Progress == {"idle", "open", "unnamed", "loaded", "locked", "draft", "write", "plannable"}

Types ==
  /\ recipe \in [RecipeId -> Row]
  /\ recipe_version \in [RecipeId -> Seq(VersionRow)]
  /\ recipe_lock \in [RecipeId -> Call \cup {NoCall}]
  /\ pc \in [Call -> Progress]
  /\ request \in [Call -> Request \cup {NoRequest}]
  /\ seen \in [Call -> [row : Row, versions : Seq(VersionRow)]]

\* A recipe has a name and at least one version.
RowsWellFormed ==
  \A r \in RecipeId :
    /\ WellFormed(recipe_version[r])
    /\ recipe[r] = NoRecipe => recipe_version[r] = <<>>
    /\ recipe[r] # NoRecipe => recipe[r].name # Omitted /\ Len(recipe_version[r]) > 0

\* A request is about a recipe that exists; what a session has read under the
\* lock is what the rows still say.  The row that an MCP tool has loaded before
\* may be an older one.
Session(c) ==
  LET q == request[c]
      r == q.recipe
  IN
  /\ pc[c] # "idle" => q \in Request /\ (q.op \notin CreateOps => recipe[r] # NoRecipe)
  /\ pc[c] \notin {"loaded", "locked"} => seen[c] = Unseen
  /\ pc[c] = "unnamed" => q.op = "mcp_create"
  /\ pc[c] = "loaded" => q.op = "mcp_update"
  /\ pc[c] = "locked" =>
       /\ q.op \in LockedOps
       /\ recipe_lock[r] = c
       /\ Allowed(q, seen[c].row, seen[c].versions)
       /\ seen[c].versions = recipe_version[r]
       /\ q.op # "mcp_update" => seen[c].row = recipe[r]
Sessions == \A c \in Call : Session(c)

Inv == Types /\ RowsWellFormed /\ Sessions

LEMMA InvInit == ASSUME Init PROVE Inv
<1>1. NoRecipe \in Row BY DEF NoRecipe, Row, Names
<1>2. <<>> \in Seq(VersionRow) /\ WellFormed(<<>>) BY DEF WellFormed
<1>3. Types BY <1>1, <1>2 DEF Init, Types, Progress, Unseen
<1>4. RowsWellFormed BY <1>2 DEF Init, RowsWellFormed
<1>5. Sessions BY DEF Init, Sessions, Session
<1> QED BY <1>3, <1>4, <1>5 DEF Inv
-----------------------------------------------------------------------------
(***************************************************************************)
(* A commit is a step of AtomicRecipes.                                    *)
(***************************************************************************)
LEMMA SameOperators ==
  /\ Atomic!NoRecipe = NoRecipe /\ Atomic!CreateOps = CreateOps /\ Atomic!LockedOps = LockedOps
  /\ \A q, v : Atomic!NewVersions(q, v) = NewVersions(q, v)
  /\ \A q, row : Atomic!NewRow(q, row) = NewRow(q, row)
  /\ \A q, row, v : Atomic!Allowed(q, row, v) <=> Allowed(q, row, v)
  /\ \A q : Atomic!VersionsOfNew(q) = VersionsOfNew(q)
<1>1. \A v : Atomic!Latest(v) = Latest(v) BY DEF Latest, Atomic!Latest
<1>2. \A v, i : Atomic!Published(v, i) = Published(v, i) BY DEF Published, Atomic!Published
<1>3. \A n, s, l : Atomic!Draft(n, s, l) = Draft(n, s, l) BY DEF Draft, Atomic!Draft
<1>4. \A x, y : Atomic!Given(x, y) = Given(x, y) BY DEF Given, Atomic!Given
<1>5. \A v : Atomic!Editable(v) = Editable(v) BY <1>1 DEF Editable, Atomic!Editable
<1>6. \A v, q : Atomic!Revised(v, q) = Revised(v, q)
  BY <1>1, <1>2, <1>4, <1>5 DEF Revised, Atomic!Revised
<1>7. \A v, q : Atomic!WithVersion(v, q) = WithVersion(v, q)
  BY <1>1, <1>3 DEF WithVersion, Atomic!WithVersion
<1>8. \A v, i, l : Atomic!WithLines(v, i, l) = WithLines(v, i, l)
  BY DEF WithLines, Atomic!WithLines
<1>9. \A q : Atomic!HasContent(q) <=> HasContent(q) BY DEF HasContent, Atomic!HasContent
<1>10. \A q, v : Atomic!NewVersions(q, v) = NewVersions(q, v)
  BY <1>2, <1>6, <1>7, <1>8, <1>9 DEF NewVersions, Atomic!NewVersions
<1>11. \A q, row : Atomic!NewRow(q, row) = NewRow(q, row)
  BY <1>4 DEF NewRow, Atomic!NewRow
<1>12. \A q, row, v : Atomic!Allowed(q, row, v) <=> Allowed(q, row, v)
  BY DEF Allowed, Atomic!Allowed, IsDraft, Atomic!IsDraft, NoRecipe, Atomic!NoRecipe
<1>13. \A q : Atomic!VersionsOfNew(q) = VersionsOfNew(q)
  BY <1>2, <1>3 DEF VersionsOfNew, Atomic!VersionsOfNew
<1> QED BY <1>10, <1>11, <1>12, <1>13 DEF NoRecipe, Atomic!NoRecipe, CreateOps, Atomic!CreateOps,
           LockedOps, Atomic!LockedOps

\* The two shapes of a step that changes a recipe.
Created(q, r) ==
  /\ q \in Request /\ r \in RecipeId
  /\ q.op \in CreateOps
  /\ recipe[r] = NoRecipe
  /\ recipe' = [recipe EXCEPT ![r] = [name |-> q.name, archived |-> FALSE]]
  /\ recipe_version' = [recipe_version EXCEPT ![r] = VersionsOfNew(q)]

Changed(q) ==
  LET r == q.recipe IN
  /\ q \in Request /\ r \in RecipeId
  /\ q.op \in LockedOps
  /\ recipe[r] # NoRecipe
  /\ IF q.op = "mcp_update" THEN recipe' \in {recipe, [recipe EXCEPT ![r] = NewRow(q, @)]}
     ELSE Allowed(q, recipe[r], recipe_version[r]) /\ recipe' = [recipe EXCEPT ![r] = NewRow(q, @)]
  /\ recipe_version' = [recipe_version EXCEPT ![r] = NewVersions(q, @)]

LEMMA LockedNotCreated == \A op : op \in LockedOps => op \notin CreateOps
  BY DEF LockedOps, CreateOps

\* What a session that holds the lock knows.
LEMMA LockedSession ==
  ASSUME Inv, NEW c \in Call, pc[c] = "locked"
  PROVE  LET q == request[c]
             r == q.recipe
             v == recipe_version[r]
         IN /\ q \in Request /\ r \in RecipeId /\ q.op \in LockedOps
            /\ recipe[r] \in Row /\ recipe[r] # NoRecipe /\ recipe_lock[r] = c
            /\ seen[c].row \in Row /\ seen[c].versions = v
            /\ Allowed(q, seen[c].row, v)
            /\ q.op # "mcp_update" => seen[c].row = recipe[r]
            /\ WellFormed(v) /\ Len(v) > 0
            /\ q.op \in {"lines", "publish"} => IsDraft(v, q.version)
<1> DEFINE q == request[c]
<1>1. Session(c) BY DEF Inv, Sessions
<1>2. q \in Request /\ q.op \in LockedOps /\ q.op \notin CreateOps
  BY <1>1, LockedNotCreated DEF Session
<1>3. q.recipe \in RecipeId BY <1>2, RequestAssumption
<1>4. seen[c].row \in Row /\ recipe[q.recipe] \in Row BY <1>3 DEF Inv, Types
<1>5. recipe[q.recipe] # NoRecipe BY <1>1, <1>2 DEF Session
<1>6. WellFormed(recipe_version[q.recipe]) /\ Len(recipe_version[q.recipe]) > 0
  BY <1>3, <1>5 DEF Inv, RowsWellFormed
<1> QED BY <1>1, <1>2, <1>3, <1>4, <1>5, <1>6 DEF Session, Allowed

LEMMA CommitChanges ==
  ASSUME Inv, NEW c \in Call, pc[c] = "locked", WriteBack(c)
  PROVE  Changed(request[c])
<1> DEFINE q == request[c]
           r == q.recipe
           v == recipe_version[r]
           w == NewVersions(q, v)
           old == recipe[r]
           row == seen[c].row
<1>1. /\ q \in Request /\ r \in RecipeId /\ q.op \in LockedOps
      /\ old \in Row /\ old # NoRecipe
      /\ row \in Row /\ seen[c].versions = v
      /\ Allowed(q, row, v)
      /\ q.op # "mcp_update" => row = old
      /\ WellFormed(v) /\ Len(v) > 0
      /\ q.op \in {"lines", "publish"} => IsDraft(v, q.version)
  BY LockedSession
<1>2. WellFormed(w) /\ Len(w) >= Len(v) BY <1>1, NewVersionsKeep
<1>3. UpdatedVersions(v, v, w) = w BY <1>1, <1>2, WrittenAsComputed
<1>4. Result(c) = w BY <1>1 DEF Result
<1>5. recipe_version' = [recipe_version EXCEPT ![r] = w]
  BY <1>1, <1>3, <1>4 DEF WriteBack
<1>6. recipe' = [recipe EXCEPT ![r] = UpdatedRow(old, row, NewRow(q, row))]
  BY <1>1 DEF WriteBack
<1>7. recipe \in [RecipeId -> Row] BY DEF Inv, Types
<1>8. CASE q.op # "mcp_update"
  <2>1. row = old BY <1>1, <1>8
  <2>2. NewRow(q, old) \in [name : {NewRow(q, old).name}, archived : {NewRow(q, old).archived}]
    BY <1>1 DEF NewRow, Row
  <2>3. UpdatedRow(old, old, NewRow(q, old)) = NewRow(q, old)
    BY <2>2 DEF UpdatedRow, Assigned
  <2>4. Allowed(q, recipe[r], recipe_version[r]) BY <1>1, <2>1
  <2> QED BY <1>1, <1>5, <1>6, <1>8, <2>1, <2>3, <2>4 DEF Changed
<1>9. CASE q.op = "mcp_update"
  <2>1. NewRow(q, row) = [row EXCEPT !.name = Given(q.name, @)]
    BY <1>9 DEF NewRow
  <2>2. NewRow(q, old) = [old EXCEPT !.name = Given(q.name, @)]
    BY <1>9 DEF NewRow
  <2>3. UpdatedRow(old, row, NewRow(q, row)) \in {old, NewRow(q, old)}
    BY <1>1, <2>1, <2>2 DEF UpdatedRow, Assigned, Given, Row
  <2>4. recipe' \in {recipe, [recipe EXCEPT ![r] = NewRow(q, @)]}
    BY <1>1, <1>6, <1>7, <2>3
  <2> QED BY <1>1, <1>5, <1>9, <2>4 DEF Changed
<1> QED BY <1>8, <1>9

LEMMA InsertCreates ==
  ASSUME Inv, NEW c \in Call, CreateRecipe(c) \/ McpCreateRecipe(c)
  PROVE  \E r \in RecipeId : Created(request[c], r)
<1>1. Session(c) BY DEF Inv, Sessions
<1>2. Insert(c) BY DEF CreateRecipe, McpCreateRecipe
<1>3. request[c] \in Request /\ request[c].op \in CreateOps
  BY <1>1 DEF Session, CreateRecipe, McpCreateRecipe, CreateOps
<1> QED BY <1>2, <1>3 DEF Insert, Unused, Created

\* Every step leaves the recipes as they are, creates one or changes one.
Shape(c) ==
  \/ UNCHANGED recipes
  \/ \E r \in RecipeId : Created(request[c], r)
  \/ pc[c] = "locked" /\ Changed(request[c])

LEMMA StepShape ==
  ASSUME Inv, NEW c \in Call, Step(c) \/ Crash(c) \/ \E q \in Request : Receive(c, q)
  PROVE  Shape(c)
<1>1. CASE CreateRecipe(c) \/ McpCreateRecipe(c) BY <1>1, InsertCreates DEF Shape
<1>2. CASE Commit(c)
  <2>1. CASE Fail(c) BY <2>1 DEF Shape, Fail, Rollback
  <2>2. CASE WriteBack(c) BY <1>2, <2>2, CommitChanges DEF Shape, Commit
  <2> QED BY <1>2, <2>1, <2>2 DEF Commit
<1>3. CASE Load(c) \/ Lock(c) \/ Refuse(c) \/ RefuseCreation(c) \/ FindName(c) \/ RefuseName(c)
  BY <1>3 DEF Load, Lock, Refuse, RefuseCreation, FindName, RefuseName, Goto, Rollback, Shape
<1>4. CASE GetDraftVersion(c) \/ AddRule(c) \/ DeleteRule(c)
  BY <1>4 DEF GetDraftVersion, AddRule, DeleteRule, Goto, Rollback, Shape
<1>5. CASE FindFavorite(c) \/ WriteFavorite(c) \/ FailFavorite(c)
  BY <1>5 DEF FindFavorite, WriteFavorite, FailFavorite, Fail, Goto, Rollback, Shape
<1>6. CASE AssertPublished(c) \/ AddEntry(c)
  BY <1>6 DEF AssertPublished, AddEntry, Goto, Rollback, Shape
<1>7. CASE Crash(c) \/ \E q \in Request : Receive(c, q)
  BY <1>7 DEF Crash, Receive, Rollback, Shape
<1> QED BY <1>1, <1>2, <1>3, <1>4, <1>5, <1>6, <1>7 DEF Step

\* What a step of each shape does to the rows.
LEMMA CreatedRows ==
  ASSUME Inv, NEW q \in Request, NEW r \in RecipeId, Created(q, r)
  PROVE  /\ recipe' \in [RecipeId -> Row] /\ recipe_version' \in [RecipeId -> Seq(VersionRow)]
         /\ RowsWellFormed'
         /\ recipe[r] = NoRecipe
         /\ \A s \in RecipeId \ {r} : recipe'[s] = recipe[s] /\ recipe_version'[s] = recipe_version[s]
<1> DEFINE row == [name |-> q.name, archived |-> FALSE]
           w == VersionsOfNew(q)
<1>1. q.op \in CreateOps BY DEF Created
<1>2. WellFormed(w) /\ Len(w) = 1 BY <1>1, FirstVersion
<1>3. row \in Row /\ row.name # Omitted
  <2>1. q.name \in Names BY DEF Names
  <2> QED BY <1>1, <2>1, RequestAssumption DEF Row
<1>4. /\ recipe \in [RecipeId -> Row] /\ recipe_version \in [RecipeId -> Seq(VersionRow)]
      /\ RowsWellFormed
  BY DEF Inv, Types
<1> HIDE DEF row, w
<1>5. /\ recipe' = [recipe EXCEPT ![r] = row] /\ recipe_version' = [recipe_version EXCEPT ![r] = w]
      /\ recipe[r] = NoRecipe
  BY DEF Created, row, w
<1>6. w \in Seq(VersionRow) BY <1>2 DEF WellFormed
<1>7. row # NoRecipe BY <1>3 DEF NoRecipe
<1>8. RowsWellFormed'
  <2> SUFFICES ASSUME NEW s \in RecipeId
               PROVE  /\ WellFormed(recipe_version'[s])
                      /\ recipe'[s] = NoRecipe => recipe_version'[s] = <<>>
                      /\ recipe'[s] # NoRecipe =>
                            recipe'[s].name # Omitted /\ Len(recipe_version'[s]) > 0
    BY DEF RowsWellFormed
  <2>1. CASE s = r
    <3>1. recipe'[s] = row /\ recipe_version'[s] = w BY <1>4, <1>5, <2>1
    <3>2. Len(w) > 0 BY <1>2
    <3> QED BY <1>2, <1>3, <1>7, <3>1, <3>2
  <2>2. CASE s # r BY <1>4, <1>5, <2>2 DEF RowsWellFormed
  <2> QED BY <2>1, <2>2
<1> QED BY <1>3, <1>4, <1>5, <1>6, <1>8

LEMMA RowStaysNamed ==
  ASSUME NEW q \in Request, NEW row \in Row, row.name # Omitted
  PROVE  NewRow(q, row) \in Row /\ NewRow(q, row).name # Omitted
<1>1. q.name \in Names BY DEF Names
<1>2. Given(q.name, row.name) \in Names /\ Given(q.name, row.name) # Omitted
  BY <1>1 DEF Given, Row
<1>3. CASE q.op = "archive" BY <1>3 DEF NewRow, Row
<1>4. CASE q.op = "unarchive" BY <1>4 DEF NewRow, Row
<1>5. CASE q.op \in {"rename", "mcp_update"}
  <2>1. NewRow(q, row) = [row EXCEPT !.name = Given(q.name, row.name)] BY <1>5 DEF NewRow
  <2> QED BY <1>2, <2>1 DEF Row
<1>6. CASE q.op \notin {"archive", "unarchive", "rename", "mcp_update"}
  <2>1. NewRow(q, row) = row BY <1>6 DEF NewRow
  <2> QED BY <2>1
<1> QED BY <1>3, <1>4, <1>5, <1>6

LEMMA ChangedRows ==
  ASSUME Inv, NEW q, Changed(q)
  PROVE  /\ recipe' \in [RecipeId -> Row] /\ recipe_version' \in [RecipeId -> Seq(VersionRow)]
         /\ RowsWellFormed'
         /\ recipe'[q.recipe] # NoRecipe
         /\ Kept(recipe_version[q.recipe], recipe_version'[q.recipe])
         /\ Len(recipe_version'[q.recipe]) >= Len(recipe_version[q.recipe])
         /\ \A s \in RecipeId \ {q.recipe} :
              recipe'[s] = recipe[s] /\ recipe_version'[s] = recipe_version[s]
<1> DEFINE r == q.recipe
           v == recipe_version[r]
           w == NewVersions(q, v)
           new == recipe'[r]
<1>1. q \in Request /\ r \in RecipeId /\ recipe[r] # NoRecipe BY DEF Changed
<1>2. /\ recipe \in [RecipeId -> Row] /\ recipe_version \in [RecipeId -> Seq(VersionRow)]
      /\ RowsWellFormed
  BY DEF Inv, Types
<1>3. WellFormed(v) /\ Len(v) > 0 /\ recipe[r].name # Omitted BY <1>1, <1>2 DEF RowsWellFormed
<1>4. q.op \in {"lines", "publish"} => IsDraft(v, q.version)
  BY DEF Changed, Allowed
<1>5. WellFormed(w) /\ Len(w) >= Len(v) /\ Kept(v, w) BY <1>1, <1>3, <1>4, NewVersionsKeep
<1>6. recipe_version' = [recipe_version EXCEPT ![r] = w] BY DEF Changed
<1>7. recipe' = recipe \/ recipe' = [recipe EXCEPT ![r] = NewRow(q, recipe[r])] BY DEF Changed
<1>8. NewRow(q, recipe[r]) \in Row /\ NewRow(q, recipe[r]).name # Omitted
  BY <1>1, <1>2, <1>3, RowStaysNamed
<1>9. /\ recipe' \in [RecipeId -> Row] /\ new.name # Omitted
      /\ \A s \in RecipeId \ {r} : recipe'[s] = recipe[s]
  BY <1>1, <1>2, <1>3, <1>7, <1>8
<1> HIDE DEF w
<1>10. w \in Seq(VersionRow) /\ Len(w) > 0
  <2>1. Len(v) \in Nat /\ Len(w) \in Nat BY <1>3, <1>5 DEF WellFormed
  <2> QED BY <1>3, <1>5, <2>1 DEF WellFormed
<1>11. /\ recipe_version' \in [RecipeId -> Seq(VersionRow)] /\ recipe_version'[r] = w
       /\ \A s \in RecipeId \ {r} : recipe_version'[s] = recipe_version[s]
  BY <1>1, <1>2, <1>6, <1>10
<1>12. new # NoRecipe BY <1>9 DEF NoRecipe
<1>13. RowsWellFormed'
  <2> SUFFICES ASSUME NEW s \in RecipeId
               PROVE  /\ WellFormed(recipe_version'[s])
                      /\ recipe'[s] = NoRecipe => recipe_version'[s] = <<>>
                      /\ recipe'[s] # NoRecipe =>
                            recipe'[s].name # Omitted /\ Len(recipe_version'[s]) > 0
    BY DEF RowsWellFormed
  <2>1. CASE s = r BY <1>5, <1>9, <1>10, <1>11, <1>12, <2>1
  <2>2. CASE s # r BY <1>2, <1>9, <1>11, <2>2 DEF RowsWellFormed
  <2> QED BY <2>1, <2>2
<1> QED BY <1>5, <1>9, <1>11, <1>12, <1>13

Moves(c) == Step(c) \/ Crash(c) \/ \E q \in Request : Receive(c, q)

\* A recipe stays in existence, and one that is locked by another session stays
\* as it is.
LEMMA RowsStep ==
  ASSUME Inv, NEW c \in Call, Moves(c)
  PROVE  /\ recipe' \in [RecipeId -> Row] /\ recipe_version' \in [RecipeId -> Seq(VersionRow)]
         /\ RowsWellFormed'
         /\ \A s \in RecipeId : recipe[s] # NoRecipe => recipe'[s] # NoRecipe
         /\ \A s \in RecipeId : recipe[s] # NoRecipe /\ recipe_lock[s] # c =>
              recipe'[s] = recipe[s] /\ recipe_version'[s] = recipe_version[s]
<1>1. Shape(c) BY StepShape DEF Moves
<1>2. CASE UNCHANGED recipes
  BY <1>2 DEF recipes, Inv, Types, RowsWellFormed
<1>3. CASE \E r \in RecipeId : Created(request[c], r)
  <2>1. PICK r \in RecipeId : Created(request[c], r) BY <1>3
  <2>2. request[c] \in Request BY <2>1 DEF Created
  <2> QED BY <2>1, <2>2, CreatedRows
<1>4. CASE pc[c] = "locked" /\ Changed(request[c])
  <2>1. recipe_lock[request[c].recipe] = c BY <1>4, LockedSession
  <2> QED BY <1>4, <2>1, ChangedRows
<1> QED BY <1>1, <1>2, <1>3, <1>4 DEF Shape

\* What a step does to the session of its own worker.
Advances(c) == \E next \in {"unnamed", "draft", "write", "plannable"} :
  /\ Goto(c, next)
  /\ pc[c] = "open"
  /\ next = "unnamed" => request[c].op = "mcp_create"
Loads(c) == Load(c) /\ pc' = [pc EXCEPT ![c] = "loaded"]

LEMMA WorkerShape ==
  ASSUME NEW c \in Call, Moves(c)
  PROVE  EndRequest(c) \/ Advances(c) \/ Loads(c) \/ Lock(c) \/ \E q \in Request : Receive(c, q)
<1>1. CASE FindName(c) \/ RefuseName(c) \/ RefuseCreation(c)
  BY <1>1 DEF FindName, RefuseName, RefuseCreation, Rollback, Advances
<1>2. CASE CreateRecipe(c) \/ McpCreateRecipe(c)
  BY <1>2 DEF CreateRecipe, McpCreateRecipe, Insert
<1>3. CASE Load(c)
  BY <1>3 DEF Load, Rollback, Loads
<1>4. CASE Refuse(c) \/ Commit(c)
  BY <1>4 DEF Refuse, Commit, Fail, WriteBack, Rollback
<1>5. CASE GetDraftVersion(c) \/ AddRule(c) \/ DeleteRule(c)
  BY <1>5 DEF GetDraftVersion, AddRule, DeleteRule, Rollback, Advances
<1>6. CASE FindFavorite(c) \/ WriteFavorite(c) \/ FailFavorite(c)
  BY <1>6 DEF FindFavorite, WriteFavorite, FailFavorite, Fail, Rollback, Advances
<1>7. CASE AssertPublished(c) \/ AddEntry(c)
  BY <1>7 DEF AssertPublished, AddEntry, Rollback, Advances
<1>8. CASE Crash(c)
  BY <1>8 DEF Crash, Rollback
<1> QED BY <1>1, <1>2, <1>3, <1>4, <1>5, <1>6, <1>7, <1>8 DEF Moves, Step

\* The types of the worker's variables, and that a step leaves the sessions and
\* the locks of the others alone.
WorkerTypes ==
  /\ recipe_lock \in [RecipeId -> Call \cup {NoCall}]
  /\ pc \in [Call -> Progress]
  /\ request \in [Call -> Request \cup {NoRequest}]
  /\ seen \in [Call -> [row : Row, versions : Seq(VersionRow)]]

OthersStay(c) == \A d \in Call \ {c} :
  /\ pc'[d] = pc[d] /\ request'[d] = request[d] /\ seen'[d] = seen[d]
  /\ \A s \in RecipeId : recipe_lock[s] = d => recipe_lock'[s] = d

LEMMA UnseenTyped == Unseen \in [row : Row, versions : Seq(VersionRow)]
<1>1. NoRecipe \in Row BY DEF NoRecipe, Row, Names
<1> QED BY <1>1 DEF Unseen

LEMMA WorkerStep ==
  ASSUME Inv, NEW c \in Call, Moves(c)
  PROVE  WorkerTypes' /\ OthersStay(c) /\ Session(c)'
<1>1. WorkerTypes /\ Session(c) BY DEF Inv, Types, WorkerTypes, Sessions
<1>2. CASE EndRequest(c)
  <2>1. WorkerTypes'
    <3>1. seen' \in [Call -> [row : Row, versions : Seq(VersionRow)]]
      BY <1>1, <1>2, UnseenTyped DEF EndRequest, WorkerTypes
    <3>2. recipe_lock' \in [RecipeId -> Call \cup {NoCall}]
      BY <1>1, <1>2 DEF EndRequest, Released, WorkerTypes
    <3>3. pc' \in [Call -> Progress] /\ request' \in [Call -> Request \cup {NoRequest}]
      BY <1>1, <1>2 DEF EndRequest, Progress, WorkerTypes
    <3> QED BY <3>1, <3>2, <3>3 DEF WorkerTypes
  <2>2. OthersStay(c) BY <1>1, <1>2 DEF EndRequest, Released, WorkerTypes, OthersStay
  <2>3. pc'[c] = "idle" /\ seen'[c] = Unseen BY <1>1, <1>2 DEF EndRequest, WorkerTypes
  <2>4. Session(c)' BY <2>3 DEF Session, Unseen, NoRecipe
  <2> QED BY <2>1, <2>2, <2>4
<1>3. CASE Advances(c)
  <2>1. PICK next \in {"unnamed", "draft", "write", "plannable"} :
          Goto(c, next) /\ pc[c] = "open" /\ (next = "unnamed" => request[c].op = "mcp_create")
    BY <1>3 DEF Advances
  <2>2. /\ pc' = [pc EXCEPT ![c] = next]
        /\ UNCHANGED <<recipe, recipe_version, recipe_lock, request, seen>>
    BY <2>1 DEF Goto, recipes
  <2>3. next \in Progress BY DEF Progress
  <2>4. WorkerTypes' BY <1>1, <2>2, <2>3 DEF WorkerTypes
  <2>5. OthersStay(c) BY <1>1, <2>2 DEF WorkerTypes, OthersStay
  <2>6. pc'[c] = next BY <1>1, <2>2 DEF WorkerTypes
  <2>7. Session(c)' BY <1>1, <2>1, <2>2, <2>6 DEF Session, Unseen, NoRecipe
  <2> QED BY <2>4, <2>5, <2>7
<1>4. CASE Loads(c)
  <2> DEFINE row == recipe[request[c].recipe]
  <2>1. pc[c] = "open" /\ request[c].op = "mcp_update" BY <1>4 DEF Loads, Load
  <2>2. /\ pc' = [pc EXCEPT ![c] = "loaded"] BY <1>4 DEF Loads
  <2>3. pc'[c] = "loaded" BY <1>1, <2>2 DEF WorkerTypes
  <2>4. /\ seen' = [seen EXCEPT ![c].row = row]
        /\ UNCHANGED <<recipe, recipe_version, recipe_lock, request>>
    <3>1. ~Rollback(c)
      <4>1. Rollback(c) => pc'[c] = "idle" BY <1>1 DEF Rollback, EndRequest, WorkerTypes
      <4> QED BY <2>3, <4>1
    <3> QED BY <1>4, <3>1 DEF Loads, Load, recipes
  <2>5. request[c] \in Request /\ request[c].recipe \in RecipeId
    <3>1. request[c] \in Request BY <1>1, <2>1 DEF Session
    <3> QED BY <2>1, <3>1, RequestAssumption DEF CreateOps
  <2>6. row \in Row BY <2>5 DEF Inv, Types
  <2> HIDE DEF row
  <2>7. WorkerTypes'
    <3>1. [seen[c] EXCEPT !.row = row] \in [row : Row, versions : Seq(VersionRow)]
      BY <1>1, <2>6 DEF WorkerTypes
    <3>2. seen' \in [Call -> [row : Row, versions : Seq(VersionRow)]]
      BY <1>1, <2>4, <3>1 DEF WorkerTypes
    <3>3. "loaded" \in Progress BY DEF Progress
    <3> QED BY <1>1, <2>2, <2>4, <3>2, <3>3 DEF WorkerTypes
  <2>8. OthersStay(c) BY <1>1, <2>2, <2>4 DEF WorkerTypes, OthersStay
  <2>9. Session(c)' BY <1>1, <2>1, <2>3, <2>4 DEF Session, NoRecipe
  <2> QED BY <2>7, <2>8, <2>9
<1>5. CASE Lock(c)
  <2> DEFINE q == request[c]
             r == q.recipe
             row == RowInSession(c)
             v == recipe_version[r]
  <2>1. /\ AsksForLock(c) /\ Free(c, r) /\ Allowed(q, row, v)
        /\ seen' = [seen EXCEPT ![c] = [row |-> row, versions |-> v]]
        /\ recipe_lock' = [recipe_lock EXCEPT ![r] = c]
        /\ pc' = [pc EXCEPT ![c] = "locked"]
        /\ UNCHANGED <<recipe, recipe_version, request>>
    BY <1>5 DEF Lock, recipes
  <2>2. q \in Request /\ q.op \in LockedOps
    BY <1>1, <2>1 DEF AsksForLock, Session, LockedOps
  <2>3. r \in RecipeId BY <2>2, LockedNotCreated, RequestAssumption
  <2>4. recipe[r] \in Row /\ v \in Seq(VersionRow) BY <2>3 DEF Inv, Types
  <2>5. row \in Row BY <1>1, <2>4 DEF RowInSession, WorkerTypes
  <2>6. q.op # "mcp_update" => row = recipe[r]
    <3>1. q.op # "mcp_update" => seen[c] = Unseen BY <1>1, <2>1 DEF AsksForLock, Session
    <3> QED BY <3>1 DEF RowInSession, Unseen
  <2>7. recipe[r] # NoRecipe BY <1>1, <2>1, <2>2, LockedNotCreated DEF Session, AsksForLock
  <2> HIDE DEF row, v
  <2>8. WorkerTypes'
    <3>1. seen' \in [Call -> [row : Row, versions : Seq(VersionRow)]]
      BY <1>1, <2>1, <2>4, <2>5 DEF WorkerTypes
    <3>2. "locked" \in Progress BY DEF Progress
    <3> QED BY <1>1, <2>1, <3>1, <3>2 DEF WorkerTypes
  <2>9. OthersStay(c) BY <1>1, <2>1, RequestAssumption DEF WorkerTypes, OthersStay, Free
  <2>10. /\ pc'[c] = "locked" /\ recipe_lock'[r] = c
         /\ seen'[c].row = row /\ seen'[c].versions = v
    BY <1>1, <2>1, <2>3 DEF WorkerTypes
  <2>11. Session(c)'
    <3>1. q' = q /\ recipe'[r] = recipe[r] /\ recipe_version'[r] = v BY <2>1 DEF v
    <3> HIDE DEF q
    <3>2. /\ request'[c] = q /\ q.recipe = r BY <3>1 DEF q
    <3>3. Allowed(q, seen'[c].row, seen'[c].versions) BY <2>1, <2>10
    <3> QED BY <2>1, <2>2, <2>6, <2>7, <2>10, <3>1, <3>2, <3>3 DEF Session
  <2> QED BY <2>8, <2>9, <2>11
<1>6. CASE \E q \in Request : Receive(c, q)
  <2>1. PICK q \in Request : Receive(c, q) BY <1>6
  <2>2. /\ pc[c] = "idle" /\ CanSend(q)
        /\ pc' = [pc EXCEPT ![c] = "open"] /\ request' = [request EXCEPT ![c] = q]
        /\ UNCHANGED <<recipe, recipe_version, recipe_lock, seen>>
    BY <2>1 DEF Receive, recipes
  <2>3. "open" \in Progress BY DEF Progress
  <2>4. WorkerTypes' BY <1>1, <2>2, <2>3 DEF WorkerTypes
  <2>5. OthersStay(c) BY <1>1, <2>2 DEF WorkerTypes, OthersStay
  <2>6. pc'[c] = "open" /\ request'[c] = q BY <1>1, <2>2 DEF WorkerTypes
  <2>7. q.op \notin CreateOps => recipe[q.recipe] # NoRecipe BY <2>2 DEF CanSend
  <2>8. Session(c)' BY <1>1, <2>2, <2>6, <2>7 DEF Session, Unseen, NoRecipe
  <2> QED BY <2>4, <2>5, <2>8
<1> QED BY <1>2, <1>3, <1>4, <1>5, <1>6, WorkerShape

LEMMA InvNext ==
  ASSUME Inv, [Next]_vars PROVE Inv'
<1>1. CASE UNCHANGED vars
  BY <1>1 DEF Inv, Types, RowsWellFormed, Sessions, Session, NoRecipe, Unseen,
              vars, recipes, others, worker
<1>2. ASSUME NEW c \in Call, Moves(c) PROVE Inv'
  <2>1. /\ recipe' \in [RecipeId -> Row] /\ recipe_version' \in [RecipeId -> Seq(VersionRow)]
        /\ RowsWellFormed'
        /\ \A s \in RecipeId : recipe[s] # NoRecipe => recipe'[s] # NoRecipe
        /\ \A s \in RecipeId : recipe[s] # NoRecipe /\ recipe_lock[s] # c =>
             recipe'[s] = recipe[s] /\ recipe_version'[s] = recipe_version[s]
    BY <1>2, RowsStep
  <2>2. WorkerTypes' /\ OthersStay(c) /\ Session(c)' BY <1>2, WorkerStep
  <2>3. ASSUME NEW d \in Call, d # c PROVE Session(d)'
    <3> DEFINE q == request[d]
               r == q.recipe
    <3>1. Session(d) BY DEF Inv, Sessions
    <3>2. /\ pc'[d] = pc[d] /\ request'[d] = q /\ seen'[d] = seen[d]
          /\ \A s \in RecipeId : recipe_lock[s] = d => recipe_lock'[s] = d
      BY <2>2, <2>3 DEF OthersStay
    <3>3. ASSUME q \in Request, q.op \notin CreateOps, recipe[r] # NoRecipe
          PROVE  /\ recipe'[r] # NoRecipe
                 /\ recipe_lock[r] = d =>
                      /\ recipe_lock'[r] = d
                      /\ recipe'[r] = recipe[r] /\ recipe_version'[r] = recipe_version[r]
      <4>1. r \in RecipeId BY <3>3, RequestAssumption
      <4> QED BY <2>1, <2>3, <3>2, <3>3, <4>1
    <3>4. Unseen' = Unseen /\ NoRecipe' = NoRecipe BY DEF Unseen, NoRecipe
    <3>5. pc[d] # "idle" => q \in Request /\ (q.op \notin CreateOps => recipe'[r] # NoRecipe)
      BY <3>1, <3>3 DEF Session
    <3>6. pc[d] = "locked" =>
            /\ q.op \in LockedOps
            /\ recipe_lock'[r] = d
            /\ Allowed(q, seen[d].row, seen[d].versions)
            /\ seen[d].versions = recipe_version'[r]
            /\ q.op # "mcp_update" => seen[d].row = recipe'[r]
      BY <3>1, <3>3, LockedNotCreated DEF Session
    <3> QED BY <3>1, <3>2, <3>4, <3>5, <3>6 DEF Session
  <2>4. Sessions' BY <2>2, <2>3 DEF Sessions
  <2>5. Types' BY <2>1, <2>2 DEF Types, WorkerTypes
  <2> QED BY <2>1, <2>4, <2>5 DEF Inv
<1> QED BY <1>1, <1>2 DEF Next, Moves
-----------------------------------------------------------------------------
(***************************************************************************)
(* The theorems.                                                           *)
(***************************************************************************)
LEMMA Invariant == Spec => []Inv
<1>1. Init => Inv BY InvInit
<1>2. Inv /\ [Next]_vars => Inv' BY InvNext
<1> QED BY <1>1, <1>2, PTL DEF Spec

LEMMA AtMostOne ==
  ASSUME NEW S, \A i, j \in S : i = j
  PROVE  Cardinality(S) <= 1
<1>1. CASE S = {}
  <2>1. Cardinality(S) = 0 BY <1>1, FS_EmptySet
  <2> QED BY <2>1
<1>2. CASE S # {}
  <2>1. PICK i \in S : TRUE BY <1>2
  <2>2. S = {i} BY <2>1
  <2>3. Cardinality(S) = 1 BY <2>2, FS_Singleton
  <2> QED BY <2>3
<1> QED BY <1>1, <1>2

\* specs/014-recipe-lifecycle-mcp/spec.md:29: whoever publishes at the same
\* time, a recipe never has two published versions.
THEOREM NeverTwoPublished == Spec => []OnePublished
<1>1. ASSUME Inv PROVE OnePublished
  <2> SUFFICES ASSUME NEW r \in RecipeId
               PROVE  Cardinality({i \in DOMAIN recipe_version[r] :
                                     recipe_version[r][i].state = "published"}) <= 1
    BY DEF OnePublished
  <2> DEFINE v == recipe_version[r]
             published == {i \in DOMAIN v : v[i].state = "published"}
  <2>1. WellFormed(v) BY <1>1 DEF Inv, RowsWellFormed
  <2>2. \A i, j \in published : i = j BY <2>1 DEF WellFormed
  <2> HIDE DEF published
  <2>3. Cardinality(published) <= 1 BY <2>2, AtMostOne
  <2> QED BY <2>3 DEF published
<1> QED BY <1>1, Invariant, PTL

\* FR-008 and SC-003 of specs/003: what was published stays as it is, through
\* every interleaving of edits, publications and MCP updates.
THEOREM PublishedForEver == Spec => PublishedIsImmutable
<1> DEFINE Immutable ==
      \A r \in RecipeId : \A i \in DOMAIN recipe_version[r] :
        LET old == recipe_version[r][i]
            new == recipe_version'[r][i]
        IN old.state # "draft" => new \in {old, [old EXCEPT !.state = "archived"]}
<1>1. ASSUME Inv, [Next]_vars PROVE [Immutable]_vars
  <2>1. CASE UNCHANGED vars BY <2>1
  <2>2. ASSUME NEW c \in Call, Moves(c) PROVE Immutable
    <3> SUFFICES ASSUME NEW r \in RecipeId PROVE Kept(recipe_version[r], recipe_version'[r])
      <4>1. \A r \in RecipeId : DOMAIN recipe_version[r] = 1..Len(recipe_version[r])
        BY <1>1 DEF Inv, RowsWellFormed, WellFormed
      <4> QED BY <4>1 DEF Kept
    <3>1. Shape(c) BY <1>1, <2>2, StepShape DEF Moves
    <3>2. CASE recipe_version'[r] = recipe_version[r] BY <3>2 DEF Kept
    <3>3. CASE recipe_version'[r] # recipe_version[r]
      <4>1. CASE \E s \in RecipeId : Created(request[c], s)
        <5>1. PICK s \in RecipeId : Created(request[c], s) BY <4>1
        <5>2. r = s /\ recipe[r] = NoRecipe
          BY <1>1, <3>3, <5>1, CreatedRows DEF Created
        <5>3. recipe_version[r] = <<>> BY <1>1, <5>2 DEF Inv, RowsWellFormed
        <5> QED BY <5>3 DEF Kept
      <4>2. CASE Changed(request[c])
        BY <1>1, <3>3, <4>2, ChangedRows
      <4> QED BY <3>1, <3>3, <4>1, <4>2 DEF Shape, recipes
    <3> QED BY <3>2, <3>3
  <2> QED BY <1>1, <2>1, <2>2 DEF Next, Moves
<1>2. PublishedIsImmutable <=> [][Immutable]_vars BY DEF PublishedIsImmutable
<1> QED BY <1>1, <1>2, Invariant, PTL DEF Spec

\* Sessions that lock a recipe, read its versions and write them back are
\* indivisible requests: every step is one of AtomicRecipes or changes no row.
THEOREM RequestsAreAtomic == Spec => ImplementsAtomicRecipes
<1>1. Init => Atomic!Init
  BY SameOperators DEF Init, Atomic!Init
<1>2. ASSUME Inv, [Next]_vars PROVE [Atomic!Next]_recipes
  <2>1. CASE UNCHANGED vars BY <2>1 DEF vars
  <2>2. ASSUME NEW c \in Call, Moves(c) PROVE [Atomic!Next]_recipes
    <3>1. Shape(c) BY <1>2, <2>2, StepShape DEF Moves
    <3>2. CASE \E r \in RecipeId : Created(request[c], r)
      <4>1. PICK r \in RecipeId : Created(request[c], r) BY <3>2
      <4>2. request[c] \in Request /\ Atomic!Create(request[c], r)
        BY <4>1, SameOperators DEF Created, Atomic!Create
      <4> QED BY <4>2 DEF Atomic!Next
    <3>3. CASE Changed(request[c])
      <4> DEFINE q == request[c]
      <4>1. q \in Request BY <3>3 DEF Changed
      <4>2. CASE q.op = "mcp_update"
        <5>1. Atomic!McpChange(q)
          BY <3>3, <4>2, SameOperators DEF Changed, Atomic!McpChange
        <5> QED BY <4>1, <5>1 DEF Atomic!Next
      <4>3. CASE q.op # "mcp_update"
        <5>1. Atomic!Change(q)
          BY <3>3, <4>3, SameOperators DEF Changed, Atomic!Change
        <5> QED BY <4>1, <5>1 DEF Atomic!Next
      <4> QED BY <4>2, <4>3
    <3> QED BY <3>1, <3>2, <3>3 DEF Shape
  <2> QED BY <1>2, <2>1, <2>2 DEF Next, Moves
<1> QED BY <1>1, <1>2, Invariant, PTL DEF Spec, ImplementsAtomicRecipes, Atomic!Spec, recipes
=============================================================================
