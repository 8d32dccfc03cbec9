-------------------------- MODULE ListPages_proofs --------------------------
(***************************************************************************)
(* Theorems about the two pages of the wizard whose part of the draft is a   *)
(* list, with state kept beside it by position: StoragePage, and after it    *)
(* QueuesPage.  They hold for every set of types and versions, every limit   *)
(* and every bound.                                                         *)
(*                                                                         *)
(* Of the storage page, TypeOK and UiCoversStorages are inductive only       *)
(* together: that an entry of ui exists for every storage is what makes the  *)
(* page's reads of ui have a value.  Names are distinct because a name the   *)
(* page made is the one of its position (NamesMade).                        *)
(***************************************************************************)
EXTENDS StoragePage, QueuesPage, SequenceTheorems, FiniteSetTheorems, TLAPS

\* RemoveAt drops one element and moves those behind it up.
LEMMA RemoveAtProperties ==
  ASSUME NEW S, NEW s \in Seq(S), NEW i \in DOMAIN s
  PROVE  /\ RemoveAt(s, i) \in Seq(S)
         /\ Len(RemoveAt(s, i)) = Len(s) - 1
         /\ \A j \in 1..Len(s) - 1 :
              RemoveAt(s, i)[j] = IF j < i THEN s[j] ELSE s[j + 1]
<1> DEFINE n == Len(s)
           before == SubSeq(s, 1, i - 1)
           after == SubSeq(s, i + 1, n)
<1>1. /\ i \in 1..n /\ n \in Nat
      /\ \A j \in 1..n : s[j] \in S
  BY LenProperties
<1>2. /\ before \in Seq(S) /\ Len(before) = i - 1
      /\ \A j \in 1..(i - 1) : before[j] = s[j]
  <2>1. \A j \in 1..(i - 1) : s[j] \in S
    BY <1>1
  <2>2. QED
    BY <1>1, <2>1, SubSeqProperties
<1>3. /\ after \in Seq(S) /\ Len(after) = n - i
      /\ \A j \in 1..(n - i) : after[j] = s[i + j]
  <2>1. \A j \in (i + 1)..n : s[j] \in S
    BY <1>1
  <2>2. QED
    BY <1>1, <2>1, SubSeqProperties
<1>4. RemoveAt(s, i) = before \o after
  BY DEF RemoveAt
<1> HIDE DEF n, before, after
<1>5. /\ before \o after \in Seq(S)
      /\ Len(before \o after) = n - 1
      /\ \A j \in 1..(n - 1) :
           (before \o after)[j] = IF j <= i - 1 THEN before[j] ELSE after[j - (i - 1)]
  <2>1. Len(before) + Len(after) = n - 1
    BY <1>1, <1>2, <1>3
  <2>2. /\ before \o after \in Seq(S)
        /\ Len(before \o after) = Len(before) + Len(after)
        /\ \A j \in 1..Len(before) + Len(after) : (before \o after)[j] =
             IF j <= Len(before) THEN before[j] ELSE after[j - Len(before)]
    BY <1>2, <1>3, ConcatProperties
  <2>3. QED
    BY <1>2, <2>1, <2>2
<1>6. ASSUME NEW j \in 1..(n - 1)
      PROVE  (before \o after)[j] = IF j < i THEN s[j] ELSE s[j + 1]
  <2>1. CASE j <= i - 1
    <3>1. j \in 1..(i - 1) /\ j < i
      BY <1>1, <2>1
    <3>2. QED
      BY <1>2, <1>5, <2>1, <3>1
  <2>2. CASE ~(j <= i - 1)
    <3>1. j - (i - 1) \in 1..(n - i) /\ ~(j < i) /\ i + (j - (i - 1)) = j + 1
      BY <1>1, <2>2
    <3>2. QED
      BY <1>3, <1>5, <2>2, <3>1
  <2>3. QED
    BY <2>1, <2>2
<1>7. QED
  BY <1>4, <1>5, <1>6 DEF n

\* A function on 1..n is a sequence of length n.
LEMMA FunctionSeq ==
  ASSUME NEW S, NEW n \in Nat, NEW f \in [1..n -> S]
  PROVE  f \in Seq(S) /\ Len(f) = n /\ DOMAIN f = 1..n
  OBVIOUS

\* Where the elements of a concatenation come from.
LEMMA ConcatAt ==
  ASSUME NEW S, NEW a \in Seq(S), NEW b \in Seq(S), NEW n \in Nat, Len(b) = n
  PROVE  /\ a \o b \in Seq(S) /\ Len(a \o b) = Len(a) + n
         /\ DOMAIN (a \o b) = 1..(Len(a) + n)
         /\ \A i \in 1..(Len(a) + n) :
              (a \o b)[i] = IF i <= Len(a) THEN a[i] ELSE b[i - Len(a)]
<1>1. /\ a \o b \in Seq(S) /\ Len(a \o b) = Len(a) + n
      /\ \A i \in 1..(Len(a) + n) :
           (a \o b)[i] = IF i <= Len(a) THEN a[i] ELSE b[i - Len(a)]
  BY ConcatProperties
<1>2. QED
  BY <1>1, LenProperties

-----------------------------------------------------------------------------
(* Settings and storages stay well-formed under the page's functions.      *)

\* What the fields of a storage are.
LEMMA StorageFields ==
  ASSUME NEW x \in Storage
  PROVE  /\ x \in [type : Types, name : Name, settings : Settings]
         /\ x.type \in Types /\ x.name \in Name /\ Fits(x.type, x.settings)
  BY DEF Storage

\* A storage given settings that fit its type is a storage.
LEMMA SettingsChanged ==
  ASSUME NEW x \in Storage, NEW g \in Settings, Fits(x.type, g)
  PROVE  /\ [x EXCEPT !.settings = g] \in Storage
         /\ [x EXCEPT !.settings = g].type = x.type
         /\ [x EXCEPT !.settings = g].name = x.name
         /\ [x EXCEPT !.settings = g].settings = g
  BY StorageFields DEF Storage

\* A storage given another name is a storage.
LEMMA NameChanged ==
  ASSUME NEW x \in Storage, NEW n \in Name
  PROVE  /\ [x EXCEPT !.name = n] \in Storage
         /\ [x EXCEPT !.name = n].type = x.type
         /\ [x EXCEPT !.name = n].name = n
  BY StorageFields DEF Storage

\* The defaults the forms fill in fit the form's type.
LEMMA FilledFits ==
  ASSUME NEW g \in Settings, ~g.id
  PROVE  /\ Fits("Ebs", g) => FilledEbs(g) \in Settings /\ Fits("Ebs", FilledEbs(g))
         /\ Fits("Efs", g) => FilledEfs(g) \in Settings /\ Fits("Efs", FilledEfs(g))
         /\ Fits("FsxLustre", g) =>
              FilledLustre(g) \in Settings /\ Fits("FsxLustre", FilledLustre(g))
<1>0. /\ g = [id |-> g.id, snapshot |-> g.snapshot, mode |-> g.mode, amount |-> g.amount]
      /\ g.snapshot \in BOOLEAN /\ g.mode \in Modes \cup {None}
      /\ g.amount \in Amounts \cup {None}
      /\ g # Identified
      /\ g = NoSettings => g.mode = None /\ g.amount = None /\ g.snapshot = FALSE
  BY DEF Settings, NoSettings, Identified
<1>1. ASSUME Fits("Ebs", g)
      PROVE  FilledEbs(g) \in Settings /\ Fits("Ebs", FilledEbs(g))
  BY <1>0, <1>1 DEF Fits, FilledEbs, Settings, Amounts
<1>2. ASSUME Fits("Efs", g)
      PROVE  FilledEfs(g) \in Settings /\ Fits("Efs", FilledEfs(g))
  BY StorageAssumption, <1>0, <1>2 DEF StorageAssumption, Fits, FilledEfs, Settings, Modes
<1>3. ASSUME Fits("FsxLustre", g)
      PROVE  FilledLustre(g) \in Settings /\ Fits("FsxLustre", FilledLustre(g))
  BY StorageAssumption, <1>0, <1>3
    DEF StorageAssumption, Fits, FilledLustre, Settings, Modes, Amounts,
        DefaultLustreType, DefaultThroughput
<1>4. QED
  BY <1>1, <1>2, <1>3

\* A form keeps its storage's type and name and sets no identifier.
LEMMA FilledStorage ==
  ASSUME NEW x \in Storage, ~x.settings.id
  PROVE  /\ Filled(x) \in Storage
         /\ Filled(x).type = x.type /\ Filled(x).name = x.name
         /\ ~Filled(x).settings.id
<1> DEFINE g == x.settings
<1>0. g \in Settings /\ Fits(x.type, g)
  BY StorageFields
<1>1. /\ ~FilledEbs(g).id /\ ~FilledEfs(g).id /\ ~FilledLustre(g).id
  BY <1>0 DEF FilledEbs, FilledEfs, FilledLustre, Settings
<1> HIDE DEF g
<1>2. \E h \in Settings : /\ Fits(x.type, h) /\ ~h.id
                          /\ Filled(x) = [x EXCEPT !.settings = h]
  <2>1. CASE x.type = "Ebs"
    <3>1. Filled(x) = [x EXCEPT !.settings = FilledEbs(g)]
      BY <2>1 DEF Filled, g
    <3>2. QED
      BY <1>0, <1>1, <2>1, <3>1, FilledFits DEF g
  <2>2. CASE x.type = "Efs"
    <3>1. Filled(x) = [x EXCEPT !.settings = FilledEfs(g)]
      BY <2>2 DEF Filled, g
    <3>2. QED
      BY <1>0, <1>1, <2>2, <3>1, FilledFits DEF g
  <2>3. CASE x.type = "FsxLustre"
    <3>1. Filled(x) = [x EXCEPT !.settings = FilledLustre(g)]
      BY <2>3 DEF Filled, g
    <3>2. QED
      BY <1>0, <1>1, <2>3, <3>1, FilledFits DEF g
  <2>4. CASE x.type \notin {"Ebs", "Efs", "FsxLustre"}
    <3>1. Filled(x) = [x EXCEPT !.settings = g]
      BY <2>4 DEF Filled, g
    <3>2. QED
      BY <1>0, <3>1 DEF g
  <2>5. QED
    BY <2>1, <2>2, <2>3, <2>4
<1>3. QED
  BY <1>2, SettingsChanged

-----------------------------------------------------------------------------
(* What the page renders is well-formed if what it is given is.            *)

\* While the page made all the names, each is the one of its position.
NameMade(s, i) == s[i].name = <<s[i].type, i - 1>>
NamesMade == ~named => \A i \in DOMAIN storages : NameMade(storages, i)

IInv == TypeOK /\ UiCoversStorages /\ SettingsMatchKind /\ NamesMade

\* s and u may be rendered.
Good(s, u) ==
  /\ s \in Seq(Storage) /\ u \in Seq(BOOLEAN)
  /\ Len(s) <= MaxStorages /\ Len(s) <= Len(u) /\ Len(u) <= MaxUi
  /\ \A i \in DOMAIN s : MatchesKind(s, u, i)

\* Rendering keeps the invariants of what is rendered.
LEMMA RendersWell ==
  ASSUME NEW s, NEW u, NEW vis \in [Positions -> BOOLEAN],
         Good(s, u), Renders(s, u, vis)
  PROVE  /\ shown' \in BOOLEAN
         /\ storages' \in Seq(Storage) /\ Len(storages') = Len(s)
         /\ \A i \in DOMAIN s : NameMade(s, i) => NameMade(storages, i)'
         /\ ui' = u
         /\ visible' \in [Positions -> BOOLEAN]
         /\ SettingsMatchKind'
<1>1. /\ DOMAIN s = 1..Len(s) /\ Len(s) \in Nat
      /\ \A i \in 1..Len(s) : s[i] \in Storage
  BY LenProperties DEF Good
<1> DEFINE F(i) == IF HasForm(s, u, i) THEN Filled(s[i]) ELSE s[i]
<1>2. /\ ui' = u /\ shown' = TRUE
      /\ storages' = [i \in 1..Len(s) |-> F(i)]
  BY <1>1 DEF Renders
<1>3. ASSUME NEW i \in 1..Len(s)
      PROVE  /\ F(i) \in Storage /\ F(i).type = s[i].type /\ F(i).name = s[i].name
             /\ HasForm(s, u, i) => ~F(i).settings.id
             /\ ~HasForm(s, u, i) => F(i).settings \in {NoSettings, Identified}
  <2>1. MatchesKind(s, u, i) /\ s[i] \in Storage
    BY <1>1 DEF Good
  <2>2. CASE HasForm(s, u, i)
    BY <2>1, <2>2, FilledStorage DEF MatchesKind, HasForm
  <2>3. CASE ~HasForm(s, u, i)
    BY <1>1, <2>1, <2>3 DEF MatchesKind, HasForm
  <2>4. QED
    BY <2>2, <2>3
<1> HIDE DEF F
<1>4. /\ storages' \in Seq(Storage) /\ Len(storages') = Len(s)
      /\ DOMAIN storages' = 1..Len(s)
      /\ \A i \in 1..Len(s) : storages'[i] = F(i)
  BY <1>1, <1>2, <1>3
<1>5. SettingsMatchKind'
  <2>1. SUFFICES ASSUME NEW i \in 1..Len(s)
                 PROVE  MatchesKind(storages, ui, i)'
    BY <1>4 DEF SettingsMatchKind
  <2>2. UseExisting(storages, ui, i)' <=> ~HasForm(s, u, i)
    BY <1>1, <1>2, <1>3, <1>4 DEF UseExisting, HasForm
  <2>3. QED
    BY <1>3, <1>4, <2>2 DEF MatchesKind
<1>6. visible' \in [Positions -> BOOLEAN]
  <2>1. ASSUME NEW i \in Positions, HasEbsForm(s, u, i)
        PROVE  s[i].settings.snapshot \in BOOLEAN
    BY <1>1, <2>1, StorageFields DEF HasEbsForm, HasForm, Settings
  <2>2. QED
    BY <2>1 DEF Renders
<1>7. \A i \in DOMAIN s : NameMade(s, i) => NameMade(storages, i)'
  BY <1>1, <1>3, <1>4 DEF NameMade
<1>8. QED
  BY <1>2, <1>4, <1>5, <1>6, <1>7

-----------------------------------------------------------------------------
(* What the operations give to render, and the errors they leave.          *)

\* What the page holds may be rendered.
LEMMA CurrentGood ==
  ASSUME IInv
  PROVE  /\ Good(storages, ui)
         /\ DOMAIN storages = 1..Len(storages) /\ DOMAIN ui = 1..Len(ui)
         /\ Len(storages) \in Nat /\ Len(ui) \in Nat
         /\ \A i \in DOMAIN storages : /\ i \in DOMAIN ui /\ ui[i] \in BOOLEAN
                                       /\ storages[i] \in Storage
  BY LenProperties DEF IInv, TypeOK, UiCoversStorages, SettingsMatchKind, Good

\* One storage is replaced by another of its type.
LEMMA ReplacedGood ==
  ASSUME IInv, NEW i \in DOMAIN storages, NEW x \in Storage, NEW b \in BOOLEAN,
         x.type = storages[i].type,
         IF b \/ MaxToCreate[x.type] = 0
           THEN x.settings \in {NoSettings, Identified} ELSE ~x.settings.id
  PROVE  /\ Good([storages EXCEPT ![i] = x], [ui EXCEPT ![i] = b])
         /\ Len([storages EXCEPT ![i] = x]) = Len(storages)
         /\ Len([ui EXCEPT ![i] = b]) = Len(ui)
         /\ \A j \in DOMAIN storages :
              NameMade(storages, j) /\ (j = i => x.name = storages[i].name)
                => NameMade([storages EXCEPT ![i] = x], j)
<1> DEFINE s == [storages EXCEPT ![i] = x]
           u == [ui EXCEPT ![i] = b]
<1>1. /\ s \in Seq(Storage) /\ Len(s) = Len(storages) /\ DOMAIN s = DOMAIN storages
      /\ u \in Seq(BOOLEAN) /\ Len(u) = Len(ui) /\ i \in DOMAIN ui
  BY CurrentGood, ExceptSeq DEF Good
<1>2. ASSUME NEW j \in DOMAIN storages
      PROVE  MatchesKind(s, u, j)
  <2>1. CASE j = i
    BY <1>1, <2>1, CurrentGood DEF MatchesKind, UseExisting
  <2>2. CASE j # i
    BY <1>1, <2>2, CurrentGood DEF MatchesKind, UseExisting, Good
  <2>3. QED
    BY <2>1, <2>2
<1>3. Good(s, u)
  BY <1>1, <1>2, CurrentGood DEF Good
<1>4. ASSUME NEW j \in DOMAIN storages, NameMade(storages, j),
             j = i => x.name = storages[i].name
      PROVE  NameMade(s, j)
  BY <1>1, <1>4, CurrentGood DEF NameMade
<1>5. QED
  BY <1>1, <1>3, <1>4

\* Validation leaves errors of fields that exist.
LEMMA ErrorsWell ==
  ASSUME errors \in [Positions -> SUBSET Field], NEW s \in Seq(Storage), NEW u
  PROVE  StorageErrors(s, u) \in [Positions -> SUBSET Field]
<1>1. \A i \in DOMAIN s : s[i].type \in Types
  BY LenProperties, StorageFields
<1>2. \A i \in DOMAIN s : Checked(s, u, i) \subseteq Field
  BY <1>1 DEF Checked, Field
<1>3. QED
  BY <1>2 DEF StorageErrors, Invalid

\* The settings of one storage are replaced.
LEMMA SettingsGood ==
  ASSUME IInv, NEW i \in DOMAIN storages, NEW g \in Settings,
         Fits(storages[i].type, g),
         IF UseExisting(storages, ui, i) THEN g \in {NoSettings, Identified} ELSE ~g.id
  PROVE  LET s == [storages EXCEPT ![i].settings = g]
         IN  /\ Good(s, ui) /\ Len(s) = Len(storages)
             /\ \A j \in DOMAIN s : NameMade(storages, j) => NameMade(s, j)
<1> DEFINE x == [storages[i] EXCEPT !.settings = g]
           s == [storages EXCEPT ![i] = x]
<1>1. /\ x \in Storage /\ x.type = storages[i].type /\ x.name = storages[i].name
      /\ x.settings = g
  BY CurrentGood, SettingsChanged
<1>2. /\ [ui EXCEPT ![i] = ui[i]] = ui /\ ui[i] \in BOOLEAN
      /\ DOMAIN s = DOMAIN storages
  <2>1. ui \in [1..Len(ui) -> BOOLEAN] /\ i \in 1..Len(ui)
    BY CurrentGood, LenProperties DEF Good
  <2>2. QED
    BY <2>1
<1> HIDE DEF x
<1>3. IF ui[i] \/ MaxToCreate[x.type] = 0
        THEN x.settings \in {NoSettings, Identified} ELSE ~x.settings.id
  BY <1>1 DEF UseExisting
<1>4. Good(s, [ui EXCEPT ![i] = ui[i]]) /\ Len(s) = Len(storages)
      /\ \A j \in DOMAIN storages : NameMade(storages, j) => NameMade(s, j)
  BY <1>1, <1>2, <1>3, ReplacedGood
<1>5. QED
  BY <1>2, <1>4 DEF x

\* A step of the page preserves the invariant if what it renders is good.
LEMMA PageStep ==
  ASSUME IInv, NEW s, NEW u, NEW vis \in [Positions -> BOOLEAN],
         Good(s, u), Renders(s, u, vis),
         UNCHANGED <<version, editing>>,
         errors' \in [Positions -> SUBSET Field], validated' \in BOOLEAN,
         aligned' \in BOOLEAN, named' \in BOOLEAN, shifted' \in BOOLEAN,
         aligned' => Len(s) = Len(u),
         ~named' => \A i \in DOMAIN s : NameMade(s, i)
  PROVE  IInv'
<1>1. /\ shown' \in BOOLEAN /\ storages' \in Seq(Storage) /\ Len(storages') = Len(s)
      /\ \A i \in DOMAIN s : NameMade(s, i) => NameMade(storages, i)'
      /\ ui' = u /\ visible' \in [Positions -> BOOLEAN] /\ SettingsMatchKind'
  BY RendersWell
<1>2. DOMAIN storages' = DOMAIN s
  BY <1>1, LenProperties DEF Good
<1>3. TypeOK'
  BY <1>1 DEF IInv, TypeOK, Good
<1>4. UiCoversStorages'
  BY <1>1 DEF UiCoversStorages, Good
<1>5. NamesMade'
  BY <1>1, <1>2 DEF NamesMade
<1>6. QED
  BY <1>1, <1>3, <1>4, <1>5 DEF IInv

\* A step that only gives a storage other settings.
LEMMA SettingsStep ==
  ASSUME IInv, NEW i \in DOMAIN storages, NEW g \in Settings,
         Fits(storages[i].type, g),
         IF UseExisting(storages, ui, i) THEN g \in {NoSettings, Identified} ELSE ~g.id,
         NEW vis \in [Positions -> BOOLEAN],
         Renders([storages EXCEPT ![i].settings = g], ui, vis),
         errors' \in [Positions -> SUBSET Field],
         UNCHANGED <<version, editing, validated, aligned, named, shifted>>
  PROVE  IInv'
<1> DEFINE s == [storages EXCEPT ![i].settings = g]
<1>1. /\ Good(s, ui) /\ Len(s) = Len(storages)
      /\ \A j \in DOMAIN s : NameMade(storages, j) => NameMade(s, j)
  BY SettingsGood
<1>2. DOMAIN s = DOMAIN storages
  OBVIOUS
<1> HIDE DEF s
<1>3. /\ aligned' => Len(s) = Len(ui)
      /\ ~named' => \A j \in DOMAIN s : NameMade(s, j)
  BY <1>1, <1>2 DEF IInv, UiCoversStorages, NamesMade
<1>4. Renders(s, ui, vis)
  BY DEF s
<1>5. QED
  BY <1>1, <1>3, <1>4, PageStep DEF IInv, TypeOK

-----------------------------------------------------------------------------
(* The page's operations preserve the invariant.                           *)

\* s and u are the storages and their entries with a batch added behind them.
Added(sel, s, u) ==
  LET n == Len(storages)
  IN  /\ Good(s, u) /\ Renders(s, u, visible)
      /\ Len(s) = n + Len(sel) /\ Len(u) = Len(ui) + Len(sel)
      /\ \A i \in 1..n : s[i] = storages[i] /\ u[i] = ui[i]
      /\ \A i \in (n + 1)..(n + Len(sel)) :
           s[i] = [type |-> sel[i - n], name |-> <<sel[i - n], i - 1>>,
                   settings |-> NoSettings]
      /\ Len(ui) = n =>
           \A i \in (n + 1)..(n + Len(sel)) :
             u[i] = ~CanCreateStorage(sel[i - n], storages, ui)

\* A batch of new storages gets entries and names of its positions.
LEMMA AddingAdds ==
  ASSUME IInv, NEW sel \in Batches, OnAddStorageSubmit(sel)
  PROVE  \E s, u : Added(sel, s, u)
<1> DEFINE n == Len(sel)
           old == Len(storages)
           entries == BuildStorageEntries(storages, ui, sel)
           s == storages \o entries.new
           u == ui \o entries.ui
<1>1. n \in Nat /\ DOMAIN sel = 1..n /\ \A k \in 1..n : sel[k] \in Types
  <2>1. PICK m \in 1..MaxBatch : sel \in [1..m -> Offered]
    BY DEF Batches
  <2>2. m \in Nat
    BY StorageAssumption DEF StorageAssumption
  <2>3. Len(sel) = m
    BY <2>1, <2>2
  <2>4. QED
    BY <2>1, <2>2, <2>3 DEF Offered, Supported
<1>2. /\ entries.new \in Seq(Storage) /\ Len(entries.new) = n
      /\ \A k \in 1..n :
           entries.new[k] = [type |-> sel[k], name |-> <<sel[k], old + k - 1>>,
                             settings |-> NoSettings]
      /\ entries.ui \in Seq(BOOLEAN) /\ Len(entries.ui) = n
      /\ \A k \in 1..n : entries.ui[k] = ~CanCreateStorage(sel[k], storages, ui)
  <2>1. ASSUME NEW k \in 1..n
        PROVE  [type |-> sel[k], name |-> <<sel[k], old + k - 1>>,
                settings |-> NoSettings] \in Storage
    <3>1. old + k - 1 \in Nat
      BY <1>1, CurrentGood
    <3>2. NoSettings \in Settings /\ Fits(sel[k], NoSettings)
      BY DEF NoSettings, Settings, Fits
    <3>3. QED
      BY <1>1, <3>1, <3>2 DEF Storage, Name
  <2>2. \A k \in 1..n : (~CanCreateStorage(sel[k], storages, ui)) \in BOOLEAN
    OBVIOUS
  <2>3. QED
    BY <1>1, <2>1, <2>2 DEF BuildStorageEntries
<1> HIDE DEF entries, n
<1>3. /\ s \in Seq(Storage) /\ Len(s) = old + n /\ DOMAIN s = 1..(old + n)
      /\ \A i \in 1..(old + n) :
           s[i] = IF i <= old THEN storages[i] ELSE entries.new[i - old]
      /\ u \in Seq(BOOLEAN) /\ Len(u) = Len(ui) + n
      /\ \A i \in 1..(Len(ui) + n) :
           u[i] = IF i <= Len(ui) THEN ui[i] ELSE entries.ui[i - Len(ui)]
  <2>1. /\ storages \in Seq(Storage) /\ ui \in Seq(BOOLEAN)
        /\ Len(storages) \in Nat /\ Len(ui) \in Nat
    BY CurrentGood DEF Good
  <2>2. /\ s \in Seq(Storage) /\ Len(s) = Len(storages) + n
        /\ DOMAIN s = 1..(Len(storages) + n)
        /\ \A i \in 1..(Len(storages) + n) :
             s[i] = IF i <= Len(storages) THEN storages[i] ELSE entries.new[i - Len(storages)]
    <3> DEFINE new == entries.new
    <3>1. new \in Seq(Storage) /\ Len(new) = n /\ n \in Nat
      BY <1>1, <1>2
    <3> HIDE DEF old, s, u, new
    <3>2. /\ storages \o new \in Seq(Storage)
          /\ Len(storages \o new) = Len(storages) + n
          /\ DOMAIN (storages \o new) = 1..(Len(storages) + n)
          /\ \A i \in 1..(Len(storages) + n) :
               (storages \o new)[i] =
                 IF i <= Len(storages) THEN storages[i] ELSE new[i - Len(storages)]
      BY <2>1, <3>1, ConcatAt
    <3>3. QED
      BY <3>2 DEF s, new
  <2>3. /\ u \in Seq(BOOLEAN) /\ Len(u) = Len(ui) + n
        /\ \A i \in 1..(Len(ui) + n) :
             u[i] = IF i <= Len(ui) THEN ui[i] ELSE entries.ui[i - Len(ui)]
    <3> DEFINE new == entries.ui
    <3>1. new \in Seq(BOOLEAN) /\ Len(new) = n /\ n \in Nat
      BY <1>1, <1>2
    <3> HIDE DEF old, s, u, new
    <3>2. /\ ui \o new \in Seq(BOOLEAN) /\ Len(ui \o new) = Len(ui) + n
          /\ \A i \in 1..(Len(ui) + n) :
               (ui \o new)[i] = IF i <= Len(ui) THEN ui[i] ELSE new[i - Len(ui)]
      BY <2>1, <3>1, ConcatAt
    <3>3. QED
      BY <3>2 DEF u, new
  <2> HIDE DEF s, u
  <2>4. QED
    BY <2>2, <2>3 DEF old
<1> HIDE DEF s, u
<1>4. ASSUME NEW i \in 1..(old + n)
      PROVE  /\ MatchesKind(s, u, i)
             /\ i <= old => s[i] = storages[i] /\ u[i] = ui[i]
             /\ i > old => /\ i - old \in 1..n
                           /\ s[i] = [type |-> sel[i - old],
                                      name |-> <<sel[i - old], i - 1>>,
                                      settings |-> NoSettings]
  <2>1. CASE i <= old
    <3>1. /\ Len(storages) \in Nat /\ Len(ui) \in Nat /\ n \in Nat
          /\ DOMAIN storages = 1..Len(storages) /\ DOMAIN ui = 1..Len(ui)
          /\ \A k \in DOMAIN storages : k \in DOMAIN ui
      BY <1>1, CurrentGood
    <3>2. i \in DOMAIN storages /\ ~(i > old)
      BY <2>1, <3>1
    <3>3. i <= Len(ui) /\ i \in 1..(Len(ui) + n)
      BY <3>1, <3>2
    <3>4. s[i] = storages[i] /\ u[i] = ui[i]
      BY <1>3, <2>1, <3>3
    <3>5. QED
      BY <2>1, <3>2, <3>4, CurrentGood DEF MatchesKind, UseExisting, Good
  <2>2. CASE ~(i <= old)
    <3>1. /\ i - old \in 1..n /\ old + (i - old) - 1 = i - 1
      BY <1>1, <2>2, CurrentGood
    <3>2. s[i] = [type |-> sel[i - old], name |-> <<sel[i - old], i - 1>>,
                  settings |-> NoSettings]
      BY <1>2, <1>3, <2>2, <3>1
    <3>3. QED
      BY <2>2, <3>1, <3>2 DEF MatchesKind, UseExisting, NoSettings
  <2>3. QED
    BY <2>1, <2>2
<1>5. Good(s, u)
  <2>1. Len(s) <= MaxStorages /\ Len(s) <= Len(u) /\ Len(u) <= MaxUi
    BY <1>1, <1>3, CurrentGood DEF OnAddStorageSubmit, IInv, UiCoversStorages, n
  <2>2. QED
    BY <1>3, <1>4, <2>1 DEF Good
<1>6. ASSUME Len(ui) = old, NEW i \in (old + 1)..(old + n)
      PROVE  u[i] = ~CanCreateStorage(sel[i - old], storages, ui)
  <2>1. i - old \in 1..n /\ ~(i <= Len(ui)) /\ i \in 1..(Len(ui) + n)
    BY <1>1, <1>6, CurrentGood
  <2>2. u[i] = entries.ui[i - old]
    BY <1>3, <1>6, <2>1
  <2>3. QED
    BY <1>2, <2>1, <2>2
<1>7. Renders(s, u, visible)
  BY DEF OnAddStorageSubmit, s, u, entries
<1>8. /\ \A i \in 1..old : i \in 1..(old + n) /\ i <= old
      /\ \A i \in (old + 1)..(old + n) : i \in 1..(old + n) /\ i > old
  BY <1>1, CurrentGood
<1> HIDE DEF old
<1>9. /\ \A i \in 1..old : s[i] = storages[i] /\ u[i] = ui[i]
      /\ \A i \in (old + 1)..(old + n) :
           s[i] = [type |-> sel[i - old], name |-> <<sel[i - old], i - 1>>,
                   settings |-> NoSettings]
  BY <1>4, <1>8
<1>10. Added(sel, s, u)
  BY <1>3, <1>5, <1>6, <1>7, <1>9 DEF Added, old, n
<1>11. QED
  BY <1>10

\* The names of a batch are those of its positions.
LEMMA AddPreserves ==
  ASSUME IInv, NEW sel \in Batches, OnAddStorageSubmit(sel)
  PROVE  IInv'
<1>1. PICK s, u : Added(sel, s, u)
  BY AddingAdds
<1>2. /\ DOMAIN s = 1..Len(s) /\ Len(s) \in Nat /\ Len(u) \in Nat
      /\ Len(storages) \in Nat /\ Len(ui) \in Nat
      /\ DOMAIN storages = 1..Len(storages)
  BY <1>1, CurrentGood, LenProperties DEF Added, Good
<1>3. ASSUME NEW i \in DOMAIN s, i \in DOMAIN storages => NameMade(storages, i)
      PROVE  NameMade(s, i)
  <2>1. CASE i \in DOMAIN storages
    BY <1>1, <1>2, <1>3, <2>1 DEF Added, NameMade
  <2>2. CASE i \notin DOMAIN storages
    <3>1. /\ i \in (Len(storages) + 1)..(Len(storages) + Len(sel))
      BY <1>1, <1>2, <2>2 DEF Added
    <3>2. s[i] = [type |-> sel[i - Len(storages)],
                  name |-> <<sel[i - Len(storages)], i - 1>>, settings |-> NoSettings]
      BY <1>1, <3>1 DEF Added
    <3>3. QED
      BY <3>2 DEF NameMade
  <2>3. QED
    BY <2>1, <2>2
<1>4. Len(storages) = Len(ui) => Len(s) = Len(u)
  BY <1>1, <1>2 DEF Added
<1>5. /\ aligned' => Len(s) = Len(u)
      /\ ~named' => \A i \in DOMAIN s : NameMade(s, i)
  BY <1>3, <1>4 DEF OnAddStorageSubmit, IInv, UiCoversStorages, NamesMade
<1>6. QED
  BY <1>1, <1>5, PageStep DEF Added, OnAddStorageSubmit, IInv, TypeOK

\* s and u are the storages and their entries without the i-th of each.
BackTo(i, j) == IF j < i THEN j ELSE j + 1
Removed(i, s, u) ==
  /\ Good(s, u) /\ Renders(s, u, visible)
  /\ Len(s) = Len(storages) - 1 /\ Len(u) = Len(ui) - 1
  /\ \A j \in DOMAIN s :
       /\ NameMade(s, j)
       /\ BackTo(i, j) \in DOMAIN storages
       /\ s[j].type = storages[BackTo(i, j)].type
       /\ s[j].settings = storages[BackTo(i, j)].settings
       /\ u[j] = ui[BackTo(i, j)]

\* A removal shifts the storages and their entries alike and renames.
LEMMA RemovingRemoves ==
  ASSUME IInv, NEW i \in DOMAIN storages, RemoveStorage(i), Len(storages) # 1
  PROVE  \E s, u : Removed(i, s, u)
<1> DEFINE n == Len(storages)
           r == RemoveAt(storages, i)
           s == Renamed(r)
           u == RemoveAt(ui, i)
<1>1. /\ r \in Seq(Storage) /\ Len(r) = n - 1 /\ DOMAIN r = 1..(n - 1)
      /\ \A j \in 1..(n - 1) : r[j] = IF j < i THEN storages[j] ELSE storages[j + 1]
      /\ u \in Seq(BOOLEAN) /\ Len(u) = Len(ui) - 1
      /\ \A j \in 1..(Len(ui) - 1) : u[j] = IF j < i THEN ui[j] ELSE ui[j + 1]
  <2>1. storages \in Seq(Storage) /\ ui \in Seq(BOOLEAN) /\ i \in DOMAIN ui
    BY CurrentGood DEF Good
  <2>2. /\ r \in Seq(Storage) /\ Len(r) = n - 1
        /\ \A j \in 1..(n - 1) : r[j] = IF j < i THEN storages[j] ELSE storages[j + 1]
    BY <2>1, RemoveAtProperties
  <2>3. /\ u \in Seq(BOOLEAN) /\ Len(u) = Len(ui) - 1
        /\ \A j \in 1..(Len(ui) - 1) : u[j] = IF j < i THEN ui[j] ELSE ui[j + 1]
    BY <2>1, RemoveAtProperties
  <2> HIDE DEF n, r, s, u
  <2>4. DOMAIN r = 1..(n - 1)
    BY <2>2, LenProperties
  <2>5. QED
    BY <2>2, <2>3, <2>4
<1> HIDE DEF r, u
<1>2. ASSUME NEW j \in 1..(n - 1)
      PROVE  /\ [r[j] EXCEPT !.name = <<r[j].type, j - 1>>] \in Storage
             /\ [r[j] EXCEPT !.name = <<r[j].type, j - 1>>].type = r[j].type
             /\ [r[j] EXCEPT !.name = <<r[j].type, j - 1>>].name = <<r[j].type, j - 1>>
             /\ [r[j] EXCEPT !.name = <<r[j].type, j - 1>>].settings = r[j].settings
  <2>1. r[j] \in Storage
    BY <1>1
  <2>2. <<r[j].type, j - 1>> \in Name
    BY <2>1, StorageFields, CurrentGood DEF Name
  <2>3. QED
    BY <2>1, <2>2, NameChanged DEF Storage
<1>3. /\ s \in Seq(Storage) /\ Len(s) = n - 1 /\ DOMAIN s = 1..(n - 1)
      /\ \A j \in 1..(n - 1) : /\ s[j].type = r[j].type /\ s[j].settings = r[j].settings
                               /\ NameMade(s, j)
  <2>1. s = [j \in 1..(n - 1) |-> [r[j] EXCEPT !.name = <<r[j].type, j - 1>>]]
    BY <1>1 DEF Renamed
  <2>2. n - 1 \in Nat
    BY CurrentGood
  <2> HIDE DEF s, n
  <2>3. /\ s \in Seq(Storage) /\ Len(s) = n - 1 /\ DOMAIN s = 1..(n - 1)
        /\ \A j \in 1..(n - 1) : s[j] = [r[j] EXCEPT !.name = <<r[j].type, j - 1>>]
    <3>1. s \in [1..(n - 1) -> Storage]
      BY <1>2, <2>1
    <3>2. QED
      BY <2>1, <2>2, <3>1, FunctionSeq
  <2>4. QED
    BY <1>2, <2>3 DEF NameMade
<1>4. ASSUME NEW j \in 1..(n - 1)
      PROVE  /\ MatchesKind(s, u, j)
             /\ BackTo(i, j) \in DOMAIN storages
             /\ r[j] = storages[BackTo(i, j)] /\ u[j] = ui[BackTo(i, j)]
  <2> DEFINE k == BackTo(i, j)
  <2>1. /\ k \in DOMAIN storages /\ r[j] = storages[k] /\ u[j] = ui[k]
    <3>1. /\ n \in Nat /\ Len(ui) \in Nat /\ n <= Len(ui) /\ i \in 1..n
          /\ DOMAIN storages = 1..n
      BY CurrentGood DEF IInv, UiCoversStorages
    <3>2. k = IF j < i THEN j ELSE j + 1
      BY DEF BackTo
    <3> HIDE DEF n, s, k
    <3>3. j \in 1..(Len(ui) - 1) /\ k \in 1..n
      BY ONLY <3>1, <3>2, i \in 1..n, j \in 1..(n - 1)
    <3>4. QED
      BY ONLY <1>1, <3>1, <3>2, <3>3, j \in 1..(n - 1)
  <2>2. MatchesKind(storages, ui, k)
    BY <2>1, CurrentGood DEF Good
  <2> HIDE DEF k, s
  <2>3. MatchesKind(s, u, j)
    BY <1>3, <2>1, <2>2 DEF MatchesKind, UseExisting
  <2>4. QED
    BY <2>1, <2>3 DEF k
<1> HIDE DEF s
<1>5. Good(s, u)
  <2>1. /\ Len(s) <= MaxStorages /\ Len(s) <= Len(u) /\ Len(u) <= MaxUi
    BY <1>1, <1>3, CurrentGood, StorageAssumption
      DEF StorageAssumption, Good, IInv, UiCoversStorages
  <2>2. QED
    BY <1>1, <1>3, <1>4, <2>1 DEF Good
<1>6. Renders(s, u, visible)
  BY DEF RemoveStorage, r, s, u
<1> HIDE DEF n
<1>7. Removed(i, s, u)
  BY <1>1, <1>3, <1>4, <1>5, <1>6 DEF Removed, n
<1>8. QED
  BY <1>7

\* The names after a removal are those of the new positions.
LEMMA RemovePreserves ==
  ASSUME IInv, NEW i \in DOMAIN storages, RemoveStorage(i)
  PROVE  IInv'
<1>1. CASE Len(storages) = 1
  <2>1. Good(<<>>, <<>>) /\ Len(<<>>) = Len(<<>>) /\ DOMAIN <<>> = {}
    BY StorageAssumption DEF StorageAssumption, Good
  <2>2. Renders(<<>>, <<>>, visible)
    BY <1>1 DEF RemoveStorage
  <2>3. QED
    BY <1>1, <2>1, <2>2, PageStep DEF RemoveStorage, IInv, TypeOK
<1>2. CASE Len(storages) # 1
  <2>1. PICK s, u : Removed(i, s, u)
    BY <1>2, RemovingRemoves
  <2>2. /\ UNCHANGED <<version, editing, errors, validated>> /\ named' = FALSE
        /\ errors' \in [Positions -> SUBSET Field] /\ validated' \in BOOLEAN
        /\ aligned' = aligned /\ aligned' \in BOOLEAN /\ shifted' \in BOOLEAN
        /\ visible \in [Positions -> BOOLEAN]
    BY <1>2 DEF RemoveStorage, IInv, TypeOK
  <2>3. /\ aligned' => Len(s) = Len(u)
        /\ ~named' => \A j \in DOMAIN s : NameMade(s, j)
    BY <2>1, <2>2 DEF Removed, IInv, UiCoversStorages
  <2>4. QED
    BY <2>1, <2>2, <2>3, PageStep DEF Removed
<1>3. QED
  BY <1>1, <1>2

\* s and u are the storages and their entries with the i-th switched.
Toggled(i, s, u) ==
  /\ Good(s, u) /\ Renders(s, u, visible)
  /\ s = [storages EXCEPT ![i].settings = NoSettings]
  /\ u = [ui EXCEPT ![i] = ~UseExisting(storages, ui, i)]

\* Switching a storage clears its settings, which suits either kind.
LEMMA TogglingToggles ==
  ASSUME IInv, NEW i \in DOMAIN storages, ToggleUseExisting(i)
  PROVE  \E s, u : /\ Toggled(i, s, u)
                   /\ Len(s) = Len(storages) /\ Len(u) = Len(ui)
                   /\ \A j \in DOMAIN storages : NameMade(storages, j) => NameMade(s, j)
<1> DEFINE x == [storages[i] EXCEPT !.settings = NoSettings]
           b == ~UseExisting(storages, ui, i)
           s == [storages EXCEPT ![i] = x]
           u == [ui EXCEPT ![i] = b]
<1>1. /\ x \in Storage /\ x.type = storages[i].type /\ x.name = storages[i].name
      /\ x.settings = NoSettings
  <2>1. NoSettings \in Settings /\ Fits(storages[i].type, NoSettings)
    BY DEF NoSettings, Settings, Fits
  <2>2. QED
    BY <2>1, CurrentGood, SettingsChanged
<1>2. b \in BOOLEAN
  OBVIOUS
<1>3. /\ Renders(s, u, visible)
      /\ s = [storages EXCEPT ![i].settings = NoSettings]
      /\ u = [ui EXCEPT ![i] = ~UseExisting(storages, ui, i)]
  BY DEF ToggleUseExisting
<1> HIDE DEF x, b
<1>4. /\ Good(s, u) /\ Len(s) = Len(storages) /\ Len(u) = Len(ui)
      /\ \A j \in DOMAIN storages : NameMade(storages, j) => NameMade(s, j)
  <2>1. ~NoSettings.id
    BY DEF NoSettings
  <2>2. QED
    BY <1>1, <1>2, <2>1, ReplacedGood
<1> HIDE DEF s, u
<1>5. QED
  BY <1>3, <1>4 DEF Toggled

\* A switched storage keeps its name.
LEMMA TogglePreserves ==
  ASSUME IInv, NEW i \in DOMAIN storages, ToggleUseExisting(i)
  PROVE  IInv'
<1>1. PICK s, u : /\ Toggled(i, s, u)
                  /\ Len(s) = Len(storages) /\ Len(u) = Len(ui)
                  /\ \A j \in DOMAIN storages : NameMade(storages, j) => NameMade(s, j)
  BY TogglingToggles
<1>2. DOMAIN s = DOMAIN storages
  BY <1>1 DEF Toggled
<1>3. /\ aligned' => Len(s) = Len(u)
      /\ ~named' => \A j \in DOMAIN s : NameMade(s, j)
  BY <1>1, <1>2 DEF ToggleUseExisting, IInv, UiCoversStorages, NamesMade
<1>4. QED
  BY <1>1, <1>3, PageStep DEF Toggled, ToggleUseExisting, IInv, TypeOK

\* s is the storages with another name for the i-th.
TypedAt(i, n, s) ==
  /\ Good(s, ui) /\ Renders(s, ui, visible)
  /\ s = [storages EXCEPT ![i].name = n]

\* A typed name changes nothing else of a storage.
LEMMA NamingNames ==
  ASSUME IInv, NEW i \in DOMAIN storages, NEW n \in TypedNames, UpdateStorageName(i, n)
  PROVE  \E s : TypedAt(i, n, s) /\ Len(s) = Len(storages)
<1> DEFINE x == [storages[i] EXCEPT !.name = n]
           s == [storages EXCEPT ![i] = x]
<1>1. /\ x \in Storage /\ x.type = storages[i].type
      /\ x.settings = storages[i].settings
  BY CurrentGood, NameChanged DEF Name, Storage
<1>2. [ui EXCEPT ![i] = ui[i]] = ui /\ ui[i] \in BOOLEAN
  <2>1. ui \in [1..Len(ui) -> BOOLEAN] /\ i \in 1..Len(ui)
    BY CurrentGood, LenProperties DEF Good
  <2>2. QED
    BY <2>1
<1>3. Renders(s, ui, visible) /\ s = [storages EXCEPT ![i].name = n]
  BY DEF UpdateStorageName, Sets
<1> HIDE DEF x
<1>4. IF ui[i] \/ MaxToCreate[x.type] = 0
        THEN x.settings \in {NoSettings, Identified} ELSE ~x.settings.id
  BY <1>1, CurrentGood DEF Good, MatchesKind, UseExisting
<1>5. Good(s, ui) /\ Len(s) = Len(storages)
  BY <1>1, <1>2, <1>4, ReplacedGood
<1> HIDE DEF s
<1>6. QED
  BY <1>3, <1>5 DEF TypedAt

\* Once a name is typed, the names need not be those the page made.
LEMMA NamePreserves ==
  ASSUME IInv, NEW i \in DOMAIN storages, NEW n \in TypedNames, UpdateStorageName(i, n)
  PROVE  IInv'
<1>1. PICK s : TypedAt(i, n, s) /\ Len(s) = Len(storages)
  BY NamingNames
<1>2. (aligned' => Len(s) = Len(ui)) /\ named'
  BY <1>1 DEF UpdateStorageName, IInv, UiCoversStorages
<1>3. QED
  BY <1>1, <1>2, PageStep DEF TypedAt, UpdateStorageName, IInv, TypeOK

\* Settings g given to one storage keep the forms right: a snapshot is new only
\* where the form shows it, and a Lustre throughput is that of its deployment
\* type, or none.
FormsKept(i, g, vis) ==
  /\ \A j \in Positions \ {i} : vis[j] = visible[j]
  /\ HasEbsForm(storages, ui, i) /\ g.snapshot =>
       vis[i] \/ (storages[i].settings.snapshot /\ vis[i] = visible[i])
  /\ storages[i].type = "FsxLustre" => g.amount \in {None, DefaultThroughput(g.mode)}

\* An edit renders one storage with settings g of its kind and keeps all else.
SettingsEdited(i, g, vis) ==
  /\ Fits(storages[i].type, g)
  /\ IF UseExisting(storages, ui, i) THEN g \in {NoSettings, Identified} ELSE ~g.id
  /\ shown /\ Renders([storages EXCEPT ![i].settings = g], ui, vis)
  /\ errors' \in [Positions -> SUBSET Field]
  /\ UNCHANGED <<version, editing, validated, aligned, named, shifted>>
  /\ FormsKept(i, g, vis)
Edited(i) ==
  \E g \in Settings, vis \in [Positions -> BOOLEAN] : SettingsEdited(i, g, vis)

\* The steps that give one storage other settings.
LEMMA EditsAre ==
  ASSUME IInv, NEW i \in DOMAIN storages
  PROVE  /\ \A given \in BOOLEAN : ChooseExisting(i, given) => Edited(i)
         /\ \A a \in {"ok", "bad"} :
              SetVolumeSize(i, a) \/ SetProvisionedThroughput(i, a) => Edited(i)
         /\ ToggleSnapshotVisibility(i) \/ SetSnapshotId(i) => Edited(i)
         /\ ToggleThroughputMode(i) => Edited(i)
         /\ \A m \in LustreTypes : SelectLustreType(i, m) => Edited(i)
<1> DEFINE t == storages[i].type
           g == storages[i].settings
<1>1. /\ g \in Settings /\ Fits(t, g) /\ t \in Types
      /\ visible \in [Positions -> BOOLEAN]
      /\ errors \in [Positions -> SUBSET Field]
  BY CurrentGood, StorageFields DEF Settings, IInv, TypeOK
<1>2. IF UseExisting(storages, ui, i) THEN g \in {NoSettings, Identified} ELSE ~g.id
  BY CurrentGood DEF Good, MatchesKind
<1>3. HasForm(storages, ui, i) <=> ~UseExisting(storages, ui, i)
  BY DEF HasForm
<1> HIDE DEF t, g
\* What the settings of a managed storage are, by its type.
<1>4. /\ g = NoSettings => g.mode = None /\ g.amount = None /\ ~g.snapshot
      /\ ~g.id => g # Identified
  BY DEF NoSettings, Identified
<1>5. ASSUME ~g.id
      PROVE  /\ t = "Ebs" => g.mode = None /\ g.amount \in {None, "ok", "bad"}
             /\ t = "Efs" => /\ ~g.snapshot
                             /\ g.mode \in {None, "bursting", "provisioned"}
                             /\ g.mode # "provisioned" => g.amount = None
             /\ t = "FsxLustre" => ~g.snapshot
  BY <1>1, <1>4, <1>5, StorageAssumption DEF StorageAssumption, Fits, Modes
<1>6. ASSUME NEW given \in BOOLEAN, ChooseExisting(i, given)
      PROVE  Edited(i)
  <2> DEFINE h == [g EXCEPT !.id = given]
  <2>1. h \in {NoSettings, Identified}
    <3>1. g \in {NoSettings, Identified}
      BY <1>2, <1>6 DEF ChooseExisting
    <3>2. /\ h \in Settings /\ NoSettings \in Settings /\ Identified \in Settings
          /\ h.id = given /\ NoSettings.id = FALSE /\ Identified.id = TRUE
      BY <1>1 DEF NoSettings, Identified, Settings
    <3>3. \A r \in {h, NoSettings, Identified} :
            r.mode = None /\ r.amount = None /\ r.snapshot = FALSE
      BY <1>1, <3>1 DEF NoSettings, Identified, Settings
    <3> HIDE DEF h
    <3>4. h.id = NoSettings.id => h = NoSettings
      BY <3>2, <3>3 DEF Settings
    <3>5. h.id = Identified.id => h = Identified
      BY <3>2, <3>3 DEF Settings
    <3>6. QED
      BY <3>2, <3>4, <3>5
  <2>2. h \in Settings /\ Fits(t, h)
    BY <2>1 DEF Fits, Settings, NoSettings, Identified
  <2>3. Renders([storages EXCEPT ![i].settings = h], ui, visible)
    BY <1>6 DEF ChooseExisting, SetSettings, Sets, g
  <2>k. FormsKept(i, h, visible)
    BY <1>6, <2>1 DEF ChooseExisting, FormsKept, HasEbsForm, HasForm, NoSettings, Identified
  <2> HIDE DEF h
  <2>4. SettingsEdited(i, h, visible)
    BY <1>1, <1>6, <2>1, <2>2, <2>3, <2>k DEF ChooseExisting, t, SettingsEdited
  <2>5. QED
    BY <1>1, <2>2, <2>4 DEF Edited
<1>7. ASSUME NEW a \in {"ok", "bad"}, SetVolumeSize(i, a)
      PROVE  Edited(i)
  <2> DEFINE h == [g EXCEPT !.amount = a]
             s == [storages EXCEPT ![i].settings = h]
  <2>1. ~UseExisting(storages, ui, i) /\ t = "Ebs" /\ ~g.id
    BY <1>2, <1>3, <1>7 DEF SetVolumeSize, HasEbsForm, t
  <2>2. h \in Settings /\ Fits(t, h) /\ ~h.id
    BY <1>1, <1>5, <2>1 DEF Fits, Settings, Amounts
  <2>3. s = [storages EXCEPT ![i].settings.amount = a]
    BY DEF g
  <2>k. FormsKept(i, h, visible)
    BY <1>1, <2>1 DEF FormsKept, Settings, t, g
  <2> HIDE DEF h
  <2>4. s \in Seq(Storage)
    BY <2>1, <2>2, SettingsGood DEF Good, t
  <2>5. errors' \in [Positions -> SUBSET Field] /\ Renders(s, ui, visible)
    BY <1>1, <1>7, <2>3, <2>4, ErrorsWell DEF SetVolumeSize, Sets
  <2>6. SettingsEdited(i, h, visible)
    BY <1>1, <1>7, <2>1, <2>2, <2>5, <2>k DEF SetVolumeSize, t, SettingsEdited
  <2>7. QED
    BY <1>1, <2>2, <2>6 DEF Edited
<1>8. ASSUME NEW a \in {"ok", "bad"}, SetProvisionedThroughput(i, a)
      PROVE  Edited(i)
  <2> DEFINE h == [g EXCEPT !.amount = a]
  <2>1. ~UseExisting(storages, ui, i) /\ t = "Efs" /\ ~g.id /\ g.mode = "provisioned"
    BY <1>2, <1>3, <1>8 DEF SetProvisionedThroughput, t, g
  <2>2. h \in Settings /\ Fits(t, h) /\ ~h.id
    BY <1>1, <1>5, <2>1 DEF Fits, Settings, Amounts
  <2>3. Renders([storages EXCEPT ![i].settings = h], ui, visible)
    BY <1>8 DEF SetProvisionedThroughput, SetSettings, Sets, g
  <2>k. FormsKept(i, h, visible)
    BY <2>1 DEF FormsKept, HasEbsForm, t
  <2> HIDE DEF h
  <2>4. SettingsEdited(i, h, visible)
    BY <1>1, <1>8, <2>1, <2>2, <2>3, <2>k DEF SetProvisionedThroughput, t, SettingsEdited
  <2>5. QED
    BY <1>1, <2>2, <2>4 DEF Edited
<1>9. ASSUME ToggleSnapshotVisibility(i)
      PROVE  Edited(i)
  <2> DEFINE h == Unsnapshot(g)
             vis == [visible EXCEPT ![i] = ~@]
  <2>1. ~UseExisting(storages, ui, i) /\ t = "Ebs" /\ ~g.id
    BY <1>2, <1>3, <1>9 DEF ToggleSnapshotVisibility, HasEbsForm, t
  <2>2. h \in Settings /\ Fits(t, h) /\ ~h.id
    BY <1>1, <1>5, <2>1 DEF Fits, Settings, Unsnapshot
  <2>3. Renders([storages EXCEPT ![i].settings = h], ui, vis)
    BY <1>9 DEF ToggleSnapshotVisibility, g
  <2>4. vis \in [Positions -> BOOLEAN]
    BY <1>1
  <2>k. FormsKept(i, h, vis)
    BY <1>1, <2>1 DEF FormsKept, Settings, Unsnapshot, t
  <2> HIDE DEF h, vis
  <2>5. SettingsEdited(i, h, vis)
    BY <1>1, <1>9, <2>1, <2>2, <2>3, <2>4, <2>k DEF ToggleSnapshotVisibility, t, SettingsEdited
  <2>6. QED
    BY <1>1, <2>2, <2>5, <2>4 DEF Edited
<1>10. ASSUME SetSnapshotId(i)
      PROVE  Edited(i)
  <2> DEFINE h == [g EXCEPT !.snapshot = TRUE]
  <2>1. ~UseExisting(storages, ui, i) /\ t = "Ebs" /\ ~g.id
    BY <1>2, <1>3, <1>10 DEF SetSnapshotId, HasEbsForm, t
  <2>2. h \in Settings /\ Fits(t, h) /\ ~h.id
    BY <1>1, <1>5, <2>1 DEF Fits, Settings
  <2>3. Renders([storages EXCEPT ![i].settings = h], ui, visible)
    BY <1>10 DEF SetSnapshotId, SetSettings, Sets, g
  <2>k. FormsKept(i, h, visible)
    BY <1>10, <2>1 DEF FormsKept, SetSnapshotId, t
  <2> HIDE DEF h
  <2>4. SettingsEdited(i, h, visible)
    BY <1>1, <1>10, <2>1, <2>2, <2>3, <2>k DEF SetSnapshotId, t, SettingsEdited
  <2>5. QED
    BY <1>1, <2>2, <2>4 DEF Edited
<1>11. ASSUME ToggleThroughputMode(i)
       PROVE  Edited(i)
  <2> DEFINE h == ToggledThroughput(g)
  <2>1. ~UseExisting(storages, ui, i) /\ t = "Efs" /\ ~g.id
    BY <1>2, <1>3, <1>11 DEF ToggleThroughputMode, t
  <2>2. h \in Settings /\ Fits(t, h) /\ ~h.id
    BY <1>1, <1>5, <2>1 DEF Fits, Settings, Amounts, Modes, ToggledThroughput
  <2>3. Renders([storages EXCEPT ![i].settings = h], ui, visible)
    BY <1>11 DEF ToggleThroughputMode, SetSettings, Sets, g
  <2>k. FormsKept(i, h, visible)
    BY <2>1 DEF FormsKept, HasEbsForm, t
  <2> HIDE DEF h
  <2>4. SettingsEdited(i, h, visible)
    BY <1>1, <1>11, <2>1, <2>2, <2>3, <2>k DEF ToggleThroughputMode, t, SettingsEdited
  <2>5. QED
    BY <1>1, <2>2, <2>4 DEF Edited
<1>12. ASSUME NEW m \in LustreTypes, SelectLustreType(i, m)
       PROVE  Edited(i)
  <2> DEFINE h == WithLustreType(g, m)
  <2>1. ~UseExisting(storages, ui, i) /\ t = "FsxLustre" /\ ~g.id
    BY <1>2, <1>3, <1>12 DEF SelectLustreType, t
  <2>2. h \in Settings /\ Fits(t, h) /\ ~h.id
    <3>1. m \in {"SCRATCH_2", "PERSISTENT_1", "PERSISTENT_2"}
      BY DEF LustreTypes
    <3>2. DefaultThroughput(m) \in {None, "p1", "p2"}
      BY <3>1 DEF DefaultThroughput
    <3>3. /\ h \in [id : BOOLEAN, snapshot : BOOLEAN, mode : {m},
                    amount : {DefaultThroughput(m)}]
          /\ h.id = g.id /\ h.snapshot = g.snapshot
      BY <1>1 DEF WithLustreType, Settings
    <3> HIDE DEF h
    <3>4. ~h.id /\ ~h.snapshot /\ h.mode = m /\ h.amount = DefaultThroughput(m)
      BY <1>5, <2>1, <3>3
    <3>5. QED
      BY <2>1, <3>1, <3>2, <3>3, <3>4 DEF Fits, Settings, Amounts, Modes
  <2>3. Renders([storages EXCEPT ![i].settings = h], ui, visible)
    BY <1>12 DEF SelectLustreType, SetSettings, Sets, g
  <2>k. FormsKept(i, h, visible)
    BY <1>1, <2>1 DEF FormsKept, HasEbsForm, WithLustreType, Settings, t
  <2> HIDE DEF h
  <2>4. SettingsEdited(i, h, visible)
    BY <1>1, <1>12, <2>1, <2>2, <2>3, <2>k DEF SelectLustreType, t, SettingsEdited
  <2>5. QED
    BY <1>1, <2>2, <2>4 DEF Edited
<1>13. QED
  BY <1>6, <1>7, <1>8, <1>9, <1>10, <1>11, <1>12

\* They preserve the invariant.
LEMMA EditPreserves == ASSUME IInv, NEW i \in DOMAIN storages, Edited(i) PROVE IInv'
  BY SettingsStep DEF Edited, SettingsEdited

-----------------------------------------------------------------------------
(* The wizard's steps preserve the invariant.                              *)

\* A step that shows the same storages, or does not touch them.
LEMMA SameStorages ==
  ASSUME IInv, UNCHANGED <<storages, ui, aligned, named, shifted>>,
         version' \in Versions \cup {None},
         editing' \in BOOLEAN, shown' \in BOOLEAN, validated' \in BOOLEAN,
         errors' \in [Positions -> SUBSET Field], visible' \in [Positions -> BOOLEAN]
  PROVE  IInv'
<1>1. TypeOK'
  BY DEF IInv, TypeOK
<1>2. UiCoversStorages' /\ NamesMade'
  BY DEF IInv, UiCoversStorages, NamesMade, NameMade
<1>3. SettingsMatchKind'
  BY DEF IInv, SettingsMatchKind, MatchesKind, UseExisting
<1>4. QED
  BY <1>1, <1>2, <1>3 DEF IInv

\* A step that abandons the draft; ui may stay.
LEMMA NoStorages ==
  ASSUME IInv, storages' = <<>>, ui' \in {ui, <<>>}, aligned' = (ui' = <<>>),
         named' \in BOOLEAN, shifted' = shifted,
         version' \in Versions \cup {None},
         editing' \in BOOLEAN, shown' \in BOOLEAN, validated' \in BOOLEAN,
         errors' \in [Positions -> SUBSET Field], visible' \in [Positions -> BOOLEAN]
  PROVE  IInv'
<1>1. /\ storages' \in Seq(Storage) /\ Len(storages') = 0 /\ DOMAIN storages' = {}
      /\ <<>> \in Seq(BOOLEAN) /\ Len(<<>>) = 0 /\ Len(ui) \in Nat
      /\ MaxStorages \in Nat /\ MaxUi \in Nat
  BY StorageAssumption, CurrentGood DEF StorageAssumption
<1>2. /\ ui' \in Seq(BOOLEAN) /\ Len(ui') <= MaxUi /\ Len(ui') \in Nat
      /\ aligned' \in BOOLEAN
      /\ aligned' => Len(ui') = 0
  <2>1. ui \in Seq(BOOLEAN) /\ Len(ui) <= MaxUi
    BY DEF IInv, TypeOK
  <2>2. CASE ui' = <<>>
    BY <1>1, <2>2
  <2>3. CASE ui' # <<>>
    <3>1. ui' = ui /\ aligned' = FALSE
      BY <2>3
    <3>2. QED
      BY <1>1, <2>1, <3>1
  <2>4. QED
    BY <2>2, <2>3
<1>3. TypeOK'
  BY <1>1, <1>2 DEF IInv, TypeOK
<1>4. UiCoversStorages'
  BY <1>1, <1>2 DEF UiCoversStorages
<1>5. NamesMade' /\ SettingsMatchKind'
  BY <1>1 DEF NamesMade, SettingsMatchKind
<1>6. QED
  BY <1>3, <1>4, <1>5 DEF IInv

\* A template's identifiers are what its ui entries are made of.
LEMMA LoadPreserves ==
  ASSUME IInv, NEW s \in Templates, NEW v \in Versions \cup {version}, LoadTemplate(s, v)
  PROVE  IInv'
<1>1. /\ s \in Seq(Storage) /\ Len(s) <= MaxStorages /\ Len(s) <= MaxUi
      /\ Len(s) \in Nat /\ DOMAIN s = 1..Len(s)
      /\ \A i \in DOMAIN s : s[i] \in Storage
  <2>1. s \in Seq(Storage) /\ Len(s) <= MaxStorages /\ Len(s) <= MaxUi
    BY StorageAssumption DEF StorageAssumption
  <2>2. QED
    BY <2>1, LenProperties
<1>2. /\ storages' = s /\ ui' = [i \in 1..Len(s) |-> s[i].settings.id]
      /\ aligned' = TRUE /\ named' = TRUE
      /\ version' \in Versions \cup {None}
  BY <1>1 DEF LoadTemplate, MapStorageToUiSettings, IInv, TypeOK
<1>3. \A i \in 1..Len(s) : s[i].settings.id \in BOOLEAN
  BY <1>1, StorageFields DEF Settings
<1>4. ui' \in Seq(BOOLEAN) /\ Len(ui') = Len(s)
  BY <1>1, <1>2, <1>3
<1>5. TypeOK'
  BY <1>1, <1>2, <1>4 DEF LoadTemplate, Unmounted, Hidden, IInv, TypeOK
<1>6. UiCoversStorages' /\ NamesMade'
  BY <1>1, <1>2, <1>4 DEF UiCoversStorages, NamesMade
<1>7. SettingsMatchKind'
  <2>1. SUFFICES ASSUME NEW i \in 1..Len(s)
                 PROVE  MatchesKind(s, ui', i)
    BY <1>1, <1>2 DEF SettingsMatchKind, MatchesKind, UseExisting
  <2> DEFINE g == s[i].settings
             t == s[i].type
  <2>2. g \in Settings /\ Fits(t, g) /\ t \in Types
    BY <1>1, StorageFields
  <2>3. ui'[i] = g.id
    BY <1>2
  <2>4. MaxToCreate[t] = 0 => t \notin ManagedForms
    BY <2>2, StorageAssumption DEF StorageAssumption
  <2>5. MaxToCreate[t] = 0 \/ g.id => g \in {NoSettings, Identified}
    BY <2>2, <2>4 DEF Fits, ManagedForms
  <2> HIDE DEF g, t
  <2>6. QED
    BY <2>3, <2>5 DEF MatchesKind, UseExisting, g, t
<1>8. QED
  BY <1>5, <1>6, <1>7 DEF IInv

-----------------------------------------------------------------------------
\* The invariant holds at the start.
LEMMA InitIInv == Init => IInv
<1> SUFFICES ASSUME Init PROVE IInv
  OBVIOUS
<1>1. /\ Len(storages) = 0 /\ Len(ui) = 0 /\ DOMAIN storages = {}
      /\ storages \in Seq(Storage) /\ ui \in Seq(BOOLEAN)
  BY DEF Init
<1>2. TypeOK
  <2>1. Len(storages) <= MaxStorages /\ Len(ui) <= MaxUi
    BY ONLY <1>1, StorageAssumption DEF StorageAssumption
  <2>2. errors \in [Positions -> SUBSET Field] /\ visible \in [Positions -> BOOLEAN]
    BY DEF Init, NoErrors, Hidden
  <2>3. /\ version \in Versions \cup {None} /\ editing \in BOOLEAN /\ shown \in BOOLEAN
        /\ validated \in BOOLEAN /\ aligned \in BOOLEAN /\ named \in BOOLEAN
        /\ shifted \in BOOLEAN
    BY DEF Init
  <2>4. QED
    BY ONLY <1>1, <2>1, <2>2, <2>3 DEF TypeOK
<1>3. UiCoversStorages
  BY <1>1 DEF UiCoversStorages
<1>4. SettingsMatchKind /\ NamesMade
  BY <1>1 DEF SettingsMatchKind, NamesMade
<1>5. QED
  BY <1>2, <1>3, <1>4 DEF IInv

\* Every step preserves the invariant.
LEMMA NextIInv == IInv /\ [Next]_vars => IInv'
<1> SUFFICES ASSUME IInv, [Next]_vars PROVE IInv'
  OBVIOUS
<1>0. /\ version \in Versions \cup {None}
      /\ editing \in BOOLEAN /\ shown \in BOOLEAN /\ validated \in BOOLEAN
      /\ aligned \in BOOLEAN /\ named \in BOOLEAN /\ shifted \in BOOLEAN
      /\ errors \in [Positions -> SUBSET Field] /\ visible \in [Positions -> BOOLEAN]
      /\ NoErrors \in [Positions -> SUBSET Field] /\ Hidden \in [Positions -> BOOLEAN]
      /\ storages \in Seq(Storage)
  <2>1. NoErrors \in [Positions -> SUBSET Field]
    BY ONLY DEF NoErrors
  <2>2. Hidden \in [Positions -> BOOLEAN]
    BY ONLY DEF Hidden
  <2>3. TypeOK
    BY DEF IInv
  <2>4. QED
    BY ONLY <2>1, <2>2, <2>3, Zenon DEF TypeOK
<1>1. CASE Show
  <2>1. /\ aligned => Len(storages) = Len(ui)
        /\ ~named => \A i \in DOMAIN storages : NameMade(storages, i)
    BY DEF IInv, UiCoversStorages, NamesMade
  <2>2. QED
    BY <1>0, <1>1, <2>1, CurrentGood, PageStep DEF Show
<1>2. CASE HandleNext
  <2>1. errors' \in [Positions -> SUBSET Field]
    BY <1>0, <1>2, ErrorsWell DEF HandleNext
  <2>2. QED
    BY <1>0, <1>2, <2>1, SameStorages DEF HandleNext, Unmounted
<1>3. CASE HandlePrev \/ StepBack
  BY <1>0, <1>3, SameStorages DEF HandlePrev, StepBack, Unmounted
<1>4. CASE Cancel \/ WizardShow
  BY <1>0, <1>4, NoStorages DEF Cancel, WizardShow, Unmounted
<1>5. CASE SelectRegion
  BY <1>0, <1>5, NoStorages DEF SelectRegion
<1>6. ASSUME NEW v \in Versions, VersionSelected(v) \/ EditConfiguration(v)
      PROVE  IInv'
  BY <1>0, <1>6, SameStorages DEF VersionSelected, EditConfiguration
<1>7. ASSUME NEW i \in DOMAIN storages, EditOf(i)
      PROVE  IInv'
  BY <1>7, RemovePreserves, TogglePreserves, NamePreserves, EditsAre, EditPreserves DEF EditOf
<1>8. CASE UNCHANGED vars
  BY <1>0, <1>8, SameStorages DEF vars
<1>9. QED
  BY <1>1, <1>2, <1>3, <1>4, <1>5, <1>6, <1>7, <1>8, LoadPreserves, AddPreserves DEF Next

\* The invariant holds always.
LEMMA Inductive == Spec => []IInv
<1>1. QED
  BY InitIInv, NextIInv, PTL DEF Spec

\* Whatever is added, switched, filled in by the forms, removed or loaded, the
\* state of the storage page is well-formed, and so are the settings of every
\* storage (an EFS throughput exactly where it is provisioned).
THEOREM Typing == Spec => []TypeOK
<1>1. IInv => TypeOK
  BY DEF IInv
<1>2. QED
  BY <1>1, Inductive, PTL

\* canCreateStorage, canAttachExistingStorage and the forms never read ui past
\* its end, though clearWizardState and wizardShow clear only the storages.
THEOREM Covered == Spec => []UiCoversStorages
<1>1. IInv => UiCoversStorages
  BY DEF IInv
<1>2. QED
  BY <1>1, Inductive, PTL

\* removeStorage and toggleUseExisting keep the two arrays matched: no storage
\* that exists already has settings of a new one, and no new one an identifier.
THEOREM KindsMatch == Spec => []SettingsMatchKind
<1>1. IInv => SettingsMatchKind
  BY DEF IInv
<1>2. QED
  BY <1>1, Inductive, PTL

\* buildStorageEntries and the renaming in removeStorage never make a name
\* twice while all the names are theirs.
THEOREM NamesDistinct == Spec => []MadeNamesDistinct
<1>1. ASSUME IInv PROVE MadeNamesDistinct
  <2>1. SUFFICES ASSUME ~named, NEW i \in DOMAIN storages, NEW j \in DOMAIN storages,
                        i # j
                 PROVE  storages[i].name # storages[j].name
    BY DEF MadeNamesDistinct, AllDistinct
  <2>2. /\ storages[i].name = <<storages[i].type, i - 1>>
        /\ storages[j].name = <<storages[j].type, j - 1>>
    BY <1>1, <2>1 DEF IInv, NamesMade, NameMade
  <2>3. i - 1 # j - 1
    BY <1>1, <2>1, CurrentGood
  <2>4. QED
    BY <2>2, <2>3
<1>2. QED
  BY <1>1, Inductive, PTL

\* What the page knows of a storage by position stays in step with it: its
\* entry of ui, settings of its kind, a name no other made name equals.
THEOREM StoragesStayInStep == Spec => []StoragesInStep
  BY Covered, KindsMatch, NamesDistinct, PTL DEF StoragesInStep
-----------------------------------------------------------------------------
\* storageValidate leaves on the forms exactly what is wrong with what they show.
LEMMA NextValidates ==
  ASSUME TypeOK, HandleNext
  PROVE  /\ ErrorsShownAreTrue'
         /\ shown' = (\E i \in DOMAIN storages : ShownErrors(i)' # {})
<1>1. /\ storages' = storages /\ ui' = ui
      /\ errors' = StorageErrors(storages, ui)
      /\ shown' = ~StorageValid(storages, ui)
  BY DEF HandleNext, Unmounted, StorageValid
<1>2. \A i \in DOMAIN storages : i \in Positions
  <2>1. /\ DOMAIN storages = 1..Len(storages) /\ Len(storages) \in Nat
        /\ Len(storages) <= MaxStorages /\ MaxStorages \in Nat
    BY LenProperties, StorageAssumption DEF TypeOK, StorageAssumption
  <2>2. QED
    BY <2>1 DEF Positions
<1>3. ASSUME NEW i \in DOMAIN storages
      PROVE  ShownErrors(i)' = Invalid(storages, ui, i)
  <2>1. errors'[i] = (errors[i] \ Checked(storages, ui, i)) \cup Invalid(storages, ui, i)
    BY <1>1, <1>2 DEF StorageErrors
  <2>2. Invalid(storages, ui, i) \subseteq Checked(storages, ui, i)
    BY DEF Invalid
  <2>3. ShownErrors(i)' = errors'[i] \cap Checked(storages, ui, i)
    BY <1>1 DEF ShownErrors, Checked, UseExisting
  <2>4. QED
    BY <2>1, <2>2, <2>3
<1>4. ErrorsShownAreTrue'
  <2>1. SUFFICES ASSUME NEW i \in DOMAIN storages
                 PROVE  ShownErrors(i)' = Invalid(storages, ui, i)'
    BY <1>1 DEF ErrorsShownAreTrue
  <2>2. Invalid(storages, ui, i)' = Invalid(storages, ui, i)
    BY <1>1 DEF Invalid, Checked, UseExisting, Wrong
  <2>3. QED
    BY <1>3, <2>2
<1>5. QED
  BY <1>1, <1>3, <1>4 DEF StorageValid

\* handleNext of Storage.tsx shows what is wrong with the storages as they are now,
\* whatever errors their positions kept, and leaves the page if nothing is.
THEOREM ValidationStaysCurrent == Spec => ValidationIsCurrent
<1>1. TypeOK /\ [Next]_vars =>
        [HandleNext => /\ ErrorsShownAreTrue'
                       /\ shown' = (\E i \in DOMAIN storages : ShownErrors(i)' # {})]_vars
  BY NextValidates
<1>2. QED
  BY <1>1, Typing, PTL DEF Spec, ValidationIsCurrent
-----------------------------------------------------------------------------
(* The forms show what they will submit.                                   *)

\* A Lustre file system has the throughput of its own deployment type, or none.
LustreFits(x) ==
  x.type = "FsxLustre" =>
    x.settings.amount \in {None, DefaultThroughput(x.settings.mode)}

\* Loaded sections are like that: a template is the only way to another one.
TemplatesFit == \A s \in Templates : \A i \in DOMAIN s : LustreFits(s[i])

FormsInv == FormsFit /\ \A i \in DOMAIN storages : LustreFits(storages[i])

\* A form gives a Lustre file system a throughput and leaves snapshots alone.
LEMMA FilledForms ==
  ASSUME NEW x \in Storage, ~x.settings.id
  PROVE  /\ Filled(x).settings.snapshot = x.settings.snapshot
         /\ x.type = "FsxLustre" /\ LustreFits(x) =>
              Filled(x).settings.amount = DefaultThroughput(Filled(x).settings.mode)
<1> DEFINE g == x.settings
<1>1. g \in Settings /\ x \in [type : Types, name : Name, settings : Settings]
  BY StorageFields
<1>2. /\ FilledEbs(g).snapshot = g.snapshot /\ FilledEfs(g).snapshot = g.snapshot
      /\ FilledLustre(g).snapshot = g.snapshot
  BY <1>1 DEF FilledEbs, FilledEfs, FilledLustre, Settings
<1>3. ASSUME g.amount \in {None, DefaultThroughput(g.mode)}
      PROVE  FilledLustre(g).amount = DefaultThroughput(FilledLustre(g).mode)
  <2> DEFINE m == IF g.mode = None THEN DefaultLustreType ELSE g.mode
             a == IF g.amount = None THEN DefaultThroughput(m) ELSE g.amount
  <2>1. FilledLustre(g) = [g EXCEPT !.mode = m, !.amount = a]
    BY <1>1 DEF FilledLustre, Settings
  <2>2. a = DefaultThroughput(m)
    <3>1. CASE g.mode = None
      <4>1. DefaultThroughput(g.mode) = None
        BY <3>1, StorageAssumption DEF DefaultThroughput, StorageAssumption, Modes
      <4>2. QED
        BY <1>3, <4>1
    <3>2. CASE g.mode # None
      BY <1>3, <3>2
    <3>3. QED
      BY <3>1, <3>2
  <2> HIDE DEF m, a
  <2>3. FilledLustre(g).mode = m /\ FilledLustre(g).amount = a
    BY <1>1, <2>1 DEF Settings
  <2>4. QED
    BY <2>2, <2>3
<1>4. Filled(x).settings = CASE x.type = "Ebs" -> FilledEbs(g)
                             [] x.type = "Efs" -> FilledEfs(g)
                             [] x.type = "FsxLustre" -> FilledLustre(g)
                             [] OTHER -> g
  BY <1>1 DEF Filled
<1> HIDE DEF g
<1>5. QED
  BY <1>2, <1>3, <1>4 DEF LustreFits, g

\* What is rendered keeps its positions, types and forms.
LEMMA RenderedForms ==
  ASSUME NEW s, NEW u, NEW vis, Good(s, u), Renders(s, u, vis)
  PROVE  /\ DOMAIN storages' = DOMAIN s /\ ui' = u /\ DOMAIN s \subseteq Positions
         /\ \A i \in DOMAIN s :
              /\ storages'[i] = IF HasForm(s, u, i) THEN Filled(s[i]) ELSE s[i]
              /\ s[i] \in Storage
              /\ HasForm(s, u, i) => ~s[i].settings.id
              /\ storages'[i].type = s[i].type
              /\ HasForm(storages', ui', i) <=> HasForm(s, u, i)
<1>1. /\ DOMAIN s = 1..Len(s) /\ Len(s) \in Nat /\ Len(s) <= MaxStorages
      /\ MaxStorages \in Nat
      /\ \A i \in DOMAIN s : s[i] \in Storage /\ MatchesKind(s, u, i)
  BY LenProperties, StorageAssumption DEF Good, StorageAssumption
<1>2. /\ ui' = u /\ DOMAIN storages' = DOMAIN s
      /\ \A i \in DOMAIN s :
           storages'[i] = IF HasForm(s, u, i) THEN Filled(s[i]) ELSE s[i]
  BY DEF Renders
<1>3. DOMAIN s \subseteq Positions
  BY <1>1 DEF Positions
<1>4. ASSUME NEW i \in DOMAIN s
      PROVE  /\ HasForm(s, u, i) => ~s[i].settings.id
             /\ storages'[i].type = s[i].type
  BY <1>1, <1>2, FilledStorage DEF MatchesKind, HasForm
<1>5. QED
  BY <1>1, <1>2, <1>3, <1>4 DEF HasForm, UseExisting

\* Rendering keeps the forms right if no snapshot loses its form's state.
LEMMA FormsStep ==
  ASSUME NEW s, NEW u, NEW vis \in [Positions -> BOOLEAN], Good(s, u), Renders(s, u, vis),
         \A i \in DOMAIN s : LustreFits(s[i]),
         shown /\ ~shifted' =>
           \A i \in DOMAIN s :
             HasEbsForm(storages, ui, i) /\ HasEbsForm(s, u, i) /\ s[i].settings.snapshot
               => vis[i]
  PROVE  FormsInv'
<1>1. /\ DOMAIN storages' = DOMAIN s /\ ui' = u /\ DOMAIN s \subseteq Positions
      /\ \A i \in DOMAIN s :
           /\ storages'[i] = IF HasForm(s, u, i) THEN Filled(s[i]) ELSE s[i]
           /\ s[i] \in Storage
           /\ HasForm(s, u, i) => ~s[i].settings.id
           /\ storages'[i].type = s[i].type
           /\ HasForm(storages', ui', i) <=> HasForm(s, u, i)
  BY RenderedForms
<1>2. SnapshotShown'
  <2>1. SUFFICES ASSUME ~shifted', NEW i \in DOMAIN s, HasEbsForm(s, u, i),
                        storages'[i].settings.snapshot
                 PROVE  visible'[i]
    BY <1>1 DEF SnapshotShown, HasEbsForm
  <2>2. s[i].settings.snapshot
    BY <1>1, <2>1, FilledForms DEF HasEbsForm
  <2>3. visible'[i] = (/\ HasEbsForm(s, u, i)
                       /\ IF shown /\ HasEbsForm(storages, ui, i)
                            THEN vis[i] ELSE s[i].settings.snapshot)
    BY <1>1 DEF Renders
  <2>4. QED
    BY <2>1, <2>2, <2>3
<1>3. ASSUME NEW i \in DOMAIN s, storages'[i].type = "FsxLustre", HasForm(s, u, i)
      PROVE  storages'[i].settings.amount = DefaultThroughput(storages'[i].settings.mode)
  BY <1>1, <1>3, FilledForms
<1>4. LustreThroughputFits'
  <2>1. SUFFICES ASSUME NEW i \in DOMAIN s, HasForm(s, u, i), storages'[i].type = "FsxLustre"
                 PROVE  storages'[i].settings.amount =
                          DefaultThroughput(storages'[i].settings.mode)
    BY <1>1 DEF LustreThroughputFits
  <2>2. QED
    BY <1>1, <1>3, <2>1
<1>5. ASSUME NEW i \in DOMAIN s
      PROVE  LustreFits(storages[i])'
  BY <1>1, <1>3 DEF LustreFits, DefaultThroughput
<1>6. QED
  BY <1>1, <1>2, <1>4, <1>5 DEF FormsInv, FormsFit

\* What each of the page's operations gives to render fits its forms.
LEMMA PageForms ==
  ASSUME IInv, FormsInv
  PROVE  /\ Show => FormsInv'
         /\ \A sel \in Batches : OnAddStorageSubmit(sel) => FormsInv'
         /\ \A i \in DOMAIN storages : EditOf(i) => FormsInv'
<1>1. /\ Good(storages, ui) /\ visible \in [Positions -> BOOLEAN]
      /\ DOMAIN storages = 1..Len(storages) /\ Len(storages) \in Nat
      /\ \A i \in DOMAIN storages : storages[i] \in Storage /\ LustreFits(storages[i])
      /\ shown /\ ~shifted =>
           \A i \in DOMAIN storages :
             HasEbsForm(storages, ui, i) /\ storages[i].settings.snapshot => visible[i]
  BY CurrentGood DEF IInv, TypeOK, FormsInv, FormsFit, SnapshotShown
<1>2. /\ \A t \in Types, n \in Name :
           LustreFits([type |-> t, name |-> n, settings |-> NoSettings])
      /\ NoSettings.amount = None /\ ~NoSettings.snapshot
  BY DEF LustreFits, NoSettings
<1>3. ASSUME Show
      PROVE  FormsInv'
  <2>1. ~shown /\ Renders(storages, ui, visible)
    BY <1>3 DEF Show
  <2>2. QED
    BY <1>1, <2>1, FormsStep
<1>4. ASSUME NEW sel \in Batches, OnAddStorageSubmit(sel)
      PROVE  FormsInv'
  <2>1. PICK s, u : Added(sel, s, u)
    BY <1>4, AddingAdds
  <2>2. shifted' = shifted
    BY <1>4 DEF OnAddStorageSubmit
  <2>3. DOMAIN s = 1..Len(s) /\ Len(s) \in Nat /\ Len(s) = Len(storages) + Len(sel)
    BY <2>1, LenProperties DEF Added, Good
  <2>4. ASSUME NEW i \in DOMAIN s
        PROVE  \/ i \in DOMAIN storages /\ s[i] = storages[i]
               \/ s[i].settings = NoSettings
    <3>1. CASE i \in 1..Len(storages)
      BY <1>1, <2>1, <3>1 DEF Added
    <3>2. CASE i \notin 1..Len(storages)
      <4>1. i \in (Len(storages) + 1)..(Len(storages) + Len(sel))
        BY <1>1, <2>3, <3>2
      <4>2. s[i] = [type |-> sel[i - Len(storages)],
                    name |-> <<sel[i - Len(storages)], i - 1>>, settings |-> NoSettings]
        BY <2>1, <4>1 DEF Added
      <4>3. QED
        BY <4>2
    <3>3. QED
      BY <3>1, <3>2
  <2>5. \A i \in DOMAIN s : LustreFits(s[i])
    BY <1>1, <1>2, <2>4 DEF LustreFits
  <2>6. shown /\ ~shifted' =>
          \A i \in DOMAIN s : HasEbsForm(storages, ui, i) /\ s[i].settings.snapshot
                               => visible[i]
    BY <1>1, <1>2, <2>2, <2>4
  <2>7. QED
    BY <1>1, <2>1, <2>5, <2>6, FormsStep DEF Added
<1>5. ASSUME NEW i \in DOMAIN storages, RemoveStorage(i)
      PROVE  FormsInv'
  <2>1. CASE Len(storages) = 1
    <3>1. Good(<<>>, <<>>) /\ DOMAIN <<>> = {} /\ Renders(<<>>, <<>>, visible)
      BY <1>5, <2>1, StorageAssumption DEF StorageAssumption, Good, RemoveStorage
    <3>2. QED
      BY <1>1, <3>1, FormsStep
  <2>2. CASE Len(storages) # 1
    <3>1. PICK s, u : Removed(i, s, u)
      BY <1>5, <2>2, RemovingRemoves
    <3>2. shifted' = (shifted \/ i < Len(storages))
      BY <1>5 DEF RemoveStorage
    <3>3. DOMAIN s = 1..Len(s) /\ Len(s) \in Nat /\ Len(s) = Len(storages) - 1
      BY <3>1, LenProperties DEF Removed, Good
    <3>4. \A j \in DOMAIN s : LustreFits(s[j])
      BY <1>1, <3>1 DEF Removed, LustreFits
    <3>5. ASSUME ~shifted', NEW j \in DOMAIN s
          PROVE  j \in DOMAIN storages /\ s[j].settings = storages[j].settings
      <4>1. ~(i < Len(storages)) /\ j \in 1..(Len(storages) - 1)
        BY <3>2, <3>3, <3>5
      <4>2. j < i /\ j \in DOMAIN storages
        BY <1>1, <4>1
      <4>3. BackTo(i, j) = j
        BY <4>2 DEF BackTo
      <4>4. QED
        BY <3>1, <4>2, <4>3 DEF Removed
    <3>6. shown /\ ~shifted' =>
            \A j \in DOMAIN s : HasEbsForm(storages, ui, j) /\ s[j].settings.snapshot
                                 => visible[j]
      BY <1>1, <3>2, <3>5
    <3>7. QED
      BY <1>1, <3>1, <3>4, <3>6, FormsStep DEF Removed
  <2>3. QED
    BY <2>1, <2>2
<1>6. ASSUME NEW i \in DOMAIN storages, ToggleUseExisting(i)
      PROVE  FormsInv'
  <2>1. PICK s, u : Toggled(i, s, u)
    BY <1>6, TogglingToggles
  <2>2. shifted' = shifted
    BY <1>6 DEF ToggleUseExisting
  <2>3. /\ DOMAIN s = DOMAIN storages
        /\ \A j \in DOMAIN s : j # i => s[j] = storages[j]
        /\ s[i].settings = NoSettings
    BY <1>1, <2>1, StorageFields DEF Toggled
  <2>4. \A j \in DOMAIN s : LustreFits(s[j])
    BY <1>1, <1>2, <2>3 DEF LustreFits
  <2>5. shown /\ ~shifted' =>
          \A j \in DOMAIN s : HasEbsForm(storages, ui, j) /\ s[j].settings.snapshot
                               => visible[j]
    BY <1>1, <1>2, <2>2, <2>3
  <2>6. QED
    BY <1>1, <2>1, <2>4, <2>5, FormsStep DEF Toggled
<1>7. ASSUME NEW i \in DOMAIN storages, NEW n \in TypedNames, UpdateStorageName(i, n)
      PROVE  FormsInv'
  <2>1. PICK s : TypedAt(i, n, s)
    BY <1>7, NamingNames
  <2>2. shifted' = shifted
    BY <1>7 DEF UpdateStorageName
  <2>3. /\ DOMAIN s = DOMAIN storages
        /\ \A j \in DOMAIN s : /\ s[j].type = storages[j].type
                                /\ s[j].settings = storages[j].settings
    BY <1>1, <2>1, StorageFields DEF TypedAt
  <2>4. \A j \in DOMAIN s : LustreFits(s[j])
    BY <1>1, <2>3 DEF LustreFits
  <2>5. shown /\ ~shifted' =>
          \A j \in DOMAIN s : HasEbsForm(storages, ui, j) /\ s[j].settings.snapshot
                               => visible[j]
    BY <1>1, <2>2, <2>3
  <2>6. QED
    BY <1>1, <2>1, <2>4, <2>5, FormsStep DEF TypedAt
<1>8. ASSUME NEW i \in DOMAIN storages, Edited(i)
      PROVE  FormsInv'
  <2>1. PICK g \in Settings, vis \in [Positions -> BOOLEAN] : SettingsEdited(i, g, vis)
    BY <1>8 DEF Edited
  <2> DEFINE s == [storages EXCEPT ![i].settings = g]
  <2>2. /\ Good(s, ui) /\ Renders(s, ui, vis) /\ shifted' = shifted /\ FormsKept(i, g, vis)
    BY <2>1, SettingsGood DEF SettingsEdited
  <2>3. /\ DOMAIN s = DOMAIN storages
        /\ \A j \in DOMAIN s : s[j].type = storages[j].type /\ (j # i => s[j] = storages[j])
        /\ s[i].settings = g
    BY <1>1, StorageFields
  <2> HIDE DEF s
  <2>4. \A j \in DOMAIN s : LustreFits(s[j])
    BY <1>1, <2>2, <2>3 DEF LustreFits, FormsKept
  <2>5. \A j \in DOMAIN s : j \in Positions
    BY <2>2, RenderedForms
  <2>6. ASSUME shown, ~shifted', NEW j \in DOMAIN s, HasEbsForm(storages, ui, j),
               s[j].settings.snapshot
        PROVE  vis[j]
    <3>1. CASE j = i
      BY <1>1, <2>2, <2>3, <2>6, <3>1 DEF FormsKept
    <3>2. CASE j # i
      BY <1>1, <2>2, <2>3, <2>5, <2>6, <3>2 DEF FormsKept
    <3>3. QED
      BY <3>1, <3>2
  <2>7. QED
    BY <2>2, <2>4, <2>6, FormsStep
<1>9. QED
  BY <1>3, <1>4, <1>5, <1>6, <1>7, <1>8, EditsAre DEF EditOf

\* Every step keeps the forms right.
LEMMA FormsInvStep ==
  ASSUME TemplatesFit, IInv, FormsInv, [Next]_vars
  PROVE  FormsInv'
<1>1. ASSUME UNCHANGED <<storages, ui, visible, shifted>>, shown' => shown
      PROVE  FormsInv'
  BY <1>1 DEF FormsInv, FormsFit, SnapshotShown, LustreThroughputFits, LustreFits,
       HasEbsForm, HasForm, UseExisting
<1>2. ASSUME ~shown', storages' \in {storages, <<>>}
      PROVE  FormsInv'
  BY <1>2 DEF FormsInv, FormsFit, SnapshotShown, LustreThroughputFits, LustreFits
<1>3. ASSUME HandleNext
      PROVE  FormsInv'
  <2>1. CASE StorageValid(storages, ui)
    BY <1>2, <1>3, <2>1 DEF HandleNext, Unmounted
  <2>2. CASE ~StorageValid(storages, ui)
    BY <1>1, <1>3, <2>2 DEF HandleNext
  <2>3. QED
    BY <2>1, <2>2
<1>4. CASE HandlePrev \/ StepBack \/ Cancel \/ WizardShow \/ SelectRegion
  BY <1>2, <1>4 DEF HandlePrev, StepBack, Cancel, WizardShow, SelectRegion, Unmounted
<1>5. ASSUME NEW v \in Versions, VersionSelected(v) \/ EditConfiguration(v)
      PROVE  FormsInv'
  BY <1>1, <1>5 DEF VersionSelected, EditConfiguration
<1>6. ASSUME NEW s \in Templates, NEW v \in Versions \cup {version}, LoadTemplate(s, v)
      PROVE  FormsInv'
  <2>1. storages' = s /\ ~shown'
    BY <1>6 DEF LoadTemplate, Unmounted
  <2>2. \A i \in DOMAIN s : LustreFits(s[i])
    BY DEF TemplatesFit
  <2>3. QED
    BY <2>1, <2>2 DEF FormsInv, FormsFit, SnapshotShown, LustreThroughputFits, LustreFits
<1>7. CASE UNCHANGED vars
  BY <1>1, <1>7 DEF vars
<1>8. QED
  BY <1>3, <1>4, <1>5, <1>6, <1>7, PageForms DEF Next

\* Whatever the effects of the forms fill in and however the forms' local state
\* follows the positions, no form hides a snapshot it will submit (until a removal
\* shifts it) and no Lustre form submits a throughput of another deployment type,
\* unless a template brought one.
THEOREM FormsStayFit == TemplatesFit => (Spec => []FormsFit)
<1> SUFFICES ASSUME TemplatesFit PROVE Spec => []FormsFit
  OBVIOUS
<1>1. Init => FormsInv
  BY DEF Init, FormsInv, FormsFit, SnapshotShown, LustreThroughputFits
<1>2. IInv /\ FormsInv /\ [Next]_vars => FormsInv'
  BY FormsInvStep
<1>3. FormsInv => FormsFit
  BY DEF FormsInv
<1>4. QED
  BY <1>1, <1>2, <1>3, Inductive, PTL DEF Spec
-----------------------------------------------------------------------------
(* No type exceeds its quotas.                                             *)

\* s with the entries u keeps to the quotas of the types that have both.
QuotasKept(s, u) ==
  \A t \in Types \cap ManagedForms :
    /\ CountOf(s, u, t, FALSE) <= MaxToCreate[t]
    /\ CountOf(s, u, t, TRUE) <= MaxExistingToAttach[t]

\* Loaded sections do, with the entries made for them: nothing on the page would
\* take a storage of a larger section away.
TemplatesKept == \A s \in Templates : QuotasKept(s, MapStorageToUiSettings(s))

LEMMA QuotasAre == WithinQuotas <=> (aligned => QuotasKept(storages, ui))
<1>1. DefaultCounts = ManagedForms
  BY DEF DefaultCounts, ManagedForms
<1>2. QED
  BY <1>1 DEF WithinQuotas, QuotasKept

\* Storages are counted: a part of what counts is less, one more counts one more.
LEMMA CountsAre ==
  ASSUME NEW s \in Seq(Storage), NEW u, NEW t, NEW b
  PROVE  /\ IsFiniteSet(OfType(s, u, t, b)) /\ CountOf(s, u, t, b) \in Nat
         /\ \A T \in SUBSET OfType(s, u, t, b) :
              Cardinality(T) \in Nat /\ Cardinality(T) <= CountOf(s, u, t, b)
         /\ \A x : \A T \in SUBSET (OfType(s, u, t, b) \cup {x}) :
              Cardinality(T) \in Nat /\ Cardinality(T) <= CountOf(s, u, t, b) + 1
<1> DEFINE S == OfType(s, u, t, b)
<1>1. IsFiniteSet(S)
  <2>1. DOMAIN s = 1..Len(s) /\ Len(s) \in Nat
    BY LenProperties
  <2>2. IsFiniteSet(1..Len(s)) /\ S \in SUBSET (1..Len(s))
    BY <2>1, FS_Interval DEF OfType
  <2>3. QED
    BY <2>2, FS_Subset
<1>2. CountOf(s, u, t, b) = Cardinality(S)
  BY DEF CountOf
<1> HIDE DEF S
<1>3. Cardinality(S) \in Nat
  BY <1>1, FS_CardinalityType
<1>4. \A T \in SUBSET S : Cardinality(T) \in Nat /\ Cardinality(T) <= Cardinality(S)
  BY <1>1, FS_Subset, FS_CardinalityType
<1>5. ASSUME NEW x, NEW T \in SUBSET (S \cup {x})
      PROVE  Cardinality(T) \in Nat /\ Cardinality(T) <= Cardinality(S) + 1
  <2>1. /\ IsFiniteSet(S \cup {x})
        /\ Cardinality(S \cup {x}) \in {Cardinality(S), Cardinality(S) + 1}
    BY <1>1, FS_AddElement
  <2>2. Cardinality(T) \in Nat /\ Cardinality(T) <= Cardinality(S \cup {x})
    BY <2>1, FS_Subset, FS_CardinalityType
  <2>3. QED
    BY <1>3, <2>1, <2>2
<1>6. QED
  BY <1>1, <1>2, <1>3, <1>4, <1>5 DEF S

\* The storages of a type are its managed and its existing ones.
LEMMA CountsAdd ==
  ASSUME NEW s \in Seq(Storage), NEW u, NEW t, \A i \in DOMAIN s : u[i] \in BOOLEAN
  PROVE  Cardinality({i \in DOMAIN s : s[i].type = t}) =
           CountOf(s, u, t, FALSE) + CountOf(s, u, t, TRUE)
<1> DEFINE F == OfType(s, u, t, FALSE)
           T == OfType(s, u, t, TRUE)
           A == {i \in DOMAIN s : s[i].type = t}
<1>1. A = F \cup T /\ F \cap T = {}
  BY DEF OfType
<1>2. IsFiniteSet(F) /\ IsFiniteSet(T)
  BY CountsAre
<1> HIDE DEF F, T, A
<1> DEFINE f == Cardinality(F)
           e == Cardinality(T)
<1>3. f \in Nat /\ e \in Nat
  BY <1>2, FS_CardinalityType
<1>4. Cardinality(A) = f + e - Cardinality({})
  BY <1>1, <1>2, FS_Union
<1>5. Cardinality({}) = 0
  BY FS_EmptySet
<1> HIDE DEF f, e
<1>6. Cardinality(A) = f + e
  BY <1>3, <1>4, <1>5
<1>7. QED
  BY <1>6 DEF A, F, T, CountOf, f, e

\* Rendering changes no count.
LEMMA RenderedCounts ==
  ASSUME NEW s, NEW u, NEW vis, Good(s, u), Renders(s, u, vis), aligned' => QuotasKept(s, u)
  PROVE  WithinQuotas'
<1>1. /\ DOMAIN storages' = DOMAIN s /\ ui' = u
      /\ \A i \in DOMAIN s : storages'[i].type = s[i].type
  BY RenderedForms
<1>2. \A t, b : OfType(storages', ui', t, b) = OfType(s, u, t, b)
  BY <1>1 DEF OfType
<1>3. aligned' =>
        \A t \in Types :
          /\ t \in ManagedForms => CountOf(storages', ui', t, FALSE) <= MaxToCreate[t]
          /\ t \in DefaultCounts => CountOf(storages', ui', t, TRUE) <= MaxExistingToAttach[t]
  BY <1>2 DEF QuotasKept, CountOf, DefaultCounts, ManagedForms
<1>4. QED
  BY <1>3 DEF WithinQuotas

\* A batch has each type once, and a new storage takes a place that is free.
LEMMA AddKeeps ==
  ASSUME IInv, WithinQuotas, NEW sel \in Batches, OnAddStorageSubmit(sel), aligned,
         NEW s, NEW u, Added(sel, s, u)
  PROVE  QuotasKept(s, u)
<1> DEFINE n == Len(storages)
<1>1. /\ n \in Nat /\ Len(ui) = n /\ DOMAIN storages = 1..n
      /\ storages \in Seq(Storage)
      /\ \A i \in 1..n : ui[i] \in BOOLEAN
      /\ QuotasKept(storages, ui)
  BY CurrentGood, QuotasAre DEF IInv, UiCoversStorages, Good
<1>2. /\ DOMAIN sel = 1..Len(sel) /\ Len(sel) \in Nat
      /\ \A k \in DOMAIN sel : sel[k] \in Offered
      /\ \A j, k \in DOMAIN sel : sel[j] = sel[k] => j = k
  <2>1. PICK m \in 1..MaxBatch : sel \in [1..m -> Offered]
    BY DEF Batches
  <2>2. m \in Nat
    BY StorageAssumption DEF StorageAssumption
  <2>3. Len(sel) = m
    BY <2>1, <2>2
  <2>4. IsInjective(sel)
    BY DEF Batches
  <2>5. QED
    BY <2>1, <2>2, <2>3, <2>4 DEF IsInjective
<1>3. /\ s \in Seq(Storage) /\ DOMAIN s = 1..(n + Len(sel))
      /\ \A i \in 1..n : s[i] = storages[i] /\ u[i] = ui[i]
      /\ \A i \in (n + 1)..(n + Len(sel)) :
           /\ s[i].type = sel[i - n]
           /\ u[i] = ~CanCreateStorage(sel[i - n], storages, ui)
  <2>1. s \in Seq(Storage) /\ Len(s) = n + Len(sel)
    BY DEF Added, Good
  <2>2. DOMAIN s = 1..(n + Len(sel))
    BY <2>1, LenProperties
  <2>3. ASSUME NEW i \in (n + 1)..(n + Len(sel))
        PROVE  s[i].type = sel[i - n]
    <3>1. s[i] = [type |-> sel[i - n], name |-> <<sel[i - n], i - 1>>,
                  settings |-> NoSettings]
      BY <2>3 DEF Added
    <3>2. QED
      BY <3>1
  <2>4. QED
    BY <1>1, <2>1, <2>2, <2>3 DEF Added
<1> HIDE DEF n
<1>4. SUFFICES ASSUME NEW t \in Types \cap ManagedForms
               PROVE  /\ CountOf(s, u, t, FALSE) <= MaxToCreate[t]
                      /\ CountOf(s, u, t, TRUE) <= MaxExistingToAttach[t]
  BY DEF QuotasKept
<1>5. /\ CountOf(storages, ui, t, FALSE) <= MaxToCreate[t]
      /\ CountOf(storages, ui, t, TRUE) <= MaxExistingToAttach[t]
  BY <1>1, <1>4 DEF QuotasKept
<1>6. CASE \A k \in DOMAIN sel : sel[k] # t
  <2>1. \A b : OfType(s, u, t, b) = OfType(storages, ui, t, b)
    <3>1. \A i \in DOMAIN s : i \notin 1..n => s[i].type # t
      <4>1. SUFFICES ASSUME NEW i \in DOMAIN s, i \notin 1..n PROVE s[i].type # t
        OBVIOUS
      <4>2. i \in (n + 1)..(n + Len(sel)) /\ i - n \in DOMAIN sel
        BY <1>1, <1>2, <1>3, <4>1
      <4>3. QED
        BY <1>3, <1>6, <4>2
    <3>2. 1..n \subseteq DOMAIN s
      BY <1>1, <1>2, <1>3
    <3>3. QED
      BY <1>1, <1>3, <3>1, <3>2 DEF OfType
  <2>2. QED
    BY <1>5, <2>1 DEF CountOf
<1>7. ASSUME NEW k \in DOMAIN sel, sel[k] = t
      PROVE  /\ CountOf(s, u, t, FALSE) <= MaxToCreate[t]
             /\ CountOf(s, u, t, TRUE) <= MaxExistingToAttach[t]
  <2> DEFINE new == ~CanCreateStorage(t, storages, ui)
             f == CountOf(storages, ui, t, FALSE)
             e == CountOf(storages, ui, t, TRUE)
             f2 == CountOf(s, u, t, FALSE)
             e2 == CountOf(s, u, t, TRUE)
  <2>1. /\ \A i \in DOMAIN s : s[i].type = t => i \in 1..n \/ i = n + k
        /\ u[n + k] = new
    <3>1. n + k \in (n + 1)..(n + Len(sel)) /\ (n + k) - n = k
      BY <1>1, <1>2
    <3>2. ASSUME NEW i \in DOMAIN s, s[i].type = t, i \notin 1..n
          PROVE  i = n + k
      <4>1. i \in (n + 1)..(n + Len(sel)) /\ i - n \in DOMAIN sel
        BY <1>1, <1>2, <1>3, <3>2
      <4>2. i - n = k
        BY <1>2, <1>3, <1>7, <3>2, <4>1
      <4>3. QED
        BY <1>1, <1>2, <4>1, <4>2
    <3>3. u[n + k] = ~CanCreateStorage(sel[(n + k) - n], storages, ui)
      BY <1>3, <3>1
    <3>4. QED
      BY <1>7, <3>1, <3>2, <3>3
  <2>2. ASSUME NEW b \in BOOLEAN
        PROVE  /\ OfType(s, u, t, b) \in SUBSET (OfType(storages, ui, t, b) \cup {n + k})
               /\ b # new => OfType(s, u, t, b) \in SUBSET OfType(storages, ui, t, b)
    BY <1>1, <1>3, <2>1 DEF OfType
  <2>3. \A b \in BOOLEAN :
          /\ CountOf(s, u, t, b) <= CountOf(storages, ui, t, b) + 1
          /\ b # new => CountOf(s, u, t, b) <= CountOf(storages, ui, t, b)
          /\ CountOf(s, u, t, b) \in Nat
    BY <1>1, <1>3, <2>2, CountsAre DEF CountOf
  <2>4. /\ f \in Nat /\ e \in Nat
        /\ f2 \in Nat /\ e2 \in Nat
        /\ MaxToCreate[t] \in Nat /\ MaxExistingToAttach[t] \in Nat
        /\ StorageMaxes[t] \in Nat
        /\ StorageMaxes[t] <= MaxToCreate[t] + MaxExistingToAttach[t]
    <3>1. f \in Nat /\ e \in Nat
      BY <1>1, CountsAre
    <3>2. QED
      BY <2>3, <3>1, StorageAssumption DEF StorageAssumption
  <2>5. f + e < StorageMaxes[t]
    <3>1. t \in Offered /\ t \in DefaultCounts
      BY <1>2, <1>7 DEF DefaultCounts, ManagedForms
    <3>2. Cardinality({i \in DOMAIN storages : storages[i].type = t}) < StorageMaxes[t]
      BY <3>1 DEF Offered
    <3>3. Cardinality({i \in DOMAIN storages : storages[i].type = t}) = f + e
      BY <1>1, CountsAdd
    <3> HIDE DEF f, e
    <3>4. QED
      BY <3>2, <3>3
  <2>6. new <=> ~(f < MaxToCreate[t])
    BY DEF CanCreateStorage
  <2>7. CASE new
    <3>1. f2 <= f /\ e2 <= e + 1
      BY <2>3, <2>7
    <3> HIDE DEF f, e, f2, e2, new
    <3>2. f <= MaxToCreate[t] /\ ~(f < MaxToCreate[t])
      BY <1>5, <2>6, <2>7 DEF f
    <3>3. f2 <= MaxToCreate[t] /\ e2 <= MaxExistingToAttach[t]
      BY <2>4, <2>5, <3>1, <3>2
    <3>4. QED
      BY <3>3 DEF f2, e2
  <2>8. CASE ~new
    <3>1. f2 <= f + 1 /\ e2 <= e
      BY <2>3, <2>8
    <3> HIDE DEF f, e, f2, e2, new
    <3>2. f < MaxToCreate[t] /\ e <= MaxExistingToAttach[t]
      BY <1>5, <2>6, <2>8 DEF e
    <3>3. f2 <= MaxToCreate[t] /\ e2 <= MaxExistingToAttach[t]
      BY <2>4, <3>1, <3>2
    <3>4. QED
      BY <3>3 DEF f2, e2
  <2>9. QED
    BY <2>7, <2>8
<1>8. QED
  BY <1>6, <1>7

\* What is left after a removal was there before.
LEMMA RemoveKeeps ==
  ASSUME IInv, QuotasKept(storages, ui), NEW i \in DOMAIN storages, NEW s, NEW u, Removed(i, s, u)
  PROVE  QuotasKept(s, u)
<1>1. /\ storages \in Seq(Storage) /\ DOMAIN storages = 1..Len(storages)
      /\ Len(storages) \in Nat
  BY CurrentGood DEF Good
<1>2. /\ DOMAIN s = 1..(Len(storages) - 1)
      /\ \A j \in DOMAIN s : /\ BackTo(i, j) \in DOMAIN storages
                              /\ s[j].type = storages[BackTo(i, j)].type
                              /\ u[j] = ui[BackTo(i, j)]
  BY LenProperties DEF Removed, Good
<1>3. \A j, k \in DOMAIN s : BackTo(i, j) = BackTo(i, k) => j = k
  BY <1>1, <1>2 DEF BackTo
<1>4. ASSUME NEW t, NEW b
      PROVE  Cardinality(OfType(s, u, t, b)) <= Cardinality(OfType(storages, ui, t, b))
  <2> DEFINE S == OfType(s, u, t, b)
             T == OfType(storages, ui, t, b)
             m == [j \in S |-> BackTo(i, j)]
  <2>1. \A j \in S : j \in DOMAIN s /\ BackTo(i, j) \in T
    BY <1>2 DEF OfType
  <2>2. IsFiniteSet(T)
    BY <1>1, CountsAre
  <2> HIDE DEF S, T
  <2>3. m \in [S -> T] /\ \A j, k \in S : m[j] = m[k] => j = k
    BY <1>3, <2>1
  <2>4. m \in Injection(S, T)
    BY <2>3 DEF Injection, IsInjective
  <2> HIDE DEF m
  <2>5. Cardinality(S) <= Cardinality(T)
    BY <2>2, <2>4, FS_Injection
  <2>6. QED
    BY <2>5 DEF S, T
<1>5. SUFFICES ASSUME NEW t \in Types \cap ManagedForms, NEW b \in BOOLEAN, NEW q \in Nat,
                      CountOf(storages, ui, t, b) <= q
               PROVE  CountOf(s, u, t, b) <= q
  BY StorageAssumption DEF QuotasKept, StorageAssumption
<1>6. /\ CountOf(s, u, t, b) \in Nat /\ CountOf(storages, ui, t, b) \in Nat
      /\ CountOf(s, u, t, b) <= CountOf(storages, ui, t, b)
  <2>1. s \in Seq(Storage)
    BY DEF Removed, Good
  <2>2. QED
    BY <1>1, <1>4, <2>1, CountsAre DEF CountOf
<1>7. QED
  BY <1>5, <1>6

\* A switched storage takes a place that is free.
LEMMA ToggleKeeps ==
  ASSUME IInv, QuotasKept(storages, ui), NEW i \in DOMAIN storages, CanToggle(i),
         NEW s, NEW u, Toggled(i, s, u)
  PROVE  QuotasKept(s, u)
<1> DEFINE b == ~UseExisting(storages, ui, i)
<1>1. /\ storages \in Seq(Storage) /\ s \in Seq(Storage)
      /\ DOMAIN s = DOMAIN storages
      /\ \A j \in DOMAIN s : /\ s[j].type = storages[j].type
                              /\ u[j] = IF j = i THEN b ELSE ui[j]
  BY CurrentGood, StorageFields DEF Toggled, Good
<1>2. /\ storages[i].type \in Types /\ MaxToCreate[storages[i].type] > 0
      /\ b <=> ~ui[i]
      /\ ~b => CountOf(storages, ui, storages[i].type, FALSE) < MaxToCreate[storages[i].type]
      /\ b => CountOf(storages, ui, storages[i].type, TRUE)
                < MaxExistingToAttach[storages[i].type]
  <2>1. /\ storages[i].type \in Types /\ MaxToCreate[storages[i].type] \in Nat
        /\ ui[i] \in BOOLEAN
    BY CurrentGood, StorageFields, StorageAssumption DEF StorageAssumption
  <2>2. /\ MaxToCreate[storages[i].type] > 0
        /\ IF UseExisting(storages, ui, i)
             THEN CanCreateStorage(storages[i].type, storages, ui)
             ELSE CanAttachExistingStorage(storages[i].type, storages, ui)
    BY DEF CanToggle
  <2>3. UseExisting(storages, ui, i) <=> ui[i]
    BY <2>1, <2>2 DEF UseExisting
  <2>4. /\ ~b => CountOf(storages, ui, storages[i].type, FALSE)
                 < MaxToCreate[storages[i].type]
        /\ b => CountOf(storages, ui, storages[i].type, TRUE)
                  < MaxExistingToAttach[storages[i].type]
    BY <2>2 DEF CanCreateStorage, CanAttachExistingStorage
  <2>5. QED
    BY <2>1, <2>2, <2>3, <2>4
<1> HIDE DEF b
<1>3. SUFFICES ASSUME NEW t \in Types \cap ManagedForms, NEW c \in BOOLEAN, NEW q \in Nat,
                      CountOf(storages, ui, t, c) <= q,
                      q = IF c THEN MaxExistingToAttach[t] ELSE MaxToCreate[t]
               PROVE  CountOf(s, u, t, c) <= q
  BY StorageAssumption DEF QuotasKept, StorageAssumption
<1>4. CountOf(s, u, t, c) \in Nat /\ CountOf(storages, ui, t, c) \in Nat
  BY <1>1, CountsAre
<1>5. CASE c = b /\ t = storages[i].type
  <2>1. OfType(s, u, t, c) \in SUBSET (OfType(storages, ui, t, c) \cup {i})
    BY <1>1 DEF OfType
  <2>2. CountOf(s, u, t, c) <= CountOf(storages, ui, t, c) + 1
    BY <1>1, <2>1, CountsAre DEF CountOf
  <2>3. CountOf(storages, ui, t, c) < q
    <3>1. CASE c
      <4>1. c = TRUE /\ b
        BY <1>5, <3>1
      <4>2. QED
        BY <1>2, <1>3, <1>5, <4>1
    <3>2. CASE ~c
      <4>1. c = FALSE /\ ~b
        BY <1>5, <3>2
      <4>2. QED
        BY <1>2, <1>3, <1>5, <4>1
    <3>3. QED
      BY <3>1, <3>2
  <2>4. QED
    BY <1>4, <2>2, <2>3
<1>6. CASE ~(c = b /\ t = storages[i].type)
  <2>1. OfType(s, u, t, c) \in SUBSET OfType(storages, ui, t, c)
    BY <1>1, <1>6 DEF OfType
  <2>2. CountOf(s, u, t, c) <= CountOf(storages, ui, t, c)
    BY <1>1, <2>1, CountsAre DEF CountOf
  <2>3. QED
    BY <1>3, <1>4, <2>2
<1>7. QED
  BY <1>5, <1>6

\* Counts depend on the types and the entries only.
LEMMA SameKeeps ==
  ASSUME NEW s, QuotasKept(storages, ui), DOMAIN s = DOMAIN storages,
         \A j \in DOMAIN s : s[j].type = storages[j].type
  PROVE  QuotasKept(s, ui)
<1>1. \A t, b : OfType(s, ui, t, b) = OfType(storages, ui, t, b)
  BY DEF OfType
<1>2. QED
  BY <1>1 DEF QuotasKept, CountOf

\* An empty draft keeps to every quota.
LEMMA NoneKept == \A u : QuotasKept(<<>>, u)
<1>1. \A u, t, b : OfType(<<>>, u, t, b) = {}
  BY DEF OfType
<1>2. Cardinality({}) = 0
  BY FS_EmptySet
<1>3. SUFFICES ASSUME NEW u, NEW t \in Types \cap ManagedForms
               PROVE  /\ CountOf(<<>>, u, t, FALSE) <= MaxToCreate[t]
                      /\ CountOf(<<>>, u, t, TRUE) <= MaxExistingToAttach[t]
  BY DEF QuotasKept
<1>4. MaxToCreate[t] \in Nat /\ MaxExistingToAttach[t] \in Nat
  BY StorageAssumption DEF StorageAssumption
<1> DEFINE f == CountOf(<<>>, u, t, FALSE)
           e == CountOf(<<>>, u, t, TRUE)
<1>5. f = 0 /\ e = 0
  BY <1>1, <1>2 DEF CountOf
<1> HIDE DEF f, e
<1>6. f <= MaxToCreate[t] /\ e <= MaxExistingToAttach[t]
  BY <1>4, <1>5
<1>7. QED
  BY <1>6 DEF f, e

\* Every step keeps to the quotas.
LEMMA QuotasStep ==
  ASSUME TemplatesKept, IInv, WithinQuotas, [Next]_vars
  PROVE  WithinQuotas'
<1>1. /\ Good(storages, ui)
      /\ aligned => QuotasKept(storages, ui)
      /\ \A j \in DOMAIN storages : storages[j] \in Storage
  BY CurrentGood, QuotasAre
<1>2. ASSUME UNCHANGED <<storages, ui, aligned>>
      PROVE  WithinQuotas'
  BY <1>2 DEF WithinQuotas, CountOf, OfType
<1>3. ASSUME NEW s, NEW u, storages' = s, ui' = u, QuotasKept(s, u)
      PROVE  WithinQuotas'
  <2>1. \A t \in Types :
          /\ t \in ManagedForms => CountOf(storages', ui', t, FALSE) <= MaxToCreate[t]
          /\ t \in DefaultCounts => CountOf(storages', ui', t, TRUE) <= MaxExistingToAttach[t]
    BY <1>3 DEF QuotasKept, DefaultCounts, ManagedForms
  <2>2. QED
    BY <2>1 DEF WithinQuotas
<1>4. CASE Show
  BY <1>1, <1>4, RenderedCounts DEF Show
<1>5. CASE HandleNext \/ HandlePrev \/ StepBack
  BY <1>2, <1>5 DEF HandleNext, HandlePrev, StepBack
<1>6. CASE Cancel \/ WizardShow \/ SelectRegion
  BY <1>3, <1>6, NoneKept DEF Cancel, WizardShow, SelectRegion
<1>7. ASSUME NEW v \in Versions, VersionSelected(v) \/ EditConfiguration(v)
      PROVE  WithinQuotas'
  BY <1>2, <1>7 DEF VersionSelected, EditConfiguration
<1>8. ASSUME NEW s \in Templates, NEW v \in Versions \cup {version}, LoadTemplate(s, v)
      PROVE  WithinQuotas'
  BY <1>3, <1>8 DEF LoadTemplate, TemplatesKept
<1>9. ASSUME NEW sel \in Batches, OnAddStorageSubmit(sel)
      PROVE  WithinQuotas'
  <2>1. PICK s, u : Added(sel, s, u)
    BY <1>9, AddingAdds
  <2>2. Good(s, u) /\ Renders(s, u, visible) /\ aligned' = aligned
    BY <1>9, <2>1 DEF Added, OnAddStorageSubmit
  <2>3. aligned' => QuotasKept(s, u)
    BY <1>9, <2>1, <2>2, AddKeeps
  <2>4. QED
    BY <2>2, <2>3, RenderedCounts
<1>10. ASSUME NEW i \in DOMAIN storages, RemoveStorage(i)
       PROVE  WithinQuotas'
  <2>1. CASE Len(storages) = 1
    <3>1. Good(<<>>, <<>>) /\ Renders(<<>>, <<>>, visible)
      BY <1>10, <2>1, StorageAssumption DEF StorageAssumption, Good, RemoveStorage
    <3>2. QED
      BY <3>1, NoneKept, RenderedCounts
  <2>2. CASE Len(storages) # 1
    <3>1. PICK s, u : Removed(i, s, u)
      BY <1>10, <2>2, RemovingRemoves
    <3>2. aligned' = aligned
      BY <1>10, <2>2 DEF RemoveStorage, IInv, TypeOK
    <3>3. aligned' => QuotasKept(s, u)
      BY <1>1, <3>1, <3>2, RemoveKeeps
    <3>4. QED
      BY <3>1, <3>3, RenderedCounts DEF Removed
  <2>3. QED
    BY <2>1, <2>2
<1>11. ASSUME NEW i \in DOMAIN storages, ToggleUseExisting(i)
       PROVE  WithinQuotas'
  <2>1. PICK s, u : Toggled(i, s, u)
    BY <1>11, TogglingToggles
  <2>2. CanToggle(i) /\ aligned' = aligned
    BY <1>11 DEF ToggleUseExisting
  <2>3. aligned' => QuotasKept(s, u)
    BY <1>1, <2>1, <2>2, ToggleKeeps
  <2>4. QED
    BY <2>1, <2>3, RenderedCounts DEF Toggled
<1>12. ASSUME NEW i \in DOMAIN storages, NEW n \in TypedNames, UpdateStorageName(i, n)
       PROVE  WithinQuotas'
  <2>1. PICK s : TypedAt(i, n, s)
    BY <1>12, NamingNames
  <2>2. /\ DOMAIN s = DOMAIN storages /\ aligned' = aligned
        /\ \A j \in DOMAIN s : s[j].type = storages[j].type
    BY <1>1, <1>12, <2>1, StorageFields DEF TypedAt, UpdateStorageName
  <2>3. aligned' => QuotasKept(s, ui)
    BY <1>1, <2>2, SameKeeps
  <2>4. QED
    BY <2>1, <2>3, RenderedCounts DEF TypedAt
<1>13. ASSUME NEW i \in DOMAIN storages, Edited(i)
       PROVE  WithinQuotas'
  <2>1. PICK g \in Settings, vis \in [Positions -> BOOLEAN] : SettingsEdited(i, g, vis)
    BY <1>13 DEF Edited
  <2> DEFINE s == [storages EXCEPT ![i].settings = g]
  <2>2. Good(s, ui) /\ Renders(s, ui, vis) /\ aligned' = aligned
    BY <2>1, SettingsGood DEF SettingsEdited
  <2>3. /\ DOMAIN s = DOMAIN storages
        /\ \A j \in DOMAIN s : s[j].type = storages[j].type
    BY <1>1, StorageFields
  <2> HIDE DEF s
  <2>4. aligned' => QuotasKept(s, ui)
    BY <1>1, <2>2, <2>3, SameKeeps
  <2>5. QED
    BY <2>2, <2>4, RenderedCounts
<1>14. CASE UNCHANGED vars
  BY <1>2, <1>14 DEF vars
<1>15. ASSUME NEW i \in DOMAIN storages, EditOf(i)
       PROVE  WithinQuotas'
  BY <1>10, <1>11, <1>12, <1>13, <1>15, EditsAre DEF EditOf
<1>16. QED
  BY <1>4, <1>5, <1>6, <1>7, <1>8, <1>9, <1>14, <1>15 DEF Next

\* However storages are added in batches, removed and switched, a draft that began
\* with its entries in step never holds more managed or existing storages of a type
\* than canCreateStorage and canAttachExistingStorage allow one at a time, unless a
\* template brought more.
THEOREM QuotasHold == TemplatesKept => (Spec => []WithinQuotas)
<1> SUFFICES ASSUME TemplatesKept PROVE Spec => []WithinQuotas
  OBVIOUS
<1>1. Init => WithinQuotas
  BY NoneKept, QuotasAre DEF Init
<1>2. IInv /\ WithinQuotas /\ [Next]_vars => WithinQuotas'
  BY QuotasStep
<1>3. QED
  BY <1>1, <1>2, Inductive, PTL DEF Spec
-----------------------------------------------------------------------------
(***************************************************************************)
(* The queues page.  Its invariant QInv has five parts.  QueueKinds and Draft  *)
(* say what the variables hold, Draft also that a queue before 3.3 has single  *)
(* types, which its forms rely on.  Effects is what the components' effects    *)
(* leave of each queue; no action restores it, every one re-establishes it     *)
(* through Settled, so it is needed at every queue for any one to keep it.     *)
(* Forms relates the draft to the state kept by position.  Content is about    *)
(* what sections bring with them, and is the only part that asks them to be    *)
(* ones the page could have made (SectionsFit).                                *)
(***************************************************************************)

\* The React state of a compute resource's forms and of a queue's, and history.
CrFields == [option : {"none", ById, ByArn}, input : Reservations \cup {""},
             type : InstanceTypes \cup {Nil}]
Form == [script : BOOLEAN, crs : Seq(CrFields)]
Past == [moved : BOOLEAN, removed : BOOLEAN, renamed : BOOLEAN, amisMoved : BOOLEAN]

\* A queue of the draft, whether the page shows it or not.
Sound(q) ==
  /\ q \in Queue /\ Len(q.crs) \in CrPositions
  /\ ~Multi => \A j \in DOMAIN q.crs :
       /\ \E t \in InstanceTypes : q.crs[j].types = {t}
       /\ q.crs[j].target = NoTarget

\* What the effects leave of a queue.
Rendered(q) ==
  /\ q.block => ~q.strategy
  /\ Wide(q) => ~q.group
  /\ \A j \in DOMAIN q.crs :
       /\ q.crs[j].efa => ~Wide(q)
       /\ Multi /\ Fixed(q.crs[j].types) => ~q.crs[j].noHT

\* A select that shows the compute resource's single type, or nothing when the type
\* was not listed.
ShowsType(cr, f) ==
  \/ cr.types = {f.type}
  \/ f.type = Nil /\ ~(cr.types \subseteq known)
\* The form f shows the compute resource cr, and the form g the queue q.
ShownCr(cr, f) ==
  /\ IF Multi THEN cr.target = IF f.option = "none" THEN NoTarget
                               ELSE [kind |-> f.option, id |-> f.input]
     ELSE ShowsType(cr, f)
  /\ cr.target.kind = ById => cr.types = {}
Shown(q, g) ==
  /\ q.script => g.script
  /\ \A j \in DOMAIN q.crs : ShownCr(q.crs[j], g.crs[j])

GoodForms(qs, fs) ==
  /\ fs \in Seq(Form) /\ DOMAIN fs = DOMAIN qs
  /\ \A i \in DOMAIN qs : DOMAIN fs[i].crs = DOMAIN qs[i].crs

\* EFA is on only where it can be, and the dynamic nodes are those typed.
ProperCr(cr) ==
  /\ cr.efa => cr.types = {} \/ SupportEfa(cr.types)
  /\ Dynamic(cr.nodes) = cr.nodes.given \/ cr.nodes.lost
Proper(q) == \A j \in DOMAIN q.crs : ProperCr(q.crs[j])

\* No two compute resources of different types have a name in common, nor has
\* one the name of the next to be added.
Apart(crs) ==
  IF Multi
  THEN \A j \in DOMAIN crs :
         /\ \A l \in DOMAIN crs : j # l => crs[j].suffix # crs[l].suffix
         /\ crs[j].suffix \notin {n \in Nat : n > Len(crs)}
  ELSE \A j \in DOMAIN crs :
         /\ crs[j].suffix \in InstanceTypes => crs[j].types = {crs[j].suffix}
         /\ \A l \in DOMAIN crs : j # l /\ crs[j].suffix \notin InstanceTypes =>
                                    crs[j].suffix # crs[l].suffix
QueuesApart(qs) ==
  \A i \in DOMAIN qs :
    /\ \A k \in DOMAIN qs : i # k => qs[i].name # qs[k].name
    /\ qs[i].name \notin {n \in Nat : n > Len(qs)}

SomeBefore33 == \E F \in FlagsOffered : "queues_multiple_instance_types" \notin F

\* A loaded section is one the page could have made: EFA fits the types, and no
\* name in it is one the page gives to what is added to it.
SectionsFit ==
  \A qs \in QueueSections :
    /\ QueuesApart(qs)
    /\ \A i \in DOMAIN qs :
         LET crs == qs[i].crs IN
         \A j \in DOMAIN crs :
           /\ crs[j].efa => crs[j].types = {} \/ SupportEfa(crs[j].types)
           /\ Dynamic(crs[j].nodes) = crs[j].nodes.given
           /\ SomeBefore33 /\ OfOneType(qs) /\ crs[j].suffix \in InstanceTypes =>
                crs[j].types = {crs[j].suffix}
           /\ \A l \in DOMAIN crs : j # l => crs[j].suffix # crs[l].suffix
           /\ crs[j].suffix \notin {n \in Nat : n > Len(crs)}

\* The invariant.
QueueKinds ==
  /\ flags \in FlagsOffered
  /\ onPage \in BOOLEAN /\ idleError \in BOOLEAN /\ amiEnabled \subseteq QueuePositions
  /\ slurm \in [memory : BOOLEAN, idle : {"unset", "positive", "negative"}]
  /\ queueErrors \in [QueuePositions -> SUBSET (FieldErrors \cup AllTypeErrors)]
  /\ queuesPast \in Past /\ known \subseteq listed
Draft ==
  /\ WithinLimits(queues) /\ \A i \in DOMAIN queues : Sound(queues[i])
  /\ IF onPage THEN GoodForms(queues, forms) ELSE forms = <<>>
Effects ==
  /\ onPage => \A i \in DOMAIN queues : Rendered(queues[i])
  /\ slurm.memory => Memory
  /\ MemoryFitsTypes
Forms ==
  /\ onPage /\ ~queuesPast.moved => \A i \in DOMAIN queues : Shown(queues[i], forms[i])
  /\ AmiIsShown
Content ==
  /\ \A i \in DOMAIN queues : Proper(queues[i])
  /\ ~queuesPast.removed =>
       /\ \A i \in DOMAIN queues : Apart(queues[i].crs)
       /\ ~queuesPast.renamed => QueuesApart(queues)
QInv == QueueKinds /\ Draft /\ Effects /\ Forms /\ (SectionsFit => Content)
-----------------------------------------------------------------------------
(* Queues and their compute resources.                                     *)

\* The fields of a compute resource, and of a queue.
LEMMA ResourceFields ==
  ASSUME NEW cr \in ComputeResource
  PROVE  /\ cr.suffix \in Nat \cup InstanceTypes \cup QueueNames
         /\ cr.types \in SUBSET InstanceTypes /\ cr.efa \in BOOLEAN /\ cr.noHT \in BOOLEAN
         /\ cr.target \in Targets /\ cr.nodes \in Nodes
  BY DEF ComputeResource

LEMMA QueueFields ==
  ASSUME NEW q \in Queue
  PROVE  /\ q.name \in Nat \cup QueueNames /\ q.subnets \in SUBSET (Subnets \cup {Nil})
         /\ q.group \in BOOLEAN /\ q.block \in BOOLEAN /\ q.strategy \in BOOLEAN
         /\ q.script \in BOOLEAN /\ q.args \in BOOLEAN /\ q.ami \in BOOLEAN
         /\ q.crs \in Seq(ComputeResource) /\ DOMAIN q.crs = 1..Len(q.crs)
         /\ Len(q.crs) \in Nat
         /\ \A j \in DOMAIN q.crs : q.crs[j] \in ComputeResource
<1>1. /\ q.name \in Nat \cup QueueNames /\ q.subnets \in SUBSET (Subnets \cup {Nil})
      /\ q.group \in BOOLEAN /\ q.block \in BOOLEAN /\ q.strategy \in BOOLEAN
      /\ q.script \in BOOLEAN /\ q.args \in BOOLEAN /\ q.ami \in BOOLEAN
      /\ q.crs \in Seq(ComputeResource)
  BY DEF Queue
<1>2. QED
  BY <1>1, LenProperties

\* A function on 1..n is a sequence.
LEMMA SequenceIs ==
  ASSUME NEW S, NEW n \in Nat, NEW f, f = [j \in 1..n |-> f[j]],
         \A j \in 1..n : f[j] \in S
  PROVE  f \in Seq(S) /\ Len(f) = n /\ DOMAIN f = 1..n
<1>1. f \in [1..n -> S]
  BY Zenon
<1>2. QED
  BY <1>1

\* The effects on a compute resource clear EFA and no more than that.
LEMMA SettledResource ==
  ASSUME NEW q, NEW cr \in ComputeResource
  PROVE  LET c == SettledCr(q, cr) IN
         /\ c \in ComputeResource
         /\ c.suffix = cr.suffix /\ c.types = cr.types /\ c.target = cr.target
         /\ c.nodes = cr.nodes
         /\ c.efa => cr.efa /\ ~Wide(q)
         /\ c.noHT => ~(Multi /\ Fixed(c.types))
<1> DEFINE w == Wide(q)
           h == Multi /\ Fixed(cr.types)
           c == SettledCr(q, cr)
<1>1. c = [cr EXCEPT !.efa = cr.efa /\ ~w, !.noHT = cr.noHT /\ ~h]
  BY DEF SettledCr
<1>2. (cr.efa /\ ~w) \in BOOLEAN /\ (cr.noHT /\ ~h) \in BOOLEAN
  OBVIOUS
<1>3. c \in ComputeResource
  <2> DEFINE e == cr.efa /\ ~w
             n == cr.noHT /\ ~h
  <2>1. e \in BOOLEAN /\ n \in BOOLEAN
    OBVIOUS
  <2>2. c = [cr EXCEPT !.efa = e, !.noHT = n]
    BY <1>1
  <2> HIDE DEF e, n, c
  <2>3. QED
    BY <2>1, <2>2 DEF ComputeResource
<1>4. /\ c.suffix = cr.suffix /\ c.types = cr.types /\ c.target = cr.target
      /\ c.nodes = cr.nodes
  BY <1>1 DEF ComputeResource
<1>5. c.efa = (cr.efa /\ ~w) /\ c.noHT = (cr.noHT /\ ~h)
  BY <1>1 DEF ComputeResource
<1>6. QED
  BY <1>3, <1>4, <1>5

\* A queue of one subnet is not a wide one, whichever subnet it is.
LEMMA OneSubnet ==
  ASSUME NEW s, NEW t
  PROVE  Cardinality({s}) = 1 /\ ~(Cardinality({t}) > 1)
<1>1. Cardinality({s}) = 1 /\ Cardinality({t}) = 1
  BY FS_Singleton
<1>2. QED
  BY <1>1

\* What the effects of QueuesView, Queue and ComputeResource leave of a queue.
LEMMA SettledFields ==
  ASSUME NEW q \in Queue
  PROVE  LET r == Settled(q) IN
         /\ r \in Queue
         /\ Len(r.crs) = Len(q.crs) /\ DOMAIN r.crs = DOMAIN q.crs
         /\ \A j \in DOMAIN q.crs : r.crs[j] = SettledCr(q, q.crs[j])
         /\ r.name = q.name /\ r.script = q.script /\ r.ami = q.ami
         /\ Wide(r) <=> Wide(q)
         /\ r.block => ~r.strategy
         /\ Wide(r) => ~r.group
<1> DEFINE w == Wide(q)
           n == Len(q.crs)
           crs == [j \in DOMAIN q.crs |-> SettledCr(q, q.crs[j])]
           sub == IF q.subnets = {Nil} THEN {HeadNodeSubnet} ELSE q.subnets
           g == ~w /\ q.group
           s == q.strategy /\ ~q.block
           r == Settled(q)
<1>1. r = [q EXCEPT !.subnets = sub, !.group = g, !.strategy = s, !.crs = crs]
  BY DEF Settled
<1>2. crs \in Seq(ComputeResource) /\ Len(crs) = n /\ DOMAIN crs = 1..n
  <2>1. n \in Nat /\ DOMAIN q.crs = 1..n
    BY QueueFields
  <2>2. \A j \in 1..n : crs[j] \in ComputeResource
    BY <2>1, QueueFields, SettledResource
  <2>3. crs = [j \in 1..n |-> crs[j]]
    BY <2>1
  <2> HIDE DEF crs, n
  <2>4. QED
    BY <2>1, <2>2, <2>3, SequenceIs
<1>3. sub \in SUBSET (Subnets \cup {Nil}) /\ g \in BOOLEAN /\ s \in BOOLEAN
  BY QueueFields, QueuesAssumption DEF QueuesAssumption
<1>4. (Cardinality(sub) > 1) <=> w
  BY OneSubnet DEF Wide
<1>5. \A j \in DOMAIN q.crs : crs[j] = SettledCr(q, q.crs[j])
  OBVIOUS
<1>6. DOMAIN q.crs = 1..n
  BY QueueFields
<1>7. /\ g => ~w
      /\ q.block => ~s
  OBVIOUS
<1> HIDE DEF crs, sub, g, s, r, w
<1>8. r \in Queue
  BY <1>1, <1>2, <1>3 DEF Queue
<1>9. /\ r.name = q.name /\ r.script = q.script /\ r.ami = q.ami /\ r.block = q.block
      /\ r.subnets = sub /\ r.group = g /\ r.strategy = s /\ r.crs = crs
  BY <1>1 DEF Queue
<1>10. Wide(r) <=> w
  BY <1>4, <1>9 DEF Wide
<1>11. w <=> Wide(q)
  BY DEF w
<1>12. r = Settled(q)
  BY DEF r
<1>13. /\ r.block => ~r.strategy
       /\ Wide(r) => ~r.group
  BY <1>7, <1>9, <1>10
<1>14. QED
  BY <1>2, <1>5, <1>6, <1>8, <1>9, <1>10, <1>11, <1>12, <1>13

\* The effects make of any queue one that can be shown, and change neither what
\* its forms show nor its names.
LEMMA SettledKeeps ==
  ASSUME NEW q, Sound(q)
  PROVE  LET r == Settled(q) IN
         /\ Sound(r) /\ Rendered(r)
         /\ \A g : Shown(q, g) => Shown(r, g)
         /\ Proper(q) => Proper(r)
         /\ Apart(q.crs) => Apart(r.crs)
         /\ r.name = q.name /\ r.ami = q.ami
         /\ Len(r.crs) = Len(q.crs) /\ DOMAIN r.crs = DOMAIN q.crs
<1> DEFINE r == Settled(q)
<1>1. q \in Queue
  BY DEF Sound
<1>2. /\ r \in Queue
      /\ Len(r.crs) = Len(q.crs) /\ DOMAIN r.crs = DOMAIN q.crs
      /\ \A j \in DOMAIN q.crs : r.crs[j] = SettledCr(q, q.crs[j])
      /\ r.name = q.name /\ r.script = q.script /\ r.ami = q.ami
      /\ Wide(r) <=> Wide(q)
      /\ r.block => ~r.strategy
      /\ Wide(r) => ~r.group
  BY <1>1, SettledFields
<1> HIDE DEF r
<1>3. \A j \in DOMAIN q.crs :
        /\ r.crs[j].suffix = q.crs[j].suffix /\ r.crs[j].types = q.crs[j].types
        /\ r.crs[j].target = q.crs[j].target /\ r.crs[j].nodes = q.crs[j].nodes
        /\ r.crs[j].efa => q.crs[j].efa /\ ~Wide(q)
        /\ r.crs[j].noHT => ~(Multi /\ Fixed(r.crs[j].types))
  BY <1>1, <1>2, QueueFields, SettledResource
<1>4. Sound(r) /\ Rendered(r)
  BY <1>2, <1>3 DEF Sound, Rendered
<1>5. ASSUME NEW g, Shown(q, g) PROVE Shown(r, g)
  BY <1>2, <1>3, <1>5 DEF Shown, ShownCr, ShowsType
<1>6. ASSUME Proper(q) PROVE Proper(r)
  BY <1>2, <1>3, <1>6 DEF Proper, ProperCr
<1>7. ASSUME Apart(q.crs) PROVE Apart(r.crs)
  BY <1>2, <1>3, <1>7 DEF Apart
<1>8. QED
  BY <1>2, <1>4, <1>5, <1>6, <1>7 DEF r
-----------------------------------------------------------------------------
(* The limits.                                                             *)

PlacesOf(qs) == UNION {{i} \X DOMAIN qs[i].crs : i \in DOMAIN qs}

\* The compute resources of a draft are counted as the places they have in it.
LEMMA PlacesAre ==
  ASSUME NEW qs
  PROVE  /\ TotalResources(qs) = Cardinality(PlacesOf(qs))
         /\ \A p : p \in PlacesOf(qs) <=>
              \E i \in DOMAIN qs : \E j \in DOMAIN qs[i].crs : p = <<i, j>>
<1>1. TotalResources(qs) = Cardinality(PlacesOf(qs))
  BY DEF TotalResources, PlacesOf
<1>2. ASSUME NEW p
      PROVE  p \in PlacesOf(qs) <=>
               \E i \in DOMAIN qs : \E j \in DOMAIN qs[i].crs : p = <<i, j>>
  BY DEF PlacesOf
<1>3. QED
  BY <1>1, <1>2

\* There are finitely many, for the limits bound each queue.
LEMMA FinitePlaces ==
  ASSUME NEW qs \in Seq(Queue), \A i \in DOMAIN qs : Len(qs[i].crs) \in CrPositions
  PROVE  /\ IsFiniteSet(PlacesOf(qs)) /\ TotalResources(qs) \in Nat
<1> DEFINE n == Len(qs)
           box == (1..n) \X (1..MaxPerQueue)
<1>1. n \in Nat /\ DOMAIN qs = 1..n /\ \A i \in 1..n : qs[i] \in Queue
  BY LenProperties
<1>2. MaxPerQueue \in Nat
  BY QueuesAssumption DEF QueuesAssumption
<1>3. \A i \in 1..n : DOMAIN qs[i].crs \subseteq 1..MaxPerQueue
  BY <1>1, <1>2, QueueFields DEF CrPositions
<1>4. IsFiniteSet(box)
  <2>1. 1 \in Int /\ n \in Int /\ MaxPerQueue \in Int
    BY <1>1, <1>2
  <2>2. IsFiniteSet(1..n) /\ IsFiniteSet(1..MaxPerQueue)
    BY <2>1, FS_Interval
  <2>3. QED
    BY <2>2, FS_Product
<1>5. PlacesOf(qs) \in SUBSET box
  BY <1>1, <1>3, PlacesAre
<1>6. IsFiniteSet(PlacesOf(qs))
  BY <1>4, <1>5, FS_Subset
<1>7. QED
  BY <1>6, PlacesAre, FS_CardinalityType

\* One compute resource more is one more.
LEMMA OneMore ==
  ASSUME NEW qs, NEW rs, NEW p, IsFiniteSet(PlacesOf(qs)),
         PlacesOf(rs) \subseteq PlacesOf(qs) \cup {p},
         TotalResources(qs) < MaxPerCluster
  PROVE  TotalResources(rs) <= MaxPerCluster
<1> DEFINE S == PlacesOf(qs)
           T == PlacesOf(rs)
           m == MaxPerCluster
<1>1. /\ IsFiniteSet(S \cup {p})
      /\ Cardinality(S \cup {p}) \in {Cardinality(S), Cardinality(S) + 1}
  <2>1. /\ IsFiniteSet(S \cup {p})
        /\ Cardinality(S \cup {p}) = IF p \in S THEN Cardinality(S) ELSE Cardinality(S) + 1
    BY FS_AddElement
  <2>2. QED
    BY <2>1
<1>2. Cardinality(T) <= Cardinality(S \cup {p})
  BY <1>1, FS_Subset
<1>3. /\ Cardinality(T) \in Nat /\ Cardinality(S) \in Nat
      /\ Cardinality(S \cup {p}) \in Nat
  BY <1>1, FS_Subset, FS_CardinalityType
<1>4. Cardinality(S) < m /\ m \in Nat
  BY PlacesAre, QueuesAssumption DEF QueuesAssumption
<1>5. SUFFICES Cardinality(T) <= m
  BY PlacesAre
<1> DEFINE a == Cardinality(T)
           b == Cardinality(S)
           c == Cardinality(S \cup {p})
<1>6. a \in Nat /\ b \in Nat /\ c \in Nat /\ c \in {b, b + 1} /\ a <= c /\ b < m
  BY <1>1, <1>2, <1>3, <1>4
<1> HIDE DEF a, b, c, m
<1>7. a <= m
  BY <1>4, <1>6 DEF m
<1>8. QED
  BY <1>7 DEF a, m

\* Queues whose places map one to one to those of others have no more.
LEMMA NoneMore ==
  ASSUME NEW qs, NEW rs, NEW f \in Injection(PlacesOf(rs), PlacesOf(qs)),
         IsFiniteSet(PlacesOf(qs)), TotalResources(qs) <= MaxPerCluster
  PROVE  TotalResources(rs) <= MaxPerCluster
<1> DEFINE a == Cardinality(PlacesOf(rs))
           b == Cardinality(PlacesOf(qs))
           m == MaxPerCluster
<1>1. a <= b /\ IsFiniteSet(PlacesOf(rs))
  BY FS_Injection
<1>2. a \in Nat /\ b \in Nat
  BY <1>1, FS_CardinalityType
<1>3. m \in Nat
  BY QueuesAssumption DEF QueuesAssumption
<1>4. b <= m
  BY PlacesAre
<1> HIDE DEF a, b, m
<1>5. a <= m
  BY <1>1, <1>2, <1>3, <1>4
<1>6. QED
  BY <1>5, PlacesAre DEF a, m

\* A queue replaced by one with as many compute resources, fewer, or one more if
\* there may be.
LEMMA ReplacedWithin ==
  ASSUME NEW qs, WithinLimits(qs), NEW i \in DOMAIN qs,
         NEW r \in Queue, Len(r.crs) \in CrPositions,
         \/ Len(r.crs) <= Len(qs[i].crs)
         \/ Len(r.crs) = Len(qs[i].crs) + 1 /\ TotalResources(qs) < MaxPerCluster
  PROVE  WithinLimits([qs EXCEPT ![i] = r])
<1> DEFINE n == Len(qs)
           rs == [qs EXCEPT ![i] = r]
           c == Len(qs[i].crs)
           d == Len(r.crs)
<1>1. /\ qs \in Seq(Queue) /\ n \in QueuePositions
      /\ \A k \in DOMAIN qs : Len(qs[k].crs) \in CrPositions
      /\ TotalResources(qs) <= MaxPerCluster
  BY DEF WithinLimits
<1>2. /\ n \in Nat /\ DOMAIN qs = 1..n /\ DOMAIN rs = 1..n
      /\ \A k \in 1..n : qs[k] \in Queue
  BY <1>1, LenProperties
<1>3. \A k \in 1..n : rs[k] = IF k = i THEN r ELSE qs[k]
  BY <1>2
<1>4. rs \in Seq(Queue) /\ Len(rs) = n
  BY <1>1, ExceptSeq
<1> HIDE DEF rs, n
<1>5. \A k \in DOMAIN rs : Len(rs[k].crs) \in CrPositions
  BY <1>1, <1>2, <1>3
<1>6. /\ DOMAIN r.crs = 1..d /\ DOMAIN qs[i].crs = 1..c
      /\ c \in Nat /\ d \in Nat
  BY <1>2, QueueFields
<1>7. IsFiniteSet(PlacesOf(qs))
  BY <1>1, FinitePlaces
<1>8. CASE d <= c
  <2>1. PlacesOf(rs) \in SUBSET PlacesOf(qs)
    <3>1. 1..d \subseteq 1..c
      BY <1>6, <1>8
    <3> HIDE DEF c, d
    <3>2. SUFFICES ASSUME NEW p \in PlacesOf(rs) PROVE p \in PlacesOf(qs)
      OBVIOUS
    <3>3. PICK k \in DOMAIN rs : \E j \in DOMAIN rs[k].crs : p = <<k, j>>
      BY <3>2, PlacesAre
    <3>4. PICK j \in DOMAIN rs[k].crs : p = <<k, j>>
      BY <3>3
    <3>5. k \in DOMAIN qs /\ j \in DOMAIN qs[k].crs
      BY <1>2, <1>3, <1>6, <3>1
    <3>6. QED
      BY <3>4, <3>5, PlacesAre
  <2> DEFINE S == PlacesOf(qs)
             T == PlacesOf(rs)
             a == Cardinality(T)
             b == Cardinality(S)
             m == MaxPerCluster
  <2>2. a <= b /\ IsFiniteSet(T)
    BY <1>7, <2>1, FS_Subset
  <2>3. a \in Nat /\ b \in Nat /\ b <= m /\ m \in Nat
    BY <1>1, <1>7, <2>2, FS_CardinalityType, PlacesAre, QueuesAssumption DEF QueuesAssumption
  <2> HIDE DEF a, b, m
  <2>4. a <= m
    BY <2>2, <2>3
  <2>5. TotalResources(rs) <= MaxPerCluster
    BY <2>4, PlacesAre DEF a, m
  <2>6. QED
    BY <1>1, <1>4, <1>5, <2>5 DEF WithinLimits, rs
<1>9. CASE d = c + 1 /\ TotalResources(qs) < MaxPerCluster
  <2>1. PlacesOf(rs) \subseteq PlacesOf(qs) \cup {<<i, c + 1>>}
    <3>1. \A j \in 1..d : j \in 1..c \/ j = c + 1
      BY <1>6, <1>9
    <3> HIDE DEF c, d
    <3>2. SUFFICES ASSUME NEW p \in PlacesOf(rs), p # <<i, c + 1>> PROVE p \in PlacesOf(qs)
      OBVIOUS
    <3>3. PICK k \in DOMAIN rs : \E j \in DOMAIN rs[k].crs : p = <<k, j>>
      BY <3>2, PlacesAre
    <3>4. PICK j \in DOMAIN rs[k].crs : p = <<k, j>>
      BY <3>3
    <3>5. k \in DOMAIN qs /\ j \in DOMAIN qs[k].crs
      BY <1>2, <1>3, <1>6, <3>1, <3>2, <3>4
    <3>6. QED
      BY <3>4, <3>5, PlacesAre
  <2>2. TotalResources(rs) <= MaxPerCluster
    BY <1>7, <1>9, <2>1, OneMore
  <2>3. QED
    BY <1>1, <1>4, <1>5, <2>2 DEF WithinLimits, rs
<1>10. QED
  BY <1>8, <1>9
-----------------------------------------------------------------------------
(* Steps.                                                                  *)

\* The invariant after a step, in terms of the version's features before it,
\* which no step changes.
After ==
  /\ flags' = flags /\ (onPage' => known' = known) /\ QueueKinds'
  /\ WithinLimits(queues') /\ \A i \in DOMAIN queues' : Sound(queues'[i])
  /\ IF onPage' THEN GoodForms(queues', forms') ELSE forms' = <<>>
  /\ onPage' => \A i \in DOMAIN queues' : Rendered(queues'[i])
  /\ slurm'.memory => Memory
  /\ onPage' /\ slurm'.memory => ~CannotSchedule(queues')
  /\ onPage' /\ ~queuesPast'.moved =>
       \A i \in DOMAIN queues' : Shown(queues'[i], forms'[i])
  /\ AmiIsShown'
  /\ SectionsFit =>
       /\ \A i \in DOMAIN queues' : Proper(queues'[i])
       /\ ~queuesPast'.removed =>
            /\ \A i \in DOMAIN queues' : Apart(queues'[i].crs)
            /\ ~queuesPast'.renamed => QueuesApart(queues')

\* After is the invariant in the next state: the version decides as it did before.
LEMMA AfterIsInv ==
  ASSUME After
  PROVE  QInv'
<1>1. flags' = flags /\ QueueKinds'
  BY DEF After
<1>2. (\A i \in DOMAIN queues : Sound(queues[i]))'
  BY DEF After, Sound, Multi
<1>3. (onPage => \A i \in DOMAIN queues : Rendered(queues[i]))'
  BY DEF After, Rendered, Wide, Fixed, Multi
<1>4. (slurm.memory => Memory)' /\ MemoryFitsTypes'
  BY DEF After, MemoryFitsTypes, Memory, CannotSchedule, Multi, MemoryWithMany, ManyTypes
<1>5. (onPage /\ ~queuesPast.moved => \A i \in DOMAIN queues : Shown(queues[i], forms[i]))'
  BY DEF After, Shown, ShownCr, ShowsType, Multi
<1>6. SectionsFit => (\A i \in DOMAIN queues : Proper(queues[i]))'
  BY DEF After, Proper, ProperCr, SupportEfa, Dynamic, OrZero
<1>7. SectionsFit /\ ~queuesPast'.removed =>
        /\ (\A i \in DOMAIN queues : Apart(queues[i].crs))'
        /\ ~queuesPast'.renamed => QueuesApart(queues')
  BY DEF After, Apart, Multi
<1>8. Draft'
  BY <1>2 DEF After, Draft, GoodForms, WithinLimits, TotalResources
<1>9. Effects' /\ Forms'
  BY <1>3, <1>4, <1>5 DEF After, Effects, Forms
<1>10. SectionsFit => Content'
  BY <1>6, <1>7 DEF Content, QueuesApart
<1>11. QED
  BY <1>1, <1>8, <1>9, <1>10 DEF QInv

\* Whatever the queues become, memory-based scheduling fits them (the effect).
LEMMA HoldKeeps ==
  ASSUME QInv, NEW qs, Hold(qs)
  PROVE  /\ queues' = qs
         /\ slurm' \in [memory : BOOLEAN, idle : {"unset", "positive", "negative"}]
         /\ slurm'.memory => Memory /\ ~CannotSchedule(qs)
<1> DEFINE m == slurm.memory /\ ~(Memory /\ CannotSchedule(qs))
<1>1. /\ slurm \in [memory : BOOLEAN, idle : {"unset", "positive", "negative"}]
      /\ slurm.memory => Memory
  BY DEF QInv, QueueKinds, Effects
<1>2. queues' = qs /\ slurm' = [slurm EXCEPT !.memory = m]
  BY DEF Hold
<1>3. m \in BOOLEAN /\ (m => Memory /\ ~CannotSchedule(qs))
  BY <1>1
<1> HIDE DEF m
<1>4. QED
  BY <1>1, <1>2, <1>3

\* What the page knows of the queue at i, and what a step that edits it as r, with
\* the form g, owes it.
QueueEdit(i, r, g) ==
  /\ onPage /\ i \in DOMAIN queues /\ Change(i, r)
  /\ forms' = [forms EXCEPT ![i] = g]
  /\ UNCHANGED <<flags, listed, known, onPage, idleError>>
  /\ queueErrors' \in [QueuePositions -> SUBSET (FieldErrors \cup AllTypeErrors)]
  /\ queuesPast' \in Past
  /\ \A h \in {"moved", "removed", "renamed", "amisMoved"} : queuesPast[h] => queuesPast'[h]
  /\ amiEnabled' \subseteq QueuePositions /\ amiEnabled \ {i} \subseteq amiEnabled'
  /\ Sound(r) /\ g \in Form /\ DOMAIN g.crs = DOMAIN r.crs
  /\ \/ Len(r.crs) <= Len(queues[i].crs)
     \/ Len(r.crs) = Len(queues[i].crs) + 1 /\ TotalResources(queues) < MaxPerCluster
  /\ ~queuesPast'.moved => Shown(r, g)
  /\ r.ami /\ ~queuesPast'.amisMoved => i \in amiEnabled'
  /\ SectionsFit =>
       /\ Proper(r)
       /\ ~queuesPast'.removed => Apart(r.crs)
  /\ r.name = queues[i].name \/ queuesPast'.renamed

\* A step that edits one queue and its form as it owes keeps the invariant.
LEMMA EditKeeps ==
  ASSUME QInv, NEW i, NEW r, NEW g, QueueEdit(i, r, g)
  PROVE  QInv'
<1> DEFINE q == Settled(r)
           qs == [queues EXCEPT ![i] = q]
           n == Len(queues)
<1>1. /\ WithinLimits(queues) /\ queues \in Seq(Queue) /\ n \in QueuePositions
      /\ i \in DOMAIN queues /\ onPage /\ onPage' /\ flags' = flags /\ known' = known
      /\ GoodForms(queues, forms)
  BY DEF QInv, Draft, WithinLimits, QueueEdit
<1>2. n \in Nat /\ DOMAIN queues = 1..n
  BY <1>1, LenProperties
<1>3. /\ Sound(q) /\ Rendered(q)
      /\ \A h : Shown(r, h) => Shown(q, h)
      /\ Proper(r) => Proper(q)
      /\ Apart(r.crs) => Apart(q.crs)
      /\ q.name = r.name /\ q.ami = r.ami
      /\ Len(q.crs) = Len(r.crs) /\ DOMAIN q.crs = DOMAIN r.crs
  <2>1. Sound(r)
    BY DEF QueueEdit
  <2>2. QED
    BY <2>1, SettledKeeps
<1>4. queues' = qs /\ slurm' \in [memory : BOOLEAN, idle : {"unset", "positive", "negative"}]
      /\ (slurm'.memory => Memory /\ ~CannotSchedule(qs))
  <2>1. Hold(qs)
    BY DEF QueueEdit, Change
  <2>2. QED
    BY <2>1, HoldKeeps
<1>5. q \in Queue /\ Len(q.crs) \in CrPositions
  BY <1>3 DEF Sound
<1>6. WithinLimits(qs)
  <2>1. \/ Len(q.crs) <= Len(queues[i].crs)
        \/ Len(q.crs) = Len(queues[i].crs) + 1 /\ TotalResources(queues) < MaxPerCluster
    BY <1>3 DEF QueueEdit
  <2> HIDE DEF q
  <2>2. QED
    BY <1>1, <1>5, <2>1, ReplacedWithin
<1> HIDE DEF q, n
<1>7. /\ DOMAIN qs = 1..n /\ Len(qs) = n
      /\ \A k \in 1..n : qs[k] = IF k = i THEN q ELSE queues[k]
  <2>1. Len(qs) = n
    BY <1>1, <1>2, <1>5, ExceptSeq DEF n
  <2>2. QED
    BY <1>2, <2>1
<1>8. /\ forms \in Seq(Form) /\ DOMAIN forms = 1..n /\ Len(forms) = n
      /\ \A k \in 1..n : DOMAIN forms[k].crs = DOMAIN queues[k].crs
      /\ g \in Form /\ DOMAIN g.crs = DOMAIN q.crs
      /\ forms' = [forms EXCEPT ![i] = g]
  <2>1. /\ forms \in Seq(Form) /\ DOMAIN forms = 1..n
        /\ \A k \in 1..n : DOMAIN forms[k].crs = DOMAIN queues[k].crs
        /\ g \in Form /\ DOMAIN g.crs = DOMAIN q.crs
        /\ forms' = [forms EXCEPT ![i] = g]
    BY <1>1, <1>2, <1>3 DEF GoodForms, QueueEdit
  <2>2. Len(forms) = n
    BY <1>2, <2>1, LenProperties
  <2>3. QED
    BY <2>1, <2>2
<1>9. /\ forms' \in Seq(Form) /\ DOMAIN forms' = 1..n
      /\ \A k \in 1..n : forms'[k] = IF k = i THEN g ELSE forms[k]
  <2>1. i \in 1..Len(forms)
    BY <1>1, <1>2, <1>8
  <2>2. forms' \in Seq(Form)
    BY <1>8, <2>1, ExceptSeq
  <2>3. QED
    BY <1>8, <2>2
<1> HIDE DEF qs
<1>10. /\ WithinLimits(queues') /\ \A k \in DOMAIN queues' : Sound(queues'[k])
       /\ \A k \in DOMAIN queues' : Rendered(queues'[k])
  BY <1>1, <1>2, <1>3, <1>4, <1>6, <1>7 DEF QInv, Draft, Effects
<1>11. GoodForms(queues', forms')
  BY <1>4, <1>7, <1>8, <1>9 DEF GoodForms
<1>12. QueueKinds'
  <2>1. /\ flags \in FlagsOffered /\ onPage \in BOOLEAN /\ idleError \in BOOLEAN
        /\ known \subseteq listed
    BY DEF QInv, QueueKinds
  <2>2. QED
    BY <1>4, <2>1 DEF QueueEdit, QueueKinds
<1>13. \A h \in {"moved", "removed", "renamed", "amisMoved"} : queuesPast[h] => queuesPast'[h]
  BY DEF QueueEdit
<1>14. ASSUME ~queuesPast'.moved, NEW k \in DOMAIN queues'
       PROVE  Shown(queues'[k], forms'[k])
  <2>1. ~queuesPast.moved
    BY <1>13, <1>14
  <2>2. \A l \in 1..n : Shown(queues[l], forms[l])
    BY <1>1, <1>2, <2>1 DEF QInv, Forms
  <2>3. Shown(q, g)
    BY <1>3, <1>14 DEF QueueEdit
  <2>4. QED
    BY <1>4, <1>7, <1>9, <1>14, <2>2, <2>3
<1>15. AmiIsShown'
  <2>1. SUFFICES ASSUME ~queuesPast'.amisMoved, NEW k \in DOMAIN queues', queues'[k].ami
                 PROVE  k \in amiEnabled'
    BY DEF AmiIsShown
  <2>2. ~queuesPast.amisMoved
    BY <1>13, <2>1
  <2>3. \A l \in 1..n : queues[l].ami => l \in amiEnabled
    BY <1>2, <2>2 DEF QInv, Forms, AmiIsShown
  <2>4. CASE k = i
    BY <1>3, <1>4, <1>7, <2>1, <2>4 DEF QueueEdit
  <2>5. CASE k # i
    BY <1>4, <1>7, <2>1, <2>3, <2>5 DEF QueueEdit
  <2>6. QED
    BY <2>4, <2>5
<1>16. ASSUME SectionsFit
       PROVE  /\ \A k \in DOMAIN queues' : Proper(queues'[k])
              /\ ~queuesPast'.removed =>
                   /\ \A k \in DOMAIN queues' : Apart(queues'[k].crs)
                   /\ ~queuesPast'.renamed => QueuesApart(queues')
  <2>1. /\ \A k \in 1..n : Proper(queues[k])
        /\ ~queuesPast.removed =>
             /\ \A k \in 1..n : Apart(queues[k].crs)
             /\ ~queuesPast.renamed => QueuesApart(queues)
    BY <1>2, <1>16 DEF QInv, Content
  <2>2. Proper(q) /\ (~queuesPast'.removed => Apart(q.crs))
    BY <1>3, <1>16 DEF QueueEdit
  <2>3. q.name = queues[i].name \/ queuesPast'.renamed
    BY <1>3 DEF QueueEdit
  <2>4. ASSUME ~queuesPast'.removed PROVE \A k \in DOMAIN queues' : Apart(queues'[k].crs)
    BY <1>4, <1>7, <1>13, <2>1, <2>2, <2>4
  <2>5. ASSUME ~queuesPast'.removed, ~queuesPast'.renamed PROVE QueuesApart(queues')
    <3>1. QueuesApart(queues) /\ q.name = queues[i].name
      BY <1>13, <2>1, <2>3, <2>5
    <3>2. \A k \in 1..n : queues'[k].name = queues[k].name
      BY <1>4, <1>7, <3>1
    <3>3. DOMAIN queues' = DOMAIN queues /\ Len(queues') = Len(queues)
      BY <1>2, <1>4, <1>7 DEF n
    <3>4. QED
      BY <1>2, <3>1, <3>2, <3>3 DEF QueuesApart
  <2>6. QED
    BY <1>4, <1>7, <2>1, <2>2, <2>4, <2>5
<1>17. QED
  <2>1. After
    BY <1>1, <1>4, <1>10, <1>11, <1>12, <1>14, <1>15, <1>16 DEF After
  <2>2. QED
    BY <2>1, AfterIsInv
-----------------------------------------------------------------------------
(* Edits of one queue.                                                     *)

\* What the invariant says of one queue of the mounted page.
LEMMA Here ==
  ASSUME QInv, onPage, NEW i \in DOMAIN queues
  PROVE  /\ i \in QueuePositions
         /\ queues[i] \in Queue /\ Sound(queues[i])
         /\ forms[i] \in Form /\ DOMAIN forms[i].crs = DOMAIN queues[i].crs
         /\ forms = [forms EXCEPT ![i] = forms[i]] /\ i \in DOMAIN forms
         /\ ~queuesPast.moved => Shown(queues[i], forms[i])
         /\ queues[i].ami /\ ~queuesPast.amisMoved => i \in amiEnabled
         /\ SectionsFit =>
              /\ Proper(queues[i])
              /\ ~queuesPast.removed => Apart(queues[i].crs)
         /\ queuesPast \in Past /\ amiEnabled \subseteq QueuePositions
         /\ queueErrors \in [QueuePositions -> SUBSET (FieldErrors \cup AllTypeErrors)]
<1>1. /\ queues \in Seq(Queue) /\ Len(queues) \in QueuePositions
      /\ Sound(queues[i])
      /\ forms \in Seq(Form) /\ DOMAIN forms = DOMAIN queues
      /\ DOMAIN forms[i].crs = DOMAIN queues[i].crs
  BY DEF QInv, Draft, WithinLimits, GoodForms
<1>2. /\ DOMAIN queues = 1..Len(queues) /\ \A k \in DOMAIN queues : queues[k] \in Queue
      /\ DOMAIN forms = 1..Len(forms) /\ \A k \in DOMAIN forms : forms[k] \in Form
  BY <1>1, LenProperties
<1>3. MaxQueues \in Nat
  BY QueuesAssumption DEF QueuesAssumption
<1>4. i \in QueuePositions
  BY <1>1, <1>2, <1>3 DEF QueuePositions
<1>5. forms = [forms EXCEPT ![i] = forms[i]]
  BY <1>1, <1>2
<1>6. queues[i].ami /\ ~queuesPast.amisMoved => i \in amiEnabled
  BY DEF QInv, Forms, AmiIsShown
<1>7. QED
  BY <1>1, <1>2, <1>4, <1>5, <1>6 DEF QInv, QueueKinds, Forms, Content

\* The compute resources are left alone.
LEMMA FlatKeeps ==
  ASSUME QInv, onPage, NEW i \in DOMAIN queues, NEW r \in Queue, Change(i, r),
         r.crs = queues[i].crs, r.name = queues[i].name,
         NEW g \in Form, g.crs = forms[i].crs, forms' = [forms EXCEPT ![i] = g],
         ~queuesPast.moved /\ r.script => g.script,
         UNCHANGED <<flags, listed, known, onPage, idleError, queuesPast>>,
         queueErrors' \in [QueuePositions -> SUBSET (FieldErrors \cup AllTypeErrors)],
         amiEnabled' \subseteq QueuePositions, amiEnabled \ {i} \subseteq amiEnabled',
         r.ami /\ ~queuesPast.amisMoved => i \in amiEnabled'
  PROVE  QInv'
<1> DEFINE q == queues[i]
<1>1. /\ q \in Queue /\ Sound(q) /\ forms[i] \in Form
      /\ DOMAIN forms[i].crs = DOMAIN q.crs
      /\ ~queuesPast.moved => Shown(q, forms[i])
      /\ SectionsFit =>
           /\ Proper(q)
           /\ ~queuesPast.removed => Apart(q.crs)
      /\ queuesPast \in Past
  BY Here
<1> HIDE DEF q
<1>2. r.crs = q.crs /\ r.name = q.name
  BY DEF q
<1>3. Sound(r)
  BY <1>1, <1>2 DEF Sound
<1>4. Len(r.crs) <= Len(queues[i].crs)
  <2>1. Len(q.crs) \in Nat
    BY <1>1, QueueFields
  <2>2. QED
    BY <1>2, <2>1 DEF q
<1>5. ASSUME ~queuesPast.moved PROVE Shown(r, g)
  BY <1>1, <1>2, <1>5 DEF Shown
<1>6. SectionsFit =>
        /\ Proper(r)
        /\ ~queuesPast.removed => Apart(r.crs)
  BY <1>1, <1>2 DEF Proper
<1>7. DOMAIN g.crs = DOMAIN r.crs
  BY <1>1, <1>2
<1>8. QueueEdit(i, r, g)
  BY <1>1, <1>3, <1>4, <1>5, <1>6, <1>7 DEF QueueEdit
<1>9. QED
  BY <1>8, EditKeeps

\* t is s with its j-th element replaced by c.
Swapped(s, t, j, c) == t = [s EXCEPT ![j] = c]

\* One compute resource is changed, and its form.
LEMMA ResourceKeeps ==
  ASSUME QInv, NEW i, NEW j, HasCr(i, j), NEW r \in Queue, Change(i, r),
         NEW c \in ComputeResource, Swapped(queues[i].crs, r.crs, j, c),
         r.name = queues[i].name, r.script = queues[i].script, r.ami = queues[i].ami,
         NEW f \in CrFields, NEW g \in Form,
         g.script = forms[i].script, Swapped(forms[i].crs, g.crs, j, f),
         Swapped(forms, forms', i, g),
         ~Multi => (\E t \in InstanceTypes : c.types = {t}) /\ c.target = NoTarget,
         ~queuesPast.moved => ShownCr(c, f),
         ProperCr(Cr(i, j)) => ProperCr(c),
         \/ c.suffix = Cr(i, j).suffix /\ (Multi \/ c.types = Cr(i, j).types)
         \/ ~Multi /\ c.suffix \in InstanceTypes /\ c.types = {c.suffix},
         UNCHANGED <<flags, listed, known, onPage, idleError, amiEnabled, queueErrors, queuesPast>>
  PROVE  QInv'
<1> DEFINE q == queues[i]
<1>1. /\ onPage /\ i \in DOMAIN queues /\ j \in DOMAIN q.crs /\ Cr(i, j) = q.crs[j]
  BY DEF HasCr, Cr
<1>2. /\ q \in Queue /\ Sound(q) /\ forms[i] \in Form
      /\ DOMAIN forms[i].crs = DOMAIN q.crs
      /\ ~queuesPast.moved => Shown(q, forms[i])
      /\ SectionsFit =>
           /\ Proper(q)
           /\ ~queuesPast.removed => Apart(q.crs)
      /\ queuesPast \in Past /\ amiEnabled \subseteq QueuePositions
      /\ queueErrors \in [QueuePositions -> SUBSET (FieldErrors \cup AllTypeErrors)]
      /\ q.ami /\ ~queuesPast.amisMoved => i \in amiEnabled
  BY <1>1, Here
<1>3. r.name = q.name /\ r.script = q.script /\ r.ami = q.ami
  OBVIOUS
<1>4. /\ q.crs \in Seq(ComputeResource) /\ DOMAIN q.crs = 1..Len(q.crs) /\ Len(q.crs) \in Nat
  BY <1>2, QueueFields
<1> HIDE DEF q
<1>5. r.crs = [q.crs EXCEPT ![j] = c]
  BY DEF q, Swapped
<1>6. /\ Len(r.crs) = Len(q.crs) /\ DOMAIN r.crs = DOMAIN q.crs
      /\ \A k \in DOMAIN q.crs : r.crs[k] = IF k = j THEN c ELSE q.crs[k]
  <2>1. Len(r.crs) = Len(q.crs)
    BY <1>1, <1>4, <1>5, ExceptSeq
  <2>2. QED
    BY <1>1, <1>4, <1>5, <2>1
<1>7. Sound(r)
  BY <1>1, <1>2, <1>6 DEF Sound
<1>8. \A k \in DOMAIN q.crs : g.crs[k] = IF k = j THEN f ELSE forms[i].crs[k]
  BY <1>2 DEF Swapped
<1>9. DOMAIN g.crs = DOMAIN r.crs /\ forms' = [forms EXCEPT ![i] = g]
  BY <1>2, <1>6 DEF Swapped
<1>10. ASSUME ~queuesPast.moved PROVE Shown(r, g)
  BY <1>1, <1>2, <1>3, <1>6, <1>8, <1>10 DEF Shown
<1>11. SectionsFit => Proper(r)
  BY <1>1, <1>2, <1>6 DEF Proper
<1>12. ASSUME Apart(q.crs) PROVE Apart(r.crs)
  <2>1. CASE Multi
    BY <1>1, <1>6, <1>12, <2>1 DEF Apart
  <2>2. CASE ~Multi
    BY <1>1, <1>6, <1>12, <2>2 DEF Apart
  <2>3. QED
    BY <2>1, <2>2
<1>13. Len(r.crs) <= Len(queues[i].crs)
  BY <1>4, <1>6 DEF q
<1>14. \A h \in {"moved", "removed", "renamed", "amisMoved"} : queuesPast[h] => queuesPast'[h]
  OBVIOUS
<1>15. QueueEdit(i, r, g)
  BY <1>1, <1>2, <1>3, <1>7, <1>9, <1>10, <1>11, <1>12, <1>13, <1>14 DEF QueueEdit
<1>16. QED
  BY <1>15, EditKeeps
-----------------------------------------------------------------------------
(* The controls of a queue.                                                *)

\* Validate writes errors of the fields there are.
LEMMA ErrorsTyped ==
  ASSUME QInv, WithinLimits(queues'), NEW P \in SUBSET DOMAIN queues', Validate(P)
  PROVE  queueErrors' \in [QueuePositions -> SUBSET (FieldErrors \cup AllTypeErrors)]
<1>1. queueErrors \in [QueuePositions -> SUBSET (FieldErrors \cup AllTypeErrors)]
  BY DEF QInv, QueueKinds
<1>2. MaxPerQueue \in Nat
  BY QueuesAssumption DEF QueuesAssumption
<1>3. ASSUME NEW i \in QueuePositions, i \in P, i \in DOMAIN queues'
      PROVE  TypeErrors(i) \subseteq AllTypeErrors
  <2>1. queues' \in Seq(Queue) /\ Len(queues'[i].crs) \in CrPositions
    BY <1>3 DEF WithinLimits
  <2>2. queues'[i] \in Queue
    BY <1>3, <2>1, LenProperties
  <2>3. DOMAIN queues'[i].crs \subseteq CrPositions
    BY <1>2, <2>1, <2>2, QueueFields DEF CrPositions
  <2>4. Incompletes(queues'[i]) \subseteq CrPositions
    BY <2>3 DEF Incompletes
  <2>5. QED
    BY <2>4 DEF TypeErrors, AllTypeErrors
<1>4. \A i : InvalidAt(i) \subseteq FieldErrors
  BY DEF InvalidAt
<1>5. QED
  BY <1>1, <1>3, <1>4 DEF Validate

\* A queue whose compute resources stay is no further from the limits.
LEMMA ChangeWithin ==
  ASSUME QInv, NEW i \in DOMAIN queues, NEW r, Sound(r), Change(i, r),
         r.crs = queues[i].crs
  PROVE  WithinLimits(queues') /\ DOMAIN queues' = DOMAIN queues
<1> DEFINE q == Settled(r)
<1>1. /\ q \in Queue /\ Len(q.crs) \in CrPositions /\ Len(q.crs) = Len(r.crs)
  BY SettledKeeps DEF Sound
<1>2. queues' = [queues EXCEPT ![i] = q] /\ WithinLimits(queues)
  BY DEF Change, Hold, QInv, Draft
<1>3. Len(q.crs) \in Nat
  BY <1>1, QueueFields
<1> HIDE DEF q
<1>4. Len(q.crs) <= Len(queues[i].crs)
  BY <1>1, <1>3
<1>5. QED
  BY <1>1, <1>2, <1>4, ReplacedWithin

\* The capacity type and the strategy; the subnets and the placement group; the
\* script; the custom AMI.
LEMMA CapacityKeeps ==
  ASSUME QInv, NEW i, NEW block \in BOOLEAN, SelectCapacity(i, block) \/ SelectStrategy(i)
  PROVE  QInv'
<1> DEFINE q == queues[i]
<1>1. /\ onPage /\ i \in DOMAIN queues
      /\ UNCHANGED <<flags, listed, known, onPage, amiEnabled, forms, idleError, queueErrors, queuesPast>>
  BY DEF SelectCapacity, SelectStrategy
<1>2. PICK r : Change(i, r) /\ (r = [q EXCEPT !.block = block] \/ r = [q EXCEPT !.strategy = TRUE])
  BY DEF SelectCapacity, SelectStrategy
<1>3. /\ q \in Queue /\ forms[i] \in Form
      /\ forms = [forms EXCEPT ![i] = forms[i]]
      /\ ~queuesPast.moved => Shown(q, forms[i])
      /\ q.ami /\ ~queuesPast.amisMoved => i \in amiEnabled
      /\ amiEnabled \subseteq QueuePositions
      /\ queueErrors \in [QueuePositions -> SUBSET (FieldErrors \cup AllTypeErrors)]
  BY <1>1, Here
<1> HIDE DEF q
<1>4. /\ r \in Queue /\ r.crs = q.crs /\ r.name = q.name /\ r.script = q.script
      /\ r.ami = q.ami
  BY <1>2, <1>3 DEF Queue
<1>5. ~queuesPast.moved /\ r.script => forms[i].script
  BY <1>3, <1>4 DEF Shown
<1>6. r.crs = queues[i].crs /\ r.name = queues[i].name
  BY <1>4 DEF q
<1>7. QED
  BY <1>1, <1>2, <1>3, <1>4, <1>5, <1>6, FlatKeeps

LEMMA NetworkKeeps ==
  ASSUME QInv, NEW i,
         (\E S \in SUBSET Subnets : SelectSubnets(i, S)) \/ TogglePlacementGroup(i)
  PROVE  QInv'
<1> DEFINE q == queues[i]
<1>1. /\ onPage /\ i \in DOMAIN queues
      /\ UNCHANGED <<flags, listed, known, onPage, amiEnabled, forms, idleError, queuesPast>>
      /\ Validate({i}) \/ UNCHANGED queueErrors
  BY DEF SelectSubnets, TogglePlacementGroup
<1>2. /\ q \in Queue /\ forms[i] \in Form /\ Sound(q)
      /\ forms = [forms EXCEPT ![i] = forms[i]]
      /\ ~queuesPast.moved => Shown(q, forms[i])
      /\ q.ami /\ ~queuesPast.amisMoved => i \in amiEnabled
      /\ amiEnabled \subseteq QueuePositions
      /\ queueErrors \in [QueuePositions -> SUBSET (FieldErrors \cup AllTypeErrors)]
  BY <1>1, Here
<1>3. PICK r : Change(i, r) /\ \/ \E S \in SUBSET Subnets : r = [q EXCEPT !.subnets = S]
                               \/ r = [q EXCEPT !.group = ~q.group]
  BY DEF SelectSubnets, TogglePlacementGroup
<1> HIDE DEF q
<1>4. /\ r \in Queue /\ r.crs = q.crs /\ r.name = q.name /\ r.script = q.script
      /\ r.ami = q.ami
  <2>1. CASE r = [q EXCEPT !.group = ~q.group]
    <3> DEFINE b == ~q.group
    <3>1. r = [q EXCEPT !.group = b] /\ b \in BOOLEAN
      BY <2>1
    <3> HIDE DEF b
    <3>2. QED
      BY <1>2, <3>1 DEF Queue
  <2>2. ASSUME NEW S \in SUBSET Subnets, r = [q EXCEPT !.subnets = S]
        PROVE  /\ r \in Queue /\ r.crs = q.crs /\ r.name = q.name /\ r.script = q.script
               /\ r.ami = q.ami
    BY <1>2, <2>2 DEF Queue
  <2>3. QED
    BY <1>3, <2>1, <2>2
<1>5. ~queuesPast.moved /\ r.script => forms[i].script
  BY <1>2, <1>4 DEF Shown
<1>6. r.crs = queues[i].crs /\ r.name = queues[i].name
  BY <1>4 DEF q
<1>7. queueErrors' \in [QueuePositions -> SUBSET (FieldErrors \cup AllTypeErrors)]
  <2>1. Sound(r)
    BY <1>2, <1>4 DEF Sound
  <2>2. WithinLimits(queues') /\ DOMAIN queues' = DOMAIN queues
    BY <1>1, <1>3, <1>6, <2>1, ChangeWithin
  <2>3. QED
    BY <1>1, <1>2, <2>2, ErrorsTyped
<1>8. QED
  BY <1>1, <1>2, <1>3, <1>4, <1>5, <1>6, <1>7, FlatKeeps

LEMMA ScriptKeeps ==
  ASSUME QInv, NEW i,
         \/ ToggleScript(i)
         \/ \E given, args \in BOOLEAN : EditScript(i, given, args)
  PROVE  QInv'
<1> DEFINE q == queues[i]
<1>1. /\ onPage /\ i \in DOMAIN queues
      /\ UNCHANGED <<flags, listed, known, onPage, amiEnabled, idleError, queueErrors, queuesPast>>
  BY DEF ToggleScript, EditScript
<1>2. /\ q \in Queue /\ forms[i] \in Form /\ i \in DOMAIN forms
      /\ forms = [forms EXCEPT ![i] = forms[i]]
      /\ q.ami /\ ~queuesPast.amisMoved => i \in amiEnabled
      /\ amiEnabled \subseteq QueuePositions
      /\ queueErrors \in [QueuePositions -> SUBSET (FieldErrors \cup AllTypeErrors)]
  BY <1>1, Here
<1>3. CASE ToggleScript(i)
  <2> DEFINE r == Scriptless(q)
             s == ~forms[i].script
             g == [forms[i] EXCEPT !.script = s]
  <2>1. Change(i, r) /\ forms' = [forms EXCEPT ![i].script = ~@]
    BY <1>3 DEF ToggleScript
  <2>2. /\ r \in Queue /\ r.crs = q.crs /\ r.name = q.name /\ r.script = FALSE
        /\ r.ami = q.ami
    BY <1>2 DEF Queue, Scriptless
  <2>3. forms' = [forms EXCEPT ![i] = g]
    BY <2>1
  <2>4. g \in Form /\ g.crs = forms[i].crs
    <3>1. s \in BOOLEAN
      OBVIOUS
    <3> HIDE DEF s
    <3>2. QED
      BY <1>2, <3>1 DEF Form
  <2> HIDE DEF r, g
  <2>5. r.crs = queues[i].crs /\ r.name = queues[i].name
    BY <2>2 DEF q
  <2>6. QED
    BY <1>1, <1>2, <2>1, <2>2, <2>3, <2>4, <2>5, FlatKeeps
<1>4. ASSUME NEW given \in BOOLEAN, NEW args \in BOOLEAN, EditScript(i, given, args)
      PROVE  QInv'
  <2> DEFINE r == [q EXCEPT !.script = given, !.args = args]
  <2>1. Change(i, r) /\ UNCHANGED forms /\ forms[i].script
    BY <1>4 DEF EditScript
  <2>2. /\ r \in Queue /\ r.crs = q.crs /\ r.name = q.name /\ r.ami = q.ami
    BY <1>2 DEF Queue
  <2> HIDE DEF r
  <2>3. r.crs = queues[i].crs /\ r.name = queues[i].name
    BY <2>2 DEF q
  <2>4. QED
    BY <1>1, <1>2, <2>1, <2>2, <2>3, FlatKeeps
<1>5. QED
  BY <1>3, <1>4

LEMMA AmiKeeps ==
  ASSUME QInv, NEW i, ToggleAmi(i) \/ \E given \in BOOLEAN : EditAmi(i, given)
  PROVE  QInv'
<1> DEFINE q == queues[i]
<1>1. /\ onPage /\ i \in DOMAIN queues
      /\ UNCHANGED <<flags, listed, known, onPage, forms, idleError, queueErrors, queuesPast>>
  BY DEF ToggleAmi, EditAmi
<1>2. /\ q \in Queue /\ forms[i] \in Form /\ i \in QueuePositions
      /\ forms = [forms EXCEPT ![i] = forms[i]]
      /\ ~queuesPast.moved => Shown(q, forms[i])
      /\ amiEnabled \subseteq QueuePositions
      /\ queueErrors \in [QueuePositions -> SUBSET (FieldErrors \cup AllTypeErrors)]
  BY <1>1, Here
<1>3. PICK a \in BOOLEAN : /\ Change(i, [q EXCEPT !.ami = a]) /\ (a => i \in amiEnabled')
                           /\ amiEnabled \ {i} \subseteq amiEnabled'
                           /\ amiEnabled' \subseteq QueuePositions
  <2>1. CASE ToggleAmi(i)
    <3>1. q.ami \in BOOLEAN
      BY <1>2, QueueFields
    <3>2. AmiOf(i) \in BOOLEAN /\ (AmiOf(i) => i \in amiEnabled')
      BY <2>1, <3>1 DEF ToggleAmi, AmiOf
    <3>3. QED
      BY <1>2, <2>1, <3>2 DEF ToggleAmi
  <2>2. ASSUME NEW given \in BOOLEAN, EditAmi(i, given)
        PROVE  /\ Change(i, [q EXCEPT !.ami = given]) /\ i \in amiEnabled'
               /\ amiEnabled' = amiEnabled
    BY <2>2 DEF EditAmi
  <2>3. QED
    BY <1>2, <2>1, <2>2
<1> DEFINE r == [q EXCEPT !.ami = a]
<1>4. /\ r \in Queue /\ r.crs = q.crs /\ r.name = q.name /\ r.script = q.script
      /\ r.ami = a
  BY <1>2 DEF Queue
<1>5. Change(i, r)
  BY <1>3
<1> HIDE DEF r
<1>6. r.crs = queues[i].crs /\ r.name = queues[i].name
  BY <1>4 DEF q
<1>7. ~queuesPast.moved /\ r.script => forms[i].script
  BY <1>2, <1>4 DEF Shown
<1>8. QED
  BY <1>1, <1>2, <1>3, <1>4, <1>5, <1>6, <1>7, FlatKeeps
-----------------------------------------------------------------------------
(* The controls of a compute resource.                                     *)

\* What the invariant says of the form of a compute resource, and of itself.
LEMMA ThisForm ==
  ASSUME QInv, NEW i, NEW j, HasCr(i, j)
  PROVE  /\ onPage /\ i \in DOMAIN queues /\ j \in DOMAIN queues[i].crs
         /\ queues[i] \in Queue
         /\ forms[i] \in Form /\ forms = [forms EXCEPT ![i] = forms[i]]
         /\ i \in DOMAIN forms /\ j \in DOMAIN forms[i].crs
         /\ forms[i].crs \in Seq(CrFields) /\ j \in 1..Len(forms[i].crs)
         /\ forms[i].crs[j] \in CrFields
         /\ forms[i].crs = [forms[i].crs EXCEPT ![j] = forms[i].crs[j]]
<1>1. onPage /\ i \in DOMAIN queues /\ j \in DOMAIN queues[i].crs
  BY DEF HasCr
<1>2. /\ queues[i] \in Queue /\ forms[i] \in Form
      /\ DOMAIN forms[i].crs = DOMAIN queues[i].crs
      /\ forms = [forms EXCEPT ![i] = forms[i]] /\ i \in DOMAIN forms
  BY <1>1, Here
<1>3. forms[i].crs \in Seq(CrFields)
  BY <1>2 DEF Form
<1>4. /\ DOMAIN forms[i].crs = 1..Len(forms[i].crs)
      /\ \A k \in DOMAIN forms[i].crs : forms[i].crs[k] \in CrFields
  BY <1>3, LenProperties
<1>5. forms[i].crs = [forms[i].crs EXCEPT ![j] = forms[i].crs[j]]
  BY <1>3
<1>6. QED
  BY <1>1, <1>2, <1>3, <1>4, <1>5

LEMMA ThisResource ==
  ASSUME QInv, NEW i, NEW j, HasCr(i, j)
  PROVE  /\ Cr(i, j) = queues[i].crs[j] /\ Cr(i, j) \in ComputeResource
         /\ ~Multi => (\E t \in InstanceTypes : Cr(i, j).types = {t})
         /\ ~Multi => Cr(i, j).target = NoTarget
         /\ ~queuesPast.moved => ShownCr(Cr(i, j), forms[i].crs[j])
<1>1. /\ onPage /\ i \in DOMAIN queues /\ j \in DOMAIN queues[i].crs
      /\ Cr(i, j) = queues[i].crs[j]
  BY DEF HasCr, Cr
<1>2. /\ queues[i] \in Queue /\ Sound(queues[i])
      /\ ~queuesPast.moved => Shown(queues[i], forms[i])
  BY <1>1, Here
<1>3. Cr(i, j) \in ComputeResource
  BY <1>1, <1>2, QueueFields
<1>4. QED
  BY <1>1, <1>2, <1>3 DEF Sound, Shown

\* EFA writes to the compute resource and to the whole queue.
LEMMA WithEfaFields ==
  ASSUME NEW q \in Queue, NEW j \in DOMAIN q.crs, NEW on \in BOOLEAN
  PROVE  LET r == WithEfa(q, j, on) IN
         /\ r \in Queue
         /\ r.crs = [q.crs EXCEPT ![j] = [q.crs[j] EXCEPT !.efa = on]]
         /\ [q.crs[j] EXCEPT !.efa = on] \in ComputeResource
         /\ r.name = q.name /\ r.script = q.script /\ r.ami = q.ami
<1> DEFINE c == [q.crs[j] EXCEPT !.efa = on]
           crs == [q.crs EXCEPT ![j] = c]
           r == WithEfa(q, j, on)
<1>1. q.crs[j] \in ComputeResource /\ q.crs \in Seq(ComputeResource)
  BY QueueFields
<1>2. c \in ComputeResource
  BY <1>1 DEF ComputeResource
<1>3. j \in 1..Len(q.crs)
  BY QueueFields
<1>4. r = [q EXCEPT !.crs = crs, !.group = on]
  BY DEF WithEfa, Queue
<1> HIDE DEF c
<1>5. crs \in Seq(ComputeResource)
  BY <1>1, <1>2, <1>3, ExceptSeq
<1> HIDE DEF crs, r
<1>6. /\ r \in Queue /\ r.crs = crs
      /\ r.name = q.name /\ r.script = q.script /\ r.ami = q.ami
  BY <1>4, <1>5 DEF Queue
<1>7. QED
  BY <1>2, <1>6 DEF c, crs, r

\* A queue with one of its compute resources replaced.
LEMMA WithResource ==
  ASSUME NEW q \in Queue, NEW j \in DOMAIN q.crs, NEW c \in ComputeResource
  PROVE  LET r == [q EXCEPT !.crs[j] = c] IN
         /\ r \in Queue /\ r.crs = [q.crs EXCEPT ![j] = c]
         /\ r.crs[j] = c /\ j \in DOMAIN r.crs
         /\ r.name = q.name /\ r.script = q.script /\ r.ami = q.ami
<1> DEFINE crs == [q.crs EXCEPT ![j] = c]
           r == [q EXCEPT !.crs[j] = c]
<1>1. q.crs \in Seq(ComputeResource) /\ j \in 1..Len(q.crs)
  BY QueueFields
<1>2. r = [q EXCEPT !.crs = crs]
  BY DEF Queue
<1>3. crs \in Seq(ComputeResource) /\ crs[j] = c /\ j \in DOMAIN crs
  BY <1>1, ExceptSeq
<1>4. crs = [q.crs EXCEPT ![j] = c]
  OBVIOUS
<1> HIDE DEF crs, r
<1>5. /\ r \in Queue /\ r.crs = crs
      /\ r.name = q.name /\ r.script = q.script /\ r.ami = q.ami
  BY <1>2, <1>3 DEF Queue
<1>6. QED
  BY <1>3, <1>4, <1>5 DEF r

\* The forms stay as they are.
LEMMA QuietKeeps ==
  ASSUME QInv, NEW i, NEW j, HasCr(i, j), NEW r \in Queue, Change(i, r),
         NEW c \in ComputeResource, Swapped(queues[i].crs, r.crs, j, c),
         r.name = queues[i].name, r.script = queues[i].script, r.ami = queues[i].ami,
         ~Multi => c.types = Cr(i, j).types,
         c.suffix = Cr(i, j).suffix, c.target = Cr(i, j).target,
         ~queuesPast.moved => ShownCr(c, forms[i].crs[j]),
         ProperCr(Cr(i, j)) => ProperCr(c),
         UNCHANGED <<flags, listed, known, onPage, amiEnabled, forms, idleError, queueErrors, queuesPast>>
  PROVE  QInv'
<1> DEFINE f == forms[i].crs[j]
           g == forms[i]
<1>1. /\ forms[i] \in Form /\ forms = [forms EXCEPT ![i] = forms[i]]
      /\ forms[i].crs[j] \in CrFields
      /\ forms[i].crs = [forms[i].crs EXCEPT ![j] = forms[i].crs[j]]
  BY ThisForm
<1>2. ~Multi => (\E t \in InstanceTypes : c.types = {t}) /\ c.target = NoTarget
  BY ThisResource
<1>3. /\ f \in CrFields /\ g \in Form /\ g.script = forms[i].script
      /\ Swapped(forms[i].crs, g.crs, j, f) /\ Swapped(forms, forms', i, g)
      /\ ~queuesPast.moved => ShownCr(c, f)
  BY <1>1 DEF Swapped
<1> HIDE DEF f, g
<1>4. QED
  BY <1>2, <1>3, ResourceKeeps

\* Neither its types nor its name nor its reservation change.
LEMMA ChangeCrKeeps ==
  ASSUME QInv, NEW i, NEW j, HasCr(i, j), NEW c \in ComputeResource, ChangeCr(i, j, c),
         c.types = Cr(i, j).types, c.suffix = Cr(i, j).suffix, c.target = Cr(i, j).target,
         ProperCr(Cr(i, j)) => ProperCr(c),
         UNCHANGED <<flags, listed, known, onPage, amiEnabled, forms, idleError, queueErrors, queuesPast>>
  PROVE  QInv'
<1> DEFINE r == [queues[i] EXCEPT !.crs[j] = c]
<1>1. queues[i] \in Queue /\ j \in DOMAIN queues[i].crs
  BY ThisForm
<1>2. /\ r \in Queue /\ Swapped(queues[i].crs, r.crs, j, c)
      /\ r.name = queues[i].name /\ r.script = queues[i].script /\ r.ami = queues[i].ami
  BY <1>1, WithResource DEF Swapped
<1>3. Change(i, r)
  BY DEF ChangeCr
<1>4. ~queuesPast.moved => ShownCr(c, forms[i].crs[j])
  <2>1. ~queuesPast.moved => ShownCr(Cr(i, j), forms[i].crs[j])
    BY ThisResource
  <2>2. QED
    BY <2>1 DEF ShownCr, ShowsType
<1> HIDE DEF r
<1>5. QED
  BY <1>2, <1>3, <1>4, QuietKeeps

\* Multithreading is switched.
LEMMA MultithreadingKeeps ==
  ASSUME QInv, NEW i, NEW j, ToggleMultithreading(i, j)
  PROVE  QInv'
<1> DEFINE cr == Cr(i, j)
           b == ~cr.noHT
           c == [cr EXCEPT !.noHT = b]
<1>1. /\ HasCr(i, j) /\ ChangeCr(i, j, c)
      /\ UNCHANGED <<flags, listed, known, onPage, amiEnabled, forms, idleError, queueErrors, queuesPast>>
  BY DEF ToggleMultithreading
<1>2. cr \in ComputeResource /\ b \in BOOLEAN
  BY <1>1, ThisResource
<1> HIDE DEF b
<1>3. /\ c \in ComputeResource /\ c.types = cr.types /\ c.suffix = cr.suffix
      /\ c.target = cr.target /\ c.efa = cr.efa /\ c.nodes = cr.nodes
  BY <1>2 DEF ComputeResource
<1>4. ProperCr(cr) => ProperCr(c)
  BY <1>3 DEF ProperCr
<1> HIDE DEF c
<1>5. QED
  BY <1>1, <1>3, <1>4, ChangeCrKeeps

\* The number of nodes: a MinCount that was cleared counts as none.
LEMMA NodesTyped ==
  ASSUME NEW n \in Nodes
  PROVE  /\ n.min \in Int \cup {Nil} /\ n.max \in Int /\ n.given \in Int /\ n.lost \in BOOLEAN
         /\ OrZero(n.min) \in Int
  BY DEF Nodes, OrZero

\* The dynamic nodes are those typed last, or were lost.
LEMMA CountsKeep ==
  ASSUME QInv, NEW i, NEW j, NEW n \in Counts, SetMinCount(i, j, n) \/ SetMaxCount(i, j, n)
  PROVE  QInv'
<1> DEFINE cr == Cr(i, j)
           old == cr.nodes
<1>1. /\ HasCr(i, j) /\ cr \in ComputeResource /\ old \in Nodes /\ n \in Int
      /\ UNCHANGED <<flags, listed, known, onPage, amiEnabled, forms, idleError, queueErrors, queuesPast>>
  <2>1. HasCr(i, j)
    BY DEF SetMinCount, SetMaxCount
  <2>2. cr \in ComputeResource
    BY <2>1, ThisResource
  <2>3. n \in Int
    BY QueuesAssumption DEF QueuesAssumption
  <2>4. QED
    BY <2>1, <2>2, <2>3, ResourceFields DEF SetMinCount, SetMaxCount
<1>2. Nil \notin Int
  BY QueuesAssumption DEF QueuesAssumption
<1>3. /\ old.min \in Int \cup {Nil} /\ old.max \in Int /\ old.given \in Int
      /\ old.lost \in BOOLEAN
  BY <1>1, NodesTyped
<1>4. PICK new \in Nodes :
        /\ ChangeCr(i, j, [cr EXCEPT !.nodes = new])
        /\ Dynamic(old) = old.given \/ old.lost => Dynamic(new) = new.given \/ new.lost
  <2>1. CASE SetMinCount(i, j, n)
    <3> DEFINE lo == IF n > 0 THEN n ELSE Nil
               hi == n + Dynamic(old)
               gone == old.lost \/ n < 0
               new == [old EXCEPT !.min = lo, !.max = hi, !.lost = gone]
    <3>1. ChangeCr(i, j, [cr EXCEPT !.nodes = new])
      BY <2>1 DEF SetMinCount
    <3>2. lo \in Int \cup {Nil} /\ hi \in Int /\ gone \in BOOLEAN
      BY <1>1, <1>3, NodesTyped DEF Dynamic
    <3>3. (~gone => OrZero(lo) = n) /\ hi = n + (old.max - OrZero(old.min))
      BY <1>1, <1>2, <1>3 DEF Dynamic, OrZero
    <3>4. old.lost => gone
      OBVIOUS
    <3> HIDE DEF lo, hi, gone
    <3>5. /\ new \in Nodes /\ new.min = lo /\ new.max = hi /\ new.given = old.given
          /\ new.lost = gone
      BY <1>1, <3>2 DEF Nodes
    <3> HIDE DEF new
    <3>6. ASSUME ~gone, Dynamic(old) = old.given PROVE Dynamic(new) = new.given
      <4>1. OrZero(old.min) \in Int
        BY <1>1, NodesTyped
      <4>2. Dynamic(old) = old.max - OrZero(old.min)
        BY DEF Dynamic
      <4>3. Dynamic(new) = hi - n
        BY <3>3, <3>5, <3>6 DEF Dynamic
      <4>4. QED
        BY <1>1, <1>3, <3>3, <3>5, <3>6, <4>1, <4>2, <4>3
    <3>7. QED
      BY <3>1, <3>4, <3>5, <3>6
  <2>2. CASE SetMaxCount(i, j, n)
    <3> DEFINE hi == OrZero(old.min) + n
               new == [old EXCEPT !.max = hi, !.given = n, !.lost = FALSE]
    <3>1. ChangeCr(i, j, [cr EXCEPT !.nodes = new])
      BY <2>2 DEF SetMaxCount
    <3>2. OrZero(old.min) \in Int
      BY <1>1, NodesTyped
    <3>3. hi \in Int /\ hi - OrZero(old.min) = n
      BY <1>1, <3>2
    <3> HIDE DEF hi
    <3>4. /\ new \in Nodes /\ new.min = old.min /\ new.max = hi /\ new.given = n
      BY <1>1, <3>3 DEF Nodes
    <3> HIDE DEF new
    <3>5. Dynamic(new) = new.given
      BY <3>3, <3>4 DEF Dynamic
    <3>6. QED
      BY <3>1, <3>4, <3>5
  <2>3. QED
    BY <2>1, <2>2
<1> DEFINE c == [cr EXCEPT !.nodes = new]
<1>5. /\ c \in ComputeResource /\ c.types = cr.types /\ c.suffix = cr.suffix
      /\ c.target = cr.target /\ c.efa = cr.efa /\ c.nodes = new
  BY <1>1 DEF ComputeResource
<1>6. ChangeCr(i, j, c)
  BY <1>4
<1>7. ProperCr(cr) => ProperCr(c)
  BY <1>4, <1>5 DEF ProperCr
<1> HIDE DEF c
<1>8. QED
  BY <1>1, <1>5, <1>6, <1>7, ChangeCrKeeps

\* EFA is switched.
LEMMA EfaKeeps ==
  ASSUME QInv, NEW i, NEW j, ToggleEfa(i, j)
  PROVE  QInv'
<1> DEFINE cr == Cr(i, j)
           b == ~cr.efa
           c == [queues[i].crs[j] EXCEPT !.efa = b]
           r == WithEfa(queues[i], j, b)
<1>1. /\ HasCr(i, j) /\ SupportEfa(cr.types) /\ Change(i, r)
      /\ UNCHANGED <<flags, listed, known, onPage, amiEnabled, forms, idleError, queueErrors, queuesPast>>
  BY DEF ToggleEfa
<1>2. /\ queues[i] \in Queue /\ j \in DOMAIN queues[i].crs
      /\ cr = queues[i].crs[j] /\ cr \in ComputeResource
      /\ ~queuesPast.moved => ShownCr(cr, forms[i].crs[j])
  <2>1. queues[i] \in Queue /\ j \in DOMAIN queues[i].crs
    BY <1>1, ThisForm
  <2> HIDE DEF cr
  <2>2. /\ cr = queues[i].crs[j] /\ cr \in ComputeResource
        /\ ~queuesPast.moved => ShownCr(cr, forms[i].crs[j])
    BY <1>1, ThisResource DEF cr
  <2>3. QED
    BY <2>1, <2>2
<1>3. b \in BOOLEAN
  OBVIOUS
<1> HIDE DEF b, cr
<1>4. /\ r \in Queue /\ Swapped(queues[i].crs, r.crs, j, c) /\ c \in ComputeResource
      /\ r.name = queues[i].name /\ r.script = queues[i].script /\ r.ami = queues[i].ami
  BY <1>2, <1>3, WithEfaFields DEF Swapped
<1>5. /\ c.types = cr.types /\ c.suffix = cr.suffix /\ c.target = cr.target
      /\ c.nodes = cr.nodes
  BY <1>2 DEF ComputeResource
<1> HIDE DEF c, r
<1>6. ProperCr(cr) => ProperCr(c)
  BY <1>1, <1>5 DEF ProperCr
<1>7. ~queuesPast.moved => ShownCr(c, forms[i].crs[j])
  BY <1>2, <1>5 DEF ShownCr, ShowsType
<1>8. QED
  BY <1>1, <1>4, <1>5, <1>6, <1>7, QuietKeeps DEF cr

\* setInstances: the queue with other types, and without EFA if they lack it.
LEMMA TypedFields ==
  ASSUME NEW q \in Queue, NEW j \in DOMAIN q.crs, NEW types \in SUBSET InstanceTypes
  PROVE  \E c \in ComputeResource :
           LET r == Typed(q, j, types) IN
           /\ r \in Queue /\ Swapped(q.crs, r.crs, j, c)
           /\ r.name = q.name /\ r.script = q.script /\ r.ami = q.ami
           /\ c.types = types /\ c.suffix = q.crs[j].suffix
           /\ c.target = q.crs[j].target /\ c.nodes = q.crs[j].nodes
           /\ c.efa => SupportEfa(types)
<1> DEFINE d == [q.crs[j] EXCEPT !.types = types]
           t == [q EXCEPT !.crs[j] = d]
           e == [t.crs[j] EXCEPT !.efa = FALSE]
           r == Typed(q, j, types)
<1>1. q.crs[j] \in ComputeResource
  BY QueueFields
<1>2. /\ d \in ComputeResource /\ d.types = types /\ d.suffix = q.crs[j].suffix
      /\ d.target = q.crs[j].target /\ d.nodes = q.crs[j].nodes
  BY <1>1 DEF ComputeResource
<1>3. r = IF SupportEfa(types) THEN t ELSE WithEfa(t, j, FALSE)
  BY DEF Typed
<1> HIDE DEF d, r
<1>4. /\ t \in Queue /\ t.crs = [q.crs EXCEPT ![j] = d]
      /\ t.crs[j] = d /\ j \in DOMAIN t.crs
      /\ t.name = q.name /\ t.script = q.script /\ t.ami = q.ami
  BY <1>2, WithResource
<1> HIDE DEF t
<1>5. CASE SupportEfa(types)
  BY <1>2, <1>3, <1>4, <1>5 DEF Swapped, r
<1>6. CASE ~SupportEfa(types)
  <2>1. /\ r \in Queue /\ r.crs = [t.crs EXCEPT ![j] = e] /\ e \in ComputeResource
        /\ r.name = t.name /\ r.script = t.script /\ r.ami = t.ami
    BY <1>3, <1>4, <1>6, WithEfaFields
  <2>2. /\ e.types = d.types /\ e.suffix = d.suffix /\ e.target = d.target
        /\ e.nodes = d.nodes /\ e.efa = FALSE
    BY <1>2, <1>4 DEF ComputeResource
  <2> HIDE DEF e
  <2>3. [t.crs EXCEPT ![j] = e] = [q.crs EXCEPT ![j] = e]
    BY <1>4
  <2>4. Swapped(q.crs, r.crs, j, e)
    BY <2>1, <2>3 DEF Swapped
  <2>5. QED
    BY <1>2, <1>4, <2>1, <2>2, <2>4 DEF r
<1>7. QED
  BY <1>5, <1>6

\* Several instance types are chosen.
LEMMA InstancesKeep ==
  ASSUME QInv, NEW i, NEW j, NEW types \in SUBSET InstanceTypes, SelectInstances(i, j, types)
  PROVE  QInv'
<1> DEFINE cr == Cr(i, j)
           r == Typed(queues[i], j, types)
           f == forms[i].crs[j]
<1>1. /\ HasCr(i, j) /\ Multi /\ f.option # ById /\ Change(i, r)
      /\ UNCHANGED <<flags, listed, known, onPage, amiEnabled, forms, idleError, queueErrors, queuesPast>>
  BY DEF SelectInstances
<1>2. /\ queues[i] \in Queue /\ j \in DOMAIN queues[i].crs
      /\ cr = queues[i].crs[j]
      /\ ~queuesPast.moved => ShownCr(cr, f)
  BY <1>1, ThisForm, ThisResource
<1>3. PICK c \in ComputeResource :
        /\ r \in Queue /\ Swapped(queues[i].crs, r.crs, j, c)
        /\ r.name = queues[i].name /\ r.script = queues[i].script /\ r.ami = queues[i].ami
        /\ c.types = types /\ c.suffix = cr.suffix
        /\ c.target = cr.target /\ c.nodes = cr.nodes
        /\ c.efa => SupportEfa(types)
  BY <1>2, TypedFields
<1> HIDE DEF cr, r, f
<1>4. ProperCr(cr) => ProperCr(c)
  BY <1>3 DEF ProperCr
<1>5. ASSUME ~queuesPast.moved PROVE ShownCr(c, f)
  <2>1. cr.target = IF f.option = "none" THEN NoTarget ELSE [kind |-> f.option, id |-> f.input]
    BY <1>1, <1>2, <1>5 DEF ShownCr
  <2>2. cr.target.kind # ById
    <3>1. NoTarget.kind = "none" /\ "none" # ById
      BY DEF NoTarget, ById
    <3>2. [kind |-> f.option, id |-> f.input].kind = f.option
      OBVIOUS
    <3>3. QED
      BY <1>1, <2>1, <3>1, <3>2
  <2>3. QED
    BY <1>1, <1>3, <2>1, <2>2 DEF ShownCr
<1>6. QED
  BY <1>1, <1>3, <1>4, <1>5, QuietKeeps DEF cr, f

\* A step that leaves the queues as they are.
LEMMA StandKeeps ==
  ASSUME QInv, UNCHANGED <<flags, listed, queues, amiEnabled, queuesPast>>,
         onPage' => known' = known, known' \subseteq listed,
         onPage' \in BOOLEAN, idleError' \in BOOLEAN, onPage' => onPage,
         slurm' \in [memory : BOOLEAN, idle : {"unset", "positive", "negative"}],
         slurm'.memory => Memory,
         onPage' /\ slurm'.memory => ~CannotSchedule(queues),
         queueErrors' \in [QueuePositions -> SUBSET (FieldErrors \cup AllTypeErrors)],
         IF onPage' THEN GoodForms(queues, forms') ELSE forms' = <<>>,
         onPage' /\ ~queuesPast.moved => \A i \in DOMAIN queues : Shown(queues[i], forms'[i])
  PROVE  QInv'
<1>1. QueueKinds'
  BY DEF QueueKinds, QInv
<1>2. AmiIsShown'
  BY DEF QInv, Forms, AmiIsShown
<1>3. /\ WithinLimits(queues') /\ \A i \in DOMAIN queues' : Sound(queues'[i])
      /\ IF onPage' THEN GoodForms(queues', forms') ELSE forms' = <<>>
      /\ onPage' => \A i \in DOMAIN queues' : Rendered(queues'[i])
      /\ onPage' /\ slurm'.memory => ~CannotSchedule(queues')
      /\ onPage' /\ ~queuesPast'.moved =>
           \A i \in DOMAIN queues' : Shown(queues'[i], forms'[i])
  BY DEF QInv, Draft, Effects
<1>4. SectionsFit =>
        /\ \A i \in DOMAIN queues' : Proper(queues'[i])
        /\ ~queuesPast'.removed =>
             /\ \A i \in DOMAIN queues' : Apart(queues'[i].crs)
             /\ ~queuesPast'.renamed => QueuesApart(queues')
  BY DEF QInv, Content
<1>5. After
  BY <1>1, <1>2, <1>3, <1>4 DEF After
<1>6. QED
  BY <1>5, AfterIsInv

\* One form of a compute resource is changed.
LEMMA FormFields ==
  ASSUME NEW g \in Form, NEW j \in DOMAIN g.crs, NEW f \in CrFields
  PROVE  LET h == [g EXCEPT !.crs = [g.crs EXCEPT ![j] = f]] IN
         /\ h \in Form /\ h.script = g.script /\ Swapped(g.crs, h.crs, j, f)
         /\ DOMAIN h.crs = DOMAIN g.crs
         /\ \A k \in DOMAIN g.crs : h.crs[k] = IF k = j THEN f ELSE g.crs[k]
<1> DEFINE crs == [g.crs EXCEPT ![j] = f]
           h == [g EXCEPT !.crs = crs]
<1>1. g.crs \in Seq(CrFields)
  BY DEF Form
<1>2. DOMAIN g.crs = 1..Len(g.crs)
  BY <1>1, LenProperties
<1>3. /\ crs \in Seq(CrFields) /\ DOMAIN crs = DOMAIN g.crs
      /\ \A k \in DOMAIN g.crs : crs[k] = IF k = j THEN f ELSE g.crs[k]
  BY <1>1, <1>2, ExceptSeq
<1>4. Swapped(g.crs, crs, j, f)
  BY DEF Swapped
<1> HIDE DEF crs
<1>5. h \in Form /\ h.script = g.script /\ h.crs = crs
  BY <1>3 DEF Form
<1>6. QED
  BY <1>3, <1>4, <1>5 DEF crs

\* A reservation is chosen or its id typed: the effect writes both to the draft.
LEMMA ReservationKeeps ==
  ASSUME QInv, NEW i, NEW j, NEW f \in CrForms, SetReservation(i, j, f)
  PROVE  QInv'
<1> DEFINE cr == Cr(i, j)
           old == forms[i].crs[j]
           new == [old EXCEPT !.option = f.option, !.input = f.input]
           g == [forms[i] EXCEPT !.crs = [forms[i].crs EXCEPT ![j] = new]]
           c == Reserved(cr, f)
           r == [queues[i] EXCEPT !.crs[j] = c]
<1>1. /\ HasCr(i, j) /\ Multi /\ ChangeCr(i, j, c)
      /\ forms' = [forms EXCEPT ![i].crs[j].option = f.option, ![i].crs[j].input = f.input]
      /\ UNCHANGED <<flags, listed, known, onPage, amiEnabled, idleError, queueErrors, queuesPast>>
  BY DEF SetReservation
<1>2. /\ queues[i] \in Queue /\ j \in DOMAIN queues[i].crs
      /\ cr \in ComputeResource /\ forms[i] \in Form /\ old \in CrFields
      /\ i \in DOMAIN forms /\ j \in DOMAIN forms[i].crs
  BY <1>1, ThisForm, ThisResource
<1>3. /\ f.option \in {"none", ById, ByArn} /\ f.input \in Reservations \cup {""}
  BY DEF CrForms
<1>4. forms' = [forms EXCEPT ![i] = g]
  <2> DEFINE f1 == [old EXCEPT !.option = f.option]
             g1 == [forms[i] EXCEPT !.crs = [forms[i].crs EXCEPT ![j] = f1]]
             fs == [forms EXCEPT ![i] = g1]
  <2>1. forms' = [fs EXCEPT ![i] = [fs[i] EXCEPT !.crs =
                    [fs[i].crs EXCEPT ![j] = [fs[i].crs[j] EXCEPT !.input = f.input]]]]
    BY <1>1
  <2>2. fs[i] = g1
    BY <1>2
  <2>3. /\ g1 \in Form /\ g1.crs = [forms[i].crs EXCEPT ![j] = f1] /\ f1 \in CrFields
        /\ g1.crs[j] = f1
    <3>1. f1 \in CrFields
      BY <1>2, <1>3 DEF CrFields
    <3> HIDE DEF f1
    <3>2. QED
      BY <1>2, <3>1, FormFields DEF Swapped
  <2>4. [g1.crs[j] EXCEPT !.input = f.input] = new
    <3>1. [f1 EXCEPT !.input = f.input] = new
      BY <1>2 DEF CrFields
    <3>2. QED
      BY <2>3, <3>1
  <2>5. forms' = [fs EXCEPT ![i] = [g1 EXCEPT !.crs = [g1.crs EXCEPT ![j] = new]]]
    BY <2>1, <2>2, <2>4
  <2> HIDE DEF f1, new
  <2>6. [g1 EXCEPT !.crs = [g1.crs EXCEPT ![j] = new]] = g
    BY <1>2, <2>3 DEF Form
  <2> HIDE DEF g, g1
  <2>7. QED
    BY <2>5, <2>6
<1>5. new \in CrFields /\ new.option = f.option /\ new.input = f.input
  BY <1>2, <1>3 DEF CrFields
<1> HIDE DEF new
<1>6. g \in Form /\ g.script = forms[i].script /\ Swapped(forms[i].crs, g.crs, j, new)
  BY <1>2, <1>5, FormFields
<1> DEFINE target == IF f.option = "none" THEN NoTarget
                     ELSE [kind |-> f.option, id |-> f.input]
           types == IF f.option = ById THEN {} ELSE cr.types
<1>7. target \in Targets /\ types \in SUBSET InstanceTypes
  <2>1. target \in Targets
    BY <1>3 DEF Targets
  <2>2. QED
    BY <1>2, <2>1, ResourceFields
<1>8. target.kind = ById => f.option = ById
  <2>1. NoTarget.kind = "none" /\ "none" # ById
    BY DEF NoTarget, ById
  <2>2. [kind |-> f.option, id |-> f.input].kind = f.option
    OBVIOUS
  <2>3. QED
    BY <2>1, <2>2
<1>9. c = [cr EXCEPT !.target = target, !.types = types]
  BY DEF Reserved
<1> HIDE DEF target, types, c
<1>10. /\ c \in ComputeResource /\ c.target = target /\ c.types = types
       /\ c.suffix = cr.suffix /\ c.efa = cr.efa /\ c.nodes = cr.nodes
  BY <1>2, <1>7, <1>9 DEF ComputeResource
<1>11. types = {} \/ types = cr.types
  BY DEF types
<1>12. ProperCr(cr) => ProperCr(c)
  BY <1>10, <1>11 DEF ProperCr
<1>13. ShownCr(c, new)
  <2>1. c.target = IF new.option = "none" THEN NoTarget
                   ELSE [kind |-> new.option, id |-> new.input]
    BY <1>5, <1>10 DEF target
  <2>2. c.target.kind = ById => c.types = {}
    BY <1>8, <1>10 DEF types
  <2>3. QED
    BY <1>1, <2>1, <2>2 DEF ShownCr
<1>14. /\ r \in Queue /\ Swapped(queues[i].crs, r.crs, j, c)
       /\ r.name = queues[i].name /\ r.script = queues[i].script /\ r.ami = queues[i].ami
  BY <1>2, <1>10, WithResource DEF Swapped
<1>15. Change(i, r)
  BY <1>1 DEF ChangeCr
<1>16. Swapped(forms, forms', i, g)
  BY <1>4 DEF Swapped
<1> HIDE DEF r, g
<1>17. QED
  BY <1>1, <1>5, <1>6, <1>10, <1>12, <1>13, <1>14, <1>15, <1>16, ResourceKeeps DEF cr

\* A single instance type is chosen, and with it a name and EFA.
LEMMA InstanceTypeKeeps ==
  ASSUME QInv, NEW i, NEW j, NEW t \in InstanceTypes, SelectInstanceType(i, j, t)
  PROVE  QInv'
<1> DEFINE cr == Cr(i, j)
           old == forms[i].crs[j]
           new == [old EXCEPT !.type = t]
           g == [forms[i] EXCEPT !.crs = [forms[i].crs EXCEPT ![j] = new]]
           d == [cr EXCEPT !.types = {t}, !.suffix = t]
           q == [queues[i] EXCEPT !.crs[j] = d]
<1>1. /\ HasCr(i, j) /\ ~Multi
      /\ forms' = [forms EXCEPT ![i].crs[j].type = t]
      /\ UNCHANGED <<flags, listed, known, onPage, amiEnabled, idleError, queueErrors, queuesPast>>
  BY DEF SelectInstanceType
<1>2. /\ queues[i] \in Queue /\ j \in DOMAIN queues[i].crs /\ onPage /\ i \in DOMAIN queues
      /\ cr \in ComputeResource /\ cr = queues[i].crs[j] /\ forms[i] \in Form /\ old \in CrFields
      /\ i \in DOMAIN forms /\ j \in DOMAIN forms[i].crs
      /\ cr.target = NoTarget
  BY <1>1, ThisForm, ThisResource
<1>3. forms' = [forms EXCEPT ![i] = g]
  BY <1>1, <1>2 DEF Form, CrFields
<1>4. new \in CrFields /\ new.type = t
  BY <1>2 DEF CrFields
<1> HIDE DEF new
<1>5. /\ g \in Form /\ g.script = forms[i].script /\ Swapped(forms[i].crs, g.crs, j, new)
      /\ DOMAIN g.crs = DOMAIN forms[i].crs
      /\ \A k \in DOMAIN forms[i].crs : g.crs[k] = IF k = j THEN new ELSE forms[i].crs[k]
  BY <1>2, <1>4, FormFields
<1> HIDE DEF g
<1>6. ASSUME NEW c, c.types = {t}, c.target = NoTarget PROVE ShownCr(c, new)
  <2>1. NoTarget.kind # ById
    BY DEF NoTarget, ById
  <2>2. ShowsType(c, new)
    BY <1>4, <1>6 DEF ShowsType
  <2>3. QED
    BY <1>1, <1>6, <2>1, <2>2 DEF ShownCr
<1>7. CASE cr.types = {t}
  <2>1. UNCHANGED <<queues, slurm>>
    BY <1>7 DEF SelectInstanceType
  <2>2. /\ GoodForms(queues, forms)
        /\ slurm \in [memory : BOOLEAN, idle : {"unset", "positive", "negative"}]
        /\ slurm.memory => Memory
        /\ slurm.memory => ~CannotSchedule(queues)
        /\ queueErrors \in [QueuePositions -> SUBSET (FieldErrors \cup AllTypeErrors)]
        /\ onPage \in BOOLEAN /\ idleError \in BOOLEAN /\ known \subseteq listed
    BY <1>2 DEF QInv, QueueKinds, Draft, Effects, MemoryFitsTypes
  <2>3. /\ \A k \in DOMAIN queues : forms'[k] = IF k = i THEN g ELSE forms[k]
        /\ forms' \in Seq(Form) /\ DOMAIN forms' = DOMAIN queues
    <3>1. forms \in Seq(Form) /\ DOMAIN forms = DOMAIN queues
      BY <2>2 DEF GoodForms
    <3>2. i \in 1..Len(forms)
      BY <1>2, <3>1, LenProperties
    <3>3. forms' \in Seq(Form)
      BY <1>3, <1>5, <3>1, <3>2, ExceptSeq
    <3>4. QED
      BY <1>3, <3>1, <3>3
  <2>4. GoodForms(queues, forms')
    BY <1>5, <2>2, <2>3 DEF GoodForms
  <2>5. ASSUME ~queuesPast.moved, NEW k \in DOMAIN queues
        PROVE  Shown(queues[k], forms'[k])
    <3>1. Shown(queues[k], forms[k])
      BY <1>2, <2>5 DEF QInv, Forms
    <3>2. CASE k # i
      BY <2>3, <3>1, <3>2
    <3>3. CASE k = i
      <4>1. ShownCr(queues[i].crs[j], new)
        BY <1>2, <1>6, <1>7
      <4>2. DOMAIN forms[i].crs = DOMAIN queues[i].crs
        BY <1>2, <2>2 DEF GoodForms
      <4>3. QED
        BY <1>5, <2>3, <3>1, <3>3, <4>1, <4>2 DEF Shown
    <3>4. QED
      BY <3>2, <3>3
  <2>6. QED
    BY <1>1, <1>2, <2>1, <2>2, <2>4, <2>5, StandKeeps
<1>8. CASE cr.types # {t}
  <2> DEFINE b == ~cr.efa
             e == [q.crs[j] EXCEPT !.efa = b]
             w == WithEfa(q, j, b)
             r == IF cr.efa = SupportEfa({t}) THEN q ELSE w
  <2>1. d \in ComputeResource /\ d.types = {t} /\ d.suffix = t /\ d.target = NoTarget
        /\ d.nodes = cr.nodes /\ d.efa = cr.efa
    <3>1. {t} \in SUBSET InstanceTypes /\ t \in Nat \cup InstanceTypes \cup QueueNames
      OBVIOUS
    <3>2. QED
      BY <1>2, <3>1 DEF ComputeResource
  <2>2. [queues[i] EXCEPT !.crs[j].types = {t}, !.crs[j].suffix = t] = q
    BY <1>2 DEF Queue, ComputeResource
  <2>3. Change(i, r)
    BY <1>8, <2>2 DEF SelectInstanceType
  <2> HIDE DEF d
  <2>4. /\ q \in Queue /\ q.crs = [queues[i].crs EXCEPT ![j] = d]
        /\ q.crs[j] = d /\ j \in DOMAIN q.crs
        /\ q.name = queues[i].name /\ q.script = queues[i].script /\ q.ami = queues[i].ami
    BY <1>2, <2>1, WithResource
  <2> HIDE DEF q
  <2>5. b \in BOOLEAN /\ SupportEfa({t}) \in BOOLEAN /\ cr.efa \in BOOLEAN
    BY <1>2, ResourceFields DEF SupportEfa
  <2>6. PICK c \in ComputeResource :
          /\ r \in Queue /\ Swapped(queues[i].crs, r.crs, j, c)
          /\ r.name = queues[i].name /\ r.script = queues[i].script /\ r.ami = queues[i].ami
          /\ c.types = {t} /\ c.suffix = t /\ c.target = NoTarget /\ c.nodes = cr.nodes
          /\ c.efa => SupportEfa({t})
    <3>1. CASE cr.efa = SupportEfa({t})
      BY <2>1, <2>4, <3>1 DEF Swapped
    <3>2. CASE cr.efa # SupportEfa({t})
      <4>1. b = SupportEfa({t})
        BY <2>5, <3>2
      <4> HIDE DEF b
      <4>2. /\ w \in Queue /\ w.crs = [q.crs EXCEPT ![j] = e] /\ e \in ComputeResource
            /\ w.name = q.name /\ w.script = q.script /\ w.ami = q.ami
        BY <2>4, <2>5, WithEfaFields
      <4>3. /\ e.types = d.types /\ e.suffix = d.suffix /\ e.target = d.target
            /\ e.nodes = d.nodes /\ e.efa = b
        BY <2>1, <2>4 DEF ComputeResource
      <4> HIDE DEF e, w
      <4>4. [q.crs EXCEPT ![j] = e] = [queues[i].crs EXCEPT ![j] = e]
        BY <2>4
      <4>5. Swapped(queues[i].crs, w.crs, j, e)
        BY <4>2, <4>4 DEF Swapped
      <4>6. r = w
        BY <3>2
      <4> HIDE DEF r
      <4>7. QED
        BY <2>1, <2>4, <4>1, <4>2, <4>3, <4>5, <4>6
    <3>3. QED
      BY <3>1, <3>2
  <2> HIDE DEF r
  <2>7. ProperCr(cr) => ProperCr(c)
    BY <2>6 DEF ProperCr
  <2>8. ShownCr(c, new)
    BY <1>6, <2>6
  <2>9. Swapped(forms, forms', i, g)
    BY <1>3 DEF Swapped
  <2>10. ~Multi /\ c.suffix \in InstanceTypes /\ c.types = {c.suffix}
    BY <1>1, <2>6
  <2>11. (\E u \in InstanceTypes : c.types = {u}) /\ c.target = NoTarget
    BY <2>6
  <2>12. QED
    BY <1>1, <1>4, <1>5, <2>3, <2>6, <2>7, <2>8, <2>9, <2>10, <2>11, ResourceKeeps DEF cr
<1>9. QED
  BY <1>7, <1>8
-----------------------------------------------------------------------------
(* Compute resources added, removed and renamed.                           *)

\* One element dropped, those behind it moved up.
LEMMA WithoutIs ==
  ASSUME NEW S, NEW s \in Seq(S), NEW i \in DOMAIN s
  PROVE  /\ WithoutAt(s, i) \in Seq(S)
         /\ Len(WithoutAt(s, i)) = Len(s) - 1
         /\ \A j \in 1..(Len(s) - 1) :
              WithoutAt(s, i)[j] = IF j < i THEN s[j] ELSE s[j + 1]
BY RemoveAtProperties DEF WithoutAt, RemoveAt

\* The form made for a compute resource shows it once it has run its effect.
LEMMA CrFormFits ==
  ASSUME NEW cr \in ComputeResource,
         ~Multi => \E t \in InstanceTypes : cr.types = {t}
  PROVE  /\ CrForm(cr) \in CrFields
         /\ ~Multi /\ known \subseteq listed => ShowsType(cr, CrForm(cr))
         /\ CrForm(cr).option = IF cr.target.id = "" THEN "none" ELSE cr.target.kind
         /\ CrForm(cr).input = cr.target.id
<1> DEFINE shows == cr.types # {} /\ cr.types \subseteq listed
           type == IF shows THEN CHOOSE t \in cr.types : TRUE ELSE Nil
           o == IF cr.target.id = "" THEN "none" ELSE cr.target.kind
           n == cr.target.id
<1>1. cr.types \in SUBSET InstanceTypes /\ cr.target \in Targets /\ Nil \notin InstanceTypes
  BY ResourceFields, QueuesAssumption DEF QueuesAssumption
<1>2. cr.types # {} => (CHOOSE t \in cr.types : TRUE) \in cr.types
  OBVIOUS
<1>3. /\ type \in cr.types \cup {Nil}
      /\ shows => type \in cr.types
      /\ ~shows => type = Nil
  BY <1>2
<1>4. n \in Reservations \cup {""} /\ o \in {"none", ById, ByArn}
  <2>1. CASE cr.target = NoTarget
    <3>1. NoTarget.id = ""
      BY DEF NoTarget
    <3>2. QED
      BY <2>1, <3>1
  <2>2. CASE cr.target \in [kind : {ById, ByArn}, id : Reservations \cup {""}]
    BY <2>2
  <2>3. QED
    BY <1>1, <2>1, <2>2 DEF Targets
<1>5. CrForm(cr) = [option |-> o, input |-> n, type |-> type]
  BY DEF CrForm
<1> HIDE DEF type, o, n, shows
<1>6. /\ CrForm(cr) \in CrFields /\ CrForm(cr).type = type
      /\ CrForm(cr).option = o /\ CrForm(cr).input = n
  <2>1. type \in InstanceTypes \cup {Nil}
    BY <1>1, <1>3
  <2>2. [option |-> o, input |-> n, type |-> type] \in CrFields
    BY <1>4, <2>1 DEF CrFields
  <2>3. QED
    BY <1>5, <2>2
<1>7. ASSUME ~Multi, known \subseteq listed PROVE ShowsType(cr, CrForm(cr))
  <2>1. PICK t \in InstanceTypes : cr.types = {t}
    BY <1>7
  <2>2. CASE shows
    <3>1. CrForm(cr).type = t
      BY <1>3, <1>6, <2>1, <2>2
    <3>2. QED
      BY <2>1, <3>1 DEF ShowsType
  <2>3. CASE ~shows
    <3>1. ~(cr.types \subseteq known)
      BY <1>7, <2>1, <2>3 DEF shows
    <3>2. QED
      BY <1>3, <1>6, <2>3, <3>1 DEF ShowsType
  <2>4. QED
    BY <2>2, <2>3
<1>8. QED
  BY <1>6, <1>7 DEF o, n

\* createComputeResource makes one that fits a queue of its version.
LEMMA NewResourceFits ==
  ASSUME NEW n \in Nat
  PROVE  LET cr == NewResource(n) IN
         /\ cr \in ComputeResource /\ cr.types = {DefaultType} /\ cr.target = NoTarget
         /\ cr.suffix = IF Multi THEN n + 1 ELSE DefaultType
         /\ cr.efa = FALSE
         /\ ProperCr(cr) /\ CrForm(cr) \in CrFields
         /\ known \subseteq listed => ShownCr(cr, CrForm(cr))
<1> DEFINE s == Suffix(n, DefaultType)
           m == [min |-> 0, max |-> 4, given |-> 4, lost |-> FALSE]
           cr == NewResource(n)
<1>1. DefaultType \in InstanceTypes /\ Nil \notin Int
  BY QueuesAssumption DEF QueuesAssumption
<1>2. s \in Nat \cup InstanceTypes \cup QueueNames /\ s = IF Multi THEN n + 1 ELSE DefaultType
  BY <1>1 DEF Suffix
<1>3. m \in Nodes /\ Dynamic(m) = m.given
  <2>1. m \in Nodes /\ m.min = 0 /\ m.max = 4 /\ m.given = 4
    BY DEF Nodes
  <2>2. OrZero(m.min) = 0
    BY <2>1 DEF OrZero
  <2>3. QED
    BY <2>1, <2>2 DEF Dynamic
<1>4. cr = [suffix |-> s, types |-> {DefaultType}, efa |-> FALSE, noHT |-> FALSE,
            target |-> NoTarget, nodes |-> m]
  BY DEF NewResource
<1>5. NoTarget \in Targets /\ {DefaultType} \in SUBSET InstanceTypes
  BY <1>1 DEF Targets
<1> HIDE DEF s, m, cr
<1>6. /\ cr \in ComputeResource /\ cr.types = {DefaultType} /\ cr.target = NoTarget
      /\ cr.suffix = s /\ cr.efa = FALSE /\ cr.nodes = m
  BY <1>2, <1>3, <1>4, <1>5 DEF ComputeResource
<1>7. ProperCr(cr)
  BY <1>3, <1>6 DEF ProperCr
<1>8. /\ CrForm(cr) \in CrFields
      /\ ~Multi /\ known \subseteq listed => ShowsType(cr, CrForm(cr))
      /\ CrForm(cr).option = IF cr.target.id = "" THEN "none" ELSE cr.target.kind
  BY <1>1, <1>6, CrFormFits
<1>9. NoTarget.id = "" /\ NoTarget.kind # ById
  BY DEF NoTarget, ById
<1>10. known \subseteq listed => ShownCr(cr, CrForm(cr))
  BY <1>6, <1>8, <1>9 DEF ShownCr
<1>11. QED
  BY <1>2, <1>6, <1>7, <1>8, <1>10 DEF cr

\* A compute resource is added: its name is the next number, or its type.
LEMMA AddResourceKeeps ==
  ASSUME QInv, NEW i, AddComputeResource(i)
  PROVE  QInv'
<1> DEFINE q == queues[i]
           n == Len(q.crs)
           cr == NewResource(n)
           crs == Append(q.crs, cr)
           r == [q EXCEPT !.crs = crs]
           shows == Append(forms[i].crs, CrForm(cr))
           g == [forms[i] EXCEPT !.crs = shows]
<1>1. /\ onPage /\ i \in DOMAIN queues /\ CanAddTo(i) /\ Change(i, r)
      /\ forms' = [forms EXCEPT ![i].crs = Append(@, CrForm(cr))]
      /\ UNCHANGED <<flags, listed, known, onPage, amiEnabled, idleError, queueErrors, queuesPast>>
  BY DEF AddComputeResource
<1>2. /\ q \in Queue /\ Sound(q) /\ forms[i] \in Form
      /\ DOMAIN forms[i].crs = DOMAIN q.crs
      /\ ~queuesPast.moved => Shown(q, forms[i])
      /\ q.ami /\ ~queuesPast.amisMoved => i \in amiEnabled
      /\ SectionsFit =>
           /\ Proper(q)
           /\ ~queuesPast.removed => Apart(q.crs)
      /\ queuesPast \in Past /\ amiEnabled \subseteq QueuePositions
      /\ queueErrors \in [QueuePositions -> SUBSET (FieldErrors \cup AllTypeErrors)]
  BY <1>1, Here
<1>3. n < MaxPerQueue /\ TotalResources(queues) < MaxPerCluster
  BY <1>1 DEF CanAddTo
<1>4. /\ q.crs \in Seq(ComputeResource) /\ DOMAIN q.crs = 1..n /\ n \in Nat
      /\ known \subseteq listed
  BY <1>2, QueueFields DEF QInv, QueueKinds
<1>5. /\ cr \in ComputeResource /\ cr.types = {DefaultType} /\ cr.target = NoTarget
      /\ cr.suffix = IF Multi THEN n + 1 ELSE DefaultType
      /\ ProperCr(cr) /\ ShownCr(cr, CrForm(cr)) /\ CrForm(cr) \in CrFields
  BY <1>4, NewResourceFits
<1>6. forms' = [forms EXCEPT ![i] = g]
  BY <1>1
<1> HIDE DEF n, cr
<1>7. /\ crs \in Seq(ComputeResource) /\ Len(crs) = n + 1 /\ DOMAIN crs = 1..(n + 1)
      /\ \A j \in 1..n : crs[j] = q.crs[j]
      /\ crs[n + 1] = cr
  <2>1. /\ crs \in Seq(ComputeResource) /\ Len(crs) = Len(q.crs) + 1
        /\ \A j \in 1..Len(q.crs) : crs[j] = q.crs[j]
        /\ crs[Len(q.crs) + 1] = cr
    BY <1>4, <1>5, AppendProperties
  <2>2. QED
    BY <1>4, <2>1, LenProperties DEF n
<1>8. /\ shows \in Seq(CrFields) /\ DOMAIN shows = 1..(n + 1)
      /\ \A j \in 1..n : shows[j] = forms[i].crs[j]
      /\ shows[n + 1] = CrForm(cr)
  <2>1. forms[i].crs \in Seq(CrFields)
    BY <1>2 DEF Form
  <2>2. Len(forms[i].crs) = n
    BY <1>2, <1>4, <2>1, LenProperties
  <2>3. /\ shows \in Seq(CrFields) /\ Len(shows) = Len(forms[i].crs) + 1
        /\ \A j \in 1..Len(forms[i].crs) : shows[j] = forms[i].crs[j]
        /\ shows[Len(forms[i].crs) + 1] = CrForm(cr)
    BY <1>5, <2>1, AppendProperties
  <2>4. QED
    BY <2>2, <2>3, LenProperties
<1> HIDE DEF crs, shows, q
<1>9. /\ r \in Queue /\ r.crs = crs /\ r.name = q.name /\ r.script = q.script /\ r.ami = q.ami
  BY <1>2, <1>7 DEF Queue
<1>10. g \in Form /\ g.crs = shows /\ g.script = forms[i].script
  BY <1>2, <1>8 DEF Form
<1> HIDE DEF r, g
<1>11. Sound(r)
  <2>1. Len(r.crs) \in CrPositions
    <3>1. MaxPerQueue \in Nat
      BY QueuesAssumption DEF QueuesAssumption
    <3>2. QED
      BY <1>3, <1>4, <1>7, <1>9, <3>1 DEF CrPositions
  <2>2. ASSUME ~Multi, NEW j \in DOMAIN r.crs
        PROVE  (\E t \in InstanceTypes : r.crs[j].types = {t}) /\ r.crs[j].target = NoTarget
    <3>1. CASE j \in 1..n
      BY <1>2, <1>4, <1>7, <1>9, <2>2, <3>1 DEF Sound
    <3>2. CASE j = n + 1
      BY <1>5, <1>7, <1>9, <3>2, QueuesAssumption DEF QueuesAssumption
    <3>3. QED
      BY <1>4, <1>7, <1>9, <2>2, <3>1, <3>2
  <2>3. QED
    BY <1>9, <2>1, <2>2 DEF Sound
<1>12. \A j \in 1..(n + 1) : j \in 1..n \/ j = n + 1
  BY <1>4
<1>13. DOMAIN g.crs = DOMAIN r.crs
  BY <1>7, <1>8, <1>9, <1>10
<1>14. ASSUME ~queuesPast.moved PROVE Shown(r, g)
  BY <1>2, <1>4, <1>5, <1>7, <1>8, <1>9, <1>10, <1>12, <1>14 DEF Shown
<1>15. SectionsFit => Proper(r)
  BY <1>2, <1>4, <1>5, <1>7, <1>9, <1>12 DEF Proper
<1>16. ASSUME Apart(q.crs) PROVE Apart(r.crs)
  <2>1. CASE Multi
    <3>1. /\ \A j \in 1..n : /\ \A l \in 1..n : j # l => q.crs[j].suffix # q.crs[l].suffix
                             /\ q.crs[j].suffix \notin {m \in Nat : m > n}
      BY <1>4, <1>16, <2>1 DEF Apart, n
    <3>2. cr.suffix = n + 1 /\ n + 1 \in Nat /\ n + 1 > n
      BY <1>4, <1>5, <2>1
    <3>3. \A j \in 1..n : q.crs[j].suffix # n + 1
      BY <3>1, <3>2
    <3>4. \A m \in Nat : m > n + 1 => m > n
      BY <1>4
    <3>5. \A j \in 1..(n + 1) : crs[j].suffix \notin {m \in Nat : m > n + 1}
      BY <1>7, <1>12, <3>1, <3>2, <3>4
    <3>6. \A j, l \in 1..(n + 1) : j # l => crs[j].suffix # crs[l].suffix
      BY <1>7, <1>12, <3>1, <3>2, <3>3
    <3>7. QED
      BY <1>7, <1>9, <2>1, <3>5, <3>6 DEF Apart
  <2>2. CASE ~Multi
    <3>1. \A j \in 1..n :
            /\ q.crs[j].suffix \in InstanceTypes => q.crs[j].types = {q.crs[j].suffix}
            /\ \A l \in 1..n : j # l /\ q.crs[j].suffix \notin InstanceTypes =>
                                 q.crs[j].suffix # q.crs[l].suffix
      BY <1>4, <1>16, <2>2 DEF Apart
    <3>2. cr.suffix = DefaultType /\ cr.suffix \in InstanceTypes /\ cr.types = {cr.suffix}
      BY <1>5, <2>2, QueuesAssumption DEF QueuesAssumption
    <3>3. QED
      BY <1>7, <1>9, <1>12, <2>2, <3>1, <3>2 DEF Apart
  <2>3. QED
    BY <2>1, <2>2
<1>17. Len(r.crs) = Len(queues[i].crs) + 1
  BY <1>7, <1>9 DEF n, q
<1>18. r.name = queues[i].name /\ (r.ami /\ ~queuesPast.amisMoved => i \in amiEnabled)
  BY <1>2, <1>9 DEF q
<1>19. QueueEdit(i, r, g)
  BY <1>1, <1>2, <1>3, <1>6, <1>10, <1>11, <1>13, <1>14, <1>15, <1>16, <1>17, <1>18 DEF QueueEdit
<1>20. QED
  BY <1>19, EditKeeps

\* A queue is renamed, and its compute resources with it.
LEMMA RenameKeeps ==
  ASSUME QInv, NEW i, NEW name \in QueueNames, Rename(i, name)
  PROVE  QInv'
<1> DEFINE q == queues[i]
           crs == Renumbered(q.crs)
           r == [q EXCEPT !.name = name, !.crs = crs]
           past == [queuesPast EXCEPT !.renamed = TRUE]
<1>1. /\ onPage /\ i \in DOMAIN queues /\ Change(i, r) /\ queuesPast' = past
      /\ UNCHANGED <<flags, listed, known, onPage, amiEnabled, forms, idleError, queueErrors>>
  BY DEF Rename
<1>2. /\ q \in Queue /\ Sound(q) /\ forms[i] \in Form
      /\ DOMAIN forms[i].crs = DOMAIN q.crs
      /\ forms = [forms EXCEPT ![i] = forms[i]]
      /\ ~queuesPast.moved => Shown(q, forms[i])
      /\ q.ami /\ ~queuesPast.amisMoved => i \in amiEnabled
      /\ SectionsFit => Proper(q)
      /\ queuesPast \in Past /\ amiEnabled \subseteq QueuePositions
      /\ queueErrors \in [QueuePositions -> SUBSET (FieldErrors \cup AllTypeErrors)]
  BY <1>1, Here
<1>3. /\ q.crs \in Seq(ComputeResource) /\ DOMAIN q.crs = 1..Len(q.crs) /\ Len(q.crs) \in Nat
      /\ \A j \in DOMAIN q.crs : q.crs[j] \in ComputeResource
  BY <1>2, QueueFields
<1>4. /\ past \in Past /\ past.renamed /\ past.moved = queuesPast.moved
      /\ past.removed = queuesPast.removed /\ past.amisMoved = queuesPast.amisMoved
  BY <1>2 DEF Past
<1> HIDE DEF past, q
<1>5. ASSUME NEW j \in DOMAIN q.crs
      PROVE  /\ crs[j] \in ComputeResource
             /\ crs[j].types = q.crs[j].types /\ crs[j].target = q.crs[j].target
             /\ crs[j].efa = q.crs[j].efa /\ crs[j].nodes = q.crs[j].nodes
             /\ Multi => crs[j].suffix = j - 1
             /\ ~Multi => crs[j].types = {crs[j].suffix}
  <2> DEFINE s == IF Multi THEN j - 1 ELSE CHOOSE t \in q.crs[j].types : TRUE
             c == q.crs[j]
  <2>1. crs[j] = [c EXCEPT !.suffix = s]
    BY <1>5 DEF Renumbered
  <2>2. ~Multi => c.types = {s} /\ s \in InstanceTypes
    <3>1. SUFFICES ASSUME ~Multi PROVE c.types = {s} /\ s \in InstanceTypes
      OBVIOUS
    <3>2. PICK t \in InstanceTypes : c.types = {t}
      BY <1>2, <1>5, <3>1 DEF Sound
    <3>3. QED
      BY <3>1, <3>2
  <2>3. Multi => s = j - 1 /\ s \in Nat
    BY <1>3, <1>5
  <2>4. c \in ComputeResource
    BY <1>3, <1>5
  <2> HIDE DEF s, c
  <2>5. s \in Nat \cup InstanceTypes \cup QueueNames
    BY <2>2, <2>3
  <2>6. /\ crs[j] \in ComputeResource /\ crs[j].types = c.types /\ crs[j].target = c.target
        /\ crs[j].efa = c.efa /\ crs[j].nodes = c.nodes /\ crs[j].suffix = s
    BY <2>1, <2>4, <2>5 DEF ComputeResource
  <2>7. QED
    BY <2>2, <2>3, <2>6 DEF c
<1>6. crs \in Seq(ComputeResource) /\ Len(crs) = Len(q.crs) /\ DOMAIN crs = DOMAIN q.crs
  <2>1. crs = [j \in 1..Len(q.crs) |-> crs[j]]
    BY <1>3 DEF Renumbered
  <2>2. \A j \in 1..Len(q.crs) : crs[j] \in ComputeResource
    BY <1>3, <1>5
  <2> HIDE DEF crs
  <2>3. QED
    BY <1>3, <2>1, <2>2, SequenceIs
<1> HIDE DEF crs
<1>7. /\ r \in Queue /\ r.crs = crs /\ r.name = name /\ r.script = q.script /\ r.ami = q.ami
  BY <1>2, <1>6 DEF Queue
<1> HIDE DEF r
<1>8. Sound(r)
  BY <1>2, <1>5, <1>6, <1>7 DEF Sound
<1>9. ASSUME ~queuesPast.moved PROVE Shown(r, forms[i])
  <2>1. Shown(q, forms[i])
    BY <1>2, <1>9
  <2>2. \A j \in DOMAIN q.crs : ShownCr(crs[j], forms[i].crs[j])
    BY <1>5, <2>1 DEF Shown, ShownCr, ShowsType
  <2>3. QED
    BY <1>6, <1>7, <2>1, <2>2 DEF Shown
<1>10. SectionsFit => Proper(r)
  BY <1>2, <1>5, <1>6, <1>7 DEF Proper, ProperCr
<1>11. Apart(crs)
  <2>1. CASE Multi
    <3>1. \A j, l \in DOMAIN crs : j # l => crs[j].suffix # crs[l].suffix
      BY <1>3, <1>5, <1>6, <2>1
    <3>2. \A j \in DOMAIN crs : crs[j].suffix \notin {n \in Nat : n > Len(crs)}
      BY <1>3, <1>5, <1>6, <2>1
    <3>3. QED
      BY <2>1, <3>1, <3>2 DEF Apart
  <2>2. CASE ~Multi
    <3>1. \A j \in DOMAIN crs : crs[j].types = {crs[j].suffix} /\ crs[j].suffix \in InstanceTypes
      <4>1. SUFFICES ASSUME NEW j \in DOMAIN crs
                     PROVE  crs[j].types = {crs[j].suffix} /\ crs[j].suffix \in InstanceTypes
        OBVIOUS
      <4>2. crs[j].types = {crs[j].suffix} /\ crs[j].types \in SUBSET InstanceTypes
        BY <1>5, <1>6, <2>2, <4>1, ResourceFields
      <4>3. QED
        BY <4>2
    <3>2. QED
      BY <2>2, <3>1 DEF Apart
  <2>3. QED
    BY <2>1, <2>2
<1>12. Len(r.crs) <= Len(queues[i].crs) /\ DOMAIN forms[i].crs = DOMAIN r.crs
  BY <1>2, <1>3, <1>6, <1>7 DEF q
<1>13. r.ami /\ ~queuesPast.amisMoved => i \in amiEnabled
  BY <1>2, <1>7
<1>14. \A h \in {"moved", "removed", "renamed", "amisMoved"} : queuesPast[h] => past[h]
  BY <1>4
<1>15. QueueEdit(i, r, forms[i])
  BY <1>1, <1>2, <1>4, <1>7, <1>8, <1>9, <1>10, <1>11, <1>12, <1>13, <1>14 DEF QueueEdit
<1>16. QED
  BY <1>15, EditKeeps

\* A compute resource is removed, and the form of the last one with it.
LEMMA RemoveResourceKeeps ==
  ASSUME QInv, NEW i, NEW j, RemoveComputeResource(i, j)
  PROVE  QInv'
<1> DEFINE q == queues[i]
           n == Len(q.crs)
           crs == WithoutAt(q.crs, j)
           r == [q EXCEPT !.crs = crs]
           shows == SubSeq(forms[i].crs, 1, n - 1)
           g == [forms[i] EXCEPT !.crs = shows]
           m == queuesPast.moved \/ j < n
           past == [queuesPast EXCEPT !.moved = m, !.removed = TRUE]
<1>1. /\ HasCr(i, j) /\ n > 1 /\ Change(i, r) /\ queuesPast' = past
      /\ UNCHANGED <<flags, listed, known, onPage, amiEnabled, idleError, queueErrors>>
  BY DEF RemoveComputeResource
<1>2. /\ onPage /\ i \in DOMAIN queues /\ j \in DOMAIN q.crs
  BY <1>1 DEF HasCr
<1>3. /\ q \in Queue /\ Sound(q) /\ forms[i] \in Form
      /\ DOMAIN forms[i].crs = DOMAIN q.crs
      /\ ~queuesPast.moved => Shown(q, forms[i])
      /\ q.ami /\ ~queuesPast.amisMoved => i \in amiEnabled
      /\ SectionsFit => Proper(q)
      /\ queuesPast \in Past /\ amiEnabled \subseteq QueuePositions
      /\ queueErrors \in [QueuePositions -> SUBSET (FieldErrors \cup AllTypeErrors)]
  BY <1>2, Here
<1>4. /\ q.crs \in Seq(ComputeResource) /\ DOMAIN q.crs = 1..n /\ n \in Nat
      /\ j \in 1..n
  BY <1>2, <1>3, QueueFields
<1>5. forms[i].crs \in Seq(CrFields) /\ Len(forms[i].crs) = n
  <2>1. forms[i].crs \in Seq(CrFields)
    BY <1>3 DEF Form
  <2>2. QED
    BY <1>3, <1>4, <2>1, LenProperties
<1>6. forms' = [forms EXCEPT ![i] = g]
  BY <1>5 DEF RemoveComputeResource
<1>7. m \in BOOLEAN /\ (queuesPast.moved => m) /\ (~m => j = n)
  BY <1>3, <1>4 DEF Past
<1> HIDE DEF m
<1>8. /\ past \in Past /\ past.removed /\ past.moved = m
      /\ past.renamed = queuesPast.renamed /\ past.amisMoved = queuesPast.amisMoved
  BY <1>3, <1>7 DEF Past
<1>9. /\ crs \in Seq(ComputeResource) /\ Len(crs) = n - 1
      /\ \A k \in 1..(n - 1) : crs[k] = IF k < j THEN q.crs[k] ELSE q.crs[k + 1]
  BY <1>2, <1>4, WithoutIs
<1>10. DOMAIN crs = 1..(n - 1)
  BY <1>9, LenProperties
<1>11. /\ shows \in Seq(CrFields) /\ Len(shows) = n - 1
       /\ \A k \in 1..(n - 1) : shows[k] = forms[i].crs[k]
  <2>1. \A k \in 1..(n - 1) : forms[i].crs[k] \in CrFields
    BY <1>4, <1>5
  <2>2. 1 \in Int /\ n - 1 \in Int /\ 1 <= n - 1
    BY <1>1, <1>4
  <2> HIDE DEF n
  <2>3. /\ shows \in Seq(CrFields)
        /\ Len(shows) = IF 1 <= n - 1 THEN (n - 1) - 1 + 1 ELSE 0
        /\ \A k \in 1..((n - 1) - 1 + 1) : shows[k] = forms[i].crs[1 + k - 1]
    BY <2>1, <2>2, SubSeqProperties
  <2>4. (n - 1) - 1 + 1 = n - 1 /\ \A k \in 1..(n - 1) : 1 + k - 1 = k
    BY <1>4 DEF n
  <2>5. QED
    BY <2>2, <2>3, <2>4
<1>12. DOMAIN shows = 1..(n - 1)
  BY <1>11, LenProperties
<1> HIDE DEF past, n, crs, shows, q
<1>13. /\ r \in Queue /\ r.crs = crs /\ r.name = q.name /\ r.script = q.script /\ r.ami = q.ami
  BY <1>3, <1>9 DEF Queue
<1>14. g \in Form /\ g.crs = shows /\ g.script = forms[i].script
  BY <1>3, <1>11 DEF Form
<1> HIDE DEF r, g
<1>15. \A k \in DOMAIN crs : \E l \in DOMAIN q.crs : crs[k] = q.crs[l]
  <2>1. SUFFICES ASSUME NEW k \in 1..(n - 1)
                 PROVE  \E l \in 1..n : crs[k] = q.crs[l]
    BY <1>4, <1>10
  <2>2. k \in 1..n /\ k + 1 \in 1..n
    BY <1>4
  <2>3. QED
    BY <1>9, <2>2
<1>16. Sound(r)
  <2>1. Len(r.crs) \in CrPositions
    <3>1. MaxPerQueue \in Nat /\ n \in CrPositions
      BY <1>3, QueuesAssumption DEF QueuesAssumption, Sound, n
    <3>2. n > 1
      BY <1>1 DEF n
    <3>3. n - 1 \in CrPositions
      BY <3>1, <3>2 DEF CrPositions
    <3>4. Len(r.crs) = n - 1
      BY <1>9, <1>13
    <3>5. QED
      BY <3>3, <3>4
  <2>2. ASSUME ~Multi, NEW k \in DOMAIN r.crs
        PROVE  (\E t \in InstanceTypes : r.crs[k].types = {t}) /\ r.crs[k].target = NoTarget
    <3>1. PICK l \in DOMAIN q.crs : r.crs[k] = q.crs[l]
      BY <1>13, <1>15, <2>2
    <3>2. QED
      BY <1>3, <2>2, <3>1 DEF Sound
  <2>3. QED
    BY <1>13, <2>1, <2>2 DEF Sound
<1>17. ASSUME ~past.moved PROVE Shown(r, g)
  <2>1. j = n /\ Shown(q, forms[i])
    BY <1>3, <1>7, <1>8, <1>17
  <2>2. \A k \in 1..(n - 1) : k < n /\ k \in 1..n
    BY <1>4
  <2>3. \A k \in 1..(n - 1) : crs[k] = q.crs[k] /\ k \in DOMAIN q.crs
    BY <1>4, <1>9, <2>1, <2>2
  <2>4. QED
    BY <1>10, <1>11, <1>13, <1>14, <2>1, <2>3 DEF Shown
<1>18. SectionsFit => Proper(r)
  BY <1>3, <1>13, <1>15 DEF Proper
<1>19. Len(r.crs) <= Len(queues[i].crs)
  BY <1>4, <1>9, <1>13 DEF n, q
<1>20. DOMAIN g.crs = DOMAIN r.crs
  BY <1>10, <1>12, <1>13, <1>14
<1>21. \A h \in {"moved", "removed", "renamed", "amisMoved"} : queuesPast[h] => past[h]
  BY <1>7, <1>8
<1>22. r.name = queues[i].name /\ (r.ami /\ ~queuesPast.amisMoved => i \in amiEnabled)
  BY <1>3, <1>13 DEF q
<1>23. QueueEdit(i, r, g)
  BY <1>1, <1>2, <1>3, <1>6, <1>8, <1>14, <1>16, <1>17, <1>18, <1>19, <1>20, <1>21, <1>22
     DEF QueueEdit
<1>24. QED
  BY <1>23, EditKeeps
-----------------------------------------------------------------------------
(* Forms that mount.                                                       *)

\* A form that mounts writes back the reservation it shows.
LEMMA MountedFits ==
  ASSUME NEW cr \in ComputeResource,
         ~Multi => (\E t \in InstanceTypes : cr.types = {t}) /\ cr.target = NoTarget
  PROVE  LET c == Mounted(cr) IN
         /\ c \in ComputeResource
         /\ c.suffix = cr.suffix /\ c.efa = cr.efa /\ c.noHT = cr.noHT /\ c.nodes = cr.nodes
         /\ c.types = cr.types \/ (Multi /\ c.types = {})
         /\ ~Multi => c = cr
         /\ known \subseteq listed => ShownCr(c, CrForm(cr))
         /\ CrForm(cr) \in CrFields
<1> DEFINE f == CrForm(cr)
           c == Mounted(cr)
<1>1. /\ f \in CrFields
      /\ ~Multi /\ known \subseteq listed => ShowsType(cr, f)
      /\ f.option = IF cr.target.id = "" THEN "none" ELSE cr.target.kind
      /\ f.input = cr.target.id
  BY CrFormFits
<1>2. NoTarget.kind = "none" /\ NoTarget.id = "" /\ ById # "none"
  BY DEF NoTarget, ById
<1> HIDE DEF f
<1>3. CASE ~Multi
  <2>1. c = cr
    BY <1>3 DEF Mounted
  <2> HIDE DEF c
  <2>2. known \subseteq listed => ShownCr(c, f)
    BY <1>1, <1>2, <1>3, <2>1 DEF ShownCr
  <2>3. QED
    BY <1>1, <1>3, <2>1, <2>2 DEF c, f
<1>4. CASE Multi
  <2> DEFINE target == IF f.option = "none" THEN NoTarget
                       ELSE [kind |-> f.option, id |-> f.input]
             types == IF f.option = ById THEN {} ELSE cr.types
  <2>1. c = [cr EXCEPT !.target = target, !.types = types]
    BY <1>4 DEF Mounted, Reserved, f
  <2>2. target \in Targets
    <3>1. f.option \in {"none", ById, ByArn} /\ f.input \in Reservations \cup {""}
      BY <1>1 DEF CrFields
    <3>2. QED
      BY <3>1 DEF Targets
  <2>3. types \in SUBSET InstanceTypes
    BY ResourceFields
  <2>4. target.kind = ById => f.option = ById
    BY <1>2
  <2>5. types = {} \/ types = cr.types
    OBVIOUS
  <2>6. f.option = ById => types = {}
    OBVIOUS
  <2>7. target = IF f.option = "none" THEN NoTarget ELSE [kind |-> f.option, id |-> f.input]
    OBVIOUS
  <2> HIDE DEF target, types, c
  <2>8. /\ c \in ComputeResource
        /\ c.suffix = cr.suffix /\ c.efa = cr.efa /\ c.noHT = cr.noHT /\ c.nodes = cr.nodes
        /\ c.types = types /\ c.target = target
    BY <2>1, <2>2, <2>3 DEF ComputeResource
  <2>9. ShownCr(c, f)
    BY <1>4, <2>4, <2>6, <2>7, <2>8 DEF ShownCr
  <2>10. QED
    BY <1>1, <1>4, <2>5, <2>8, <2>9 DEF c, f
<1>5. QED
  BY <1>3, <1>4

\* What mounting leaves of a queue: its shape, its fields and what was right of it.
LEMMA MountedAfterFits ==
  ASSUME NEW q, Sound(q), NEW old
  PROVE  LET r == MountedAfter(old, q) IN
         /\ Sound(r) /\ DOMAIN r.crs = DOMAIN q.crs /\ Len(r.crs) = Len(q.crs)
         /\ r.name = q.name /\ r.script = q.script /\ r.ami = q.ami
         /\ Rendered(q) => Rendered(r)
         /\ Proper(q) => Proper(r)
         /\ Apart(q.crs) => Apart(r.crs)
         /\ \A j \in DOMAIN q.crs :
              r.crs[j] = IF j \in DOMAIN old.crs THEN q.crs[j] ELSE Mounted(q.crs[j])
<1> DEFINE n == Len(q.crs)
           crs == [j \in DOMAIN q.crs |-> IF j \in DOMAIN old.crs THEN q.crs[j]
                                          ELSE Mounted(q.crs[j])]
           r == MountedAfter(old, q)
<1>1. /\ q \in Queue /\ q.crs \in Seq(ComputeResource)
      /\ DOMAIN q.crs = 1..n /\ n \in Nat
      /\ \A j \in DOMAIN q.crs : q.crs[j] \in ComputeResource
  BY QueueFields DEF Sound
<1>2. \A j \in DOMAIN q.crs :
        ~Multi => (\E t \in InstanceTypes : q.crs[j].types = {t}) /\ q.crs[j].target = NoTarget
  BY DEF Sound
<1>3. \A j \in DOMAIN q.crs :
        /\ crs[j] \in ComputeResource
        /\ crs[j].suffix = q.crs[j].suffix /\ crs[j].efa = q.crs[j].efa
        /\ crs[j].noHT = q.crs[j].noHT /\ crs[j].nodes = q.crs[j].nodes
        /\ crs[j].types = q.crs[j].types \/ (Multi /\ crs[j].types = {})
        /\ ~Multi => crs[j] = q.crs[j]
        /\ crs[j] = IF j \in DOMAIN old.crs THEN q.crs[j] ELSE Mounted(q.crs[j])
  <2>1. SUFFICES ASSUME NEW j \in DOMAIN q.crs
        PROVE /\ crs[j] \in ComputeResource
              /\ crs[j].suffix = q.crs[j].suffix /\ crs[j].efa = q.crs[j].efa
              /\ crs[j].noHT = q.crs[j].noHT /\ crs[j].nodes = q.crs[j].nodes
              /\ crs[j].types = q.crs[j].types \/ (Multi /\ crs[j].types = {})
              /\ ~Multi => crs[j] = q.crs[j]
              /\ crs[j] = IF j \in DOMAIN old.crs THEN q.crs[j] ELSE Mounted(q.crs[j])
    BY Zenon
  <2>2. crs[j] = IF j \in DOMAIN old.crs THEN q.crs[j] ELSE Mounted(q.crs[j])
    OBVIOUS
  <2> HIDE DEF crs
  <2>3. LET c == Mounted(q.crs[j]) IN
        /\ c \in ComputeResource
        /\ c.suffix = q.crs[j].suffix /\ c.efa = q.crs[j].efa /\ c.noHT = q.crs[j].noHT
        /\ c.nodes = q.crs[j].nodes
        /\ c.types = q.crs[j].types \/ (Multi /\ c.types = {})
        /\ ~Multi => c = q.crs[j]
    BY <1>1, <1>2, MountedFits
  <2>4. QED
    BY <1>1, <2>2, <2>3
<1>4. crs \in Seq(ComputeResource) /\ Len(crs) = n /\ DOMAIN crs = 1..n
  <2>1. crs = [j \in 1..n |-> crs[j]]
    BY <1>1
  <2> HIDE DEF crs, n
  <2>2. QED
    BY <1>1, <1>3, <2>1, SequenceIs
<1>5. r = [q EXCEPT !.crs = crs]
  BY DEF MountedAfter
<1> HIDE DEF crs, r, n
<1>6. /\ r \in Queue /\ r.crs = crs
      /\ r.name = q.name /\ r.script = q.script /\ r.ami = q.ami
      /\ r.subnets = q.subnets /\ r.group = q.group
      /\ r.block = q.block /\ r.strategy = q.strategy
  BY <1>1, <1>4, <1>5 DEF Queue
<1>7. DOMAIN r.crs = DOMAIN q.crs /\ Len(r.crs) = Len(q.crs)
  BY <1>1, <1>4, <1>6 DEF n
<1>8. Sound(r)
  BY <1>2, <1>3, <1>6, <1>7 DEF Sound
<1>9. ASSUME Rendered(q) PROVE Rendered(r)
  <2>1. Wide(r) <=> Wide(q)
    BY <1>6 DEF Wide
  <2>2. ~Fixed({})
    BY DEF Fixed
  <2>3. ASSUME NEW j \in DOMAIN q.crs
        PROVE  /\ r.crs[j].efa => ~Wide(q)
               /\ Multi /\ Fixed(r.crs[j].types) => ~r.crs[j].noHT
    <3>1. /\ q.crs[j].efa => ~Wide(q)
          /\ Multi /\ Fixed(q.crs[j].types) => ~q.crs[j].noHT
      BY <1>9 DEF Rendered
    <3>2. QED
      BY <1>3, <1>6, <2>2, <3>1
  <2>4. QED
    BY <1>6, <1>7, <1>9, <2>1, <2>3 DEF Rendered
<1>10. ASSUME Proper(q) PROVE Proper(r)
  BY <1>3, <1>6, <1>7, <1>10 DEF Proper, ProperCr
<1>11. ASSUME Apart(q.crs) PROVE Apart(r.crs)
  BY <1>3, <1>6, <1>7, <1>11 DEF Apart
<1>12. QED
  BY <1>3, <1>6, <1>7, <1>8, <1>9, <1>10, <1>11 DEF r

\* The form that mounts with a queue, and one that lives on with another.
LEMMA KeptFits ==
  ASSUME NEW q, Sound(q), NEW g \in Form
  PROVE  LET h == Kept(g, q) IN
         /\ h \in Form /\ DOMAIN h.crs = DOMAIN q.crs /\ h.script = g.script
         /\ \A j \in DOMAIN q.crs :
              h.crs[j] = IF j \in DOMAIN g.crs THEN g.crs[j] ELSE CrForm(q.crs[j])
<1> DEFINE n == Len(q.crs)
           crs == [j \in DOMAIN q.crs |-> IF j \in DOMAIN g.crs THEN g.crs[j]
                                          ELSE CrForm(q.crs[j])]
<1>1. /\ DOMAIN q.crs = 1..n /\ n \in Nat
      /\ \A j \in DOMAIN q.crs : q.crs[j] \in ComputeResource
  BY QueueFields DEF Sound
<1>2. g.script \in BOOLEAN /\ \A j \in DOMAIN g.crs : g.crs[j] \in CrFields
  BY DEF Form
<1>3. \A j \in DOMAIN q.crs : CrForm(q.crs[j]) \in CrFields
  <2>1. \A j \in DOMAIN q.crs : ~Multi => \E t \in InstanceTypes : q.crs[j].types = {t}
    BY DEF Sound
  <2>2. QED
    BY <1>1, <2>1, CrFormFits
<1>4. crs = [j \in 1..n |-> crs[j]] /\ \A j \in 1..n : crs[j] \in CrFields
  BY <1>1, <1>2, <1>3
<1>5. Kept(g, q) = [script |-> g.script, crs |-> crs]
  BY DEF Kept
<1>6. \A j \in DOMAIN q.crs : crs[j] = IF j \in DOMAIN g.crs THEN g.crs[j]
                                        ELSE CrForm(q.crs[j])
  OBVIOUS
<1> HIDE DEF crs, n
<1>7. crs \in Seq(CrFields) /\ DOMAIN crs = 1..n
  BY <1>1, <1>4, SequenceIs
<1>8. [script |-> g.script, crs |-> crs] \in Form
  BY <1>2, <1>7 DEF Form
<1>9. QED
  BY <1>1, <1>5, <1>6, <1>7, <1>8

\* The form that mounts with a queue shows its script and its reservations.
LEMMA QueueFormFits ==
  ASSUME NEW q, Sound(q)
  PROVE  LET g == QueueForm(q) IN
         /\ g \in Form /\ DOMAIN g.crs = DOMAIN q.crs /\ g.script = q.script
         /\ \A j \in DOMAIN q.crs : g.crs[j] = CrForm(q.crs[j])
<1> DEFINE n == Len(q.crs)
           crs == [j \in DOMAIN q.crs |-> CrForm(q.crs[j])]
<1>1. /\ DOMAIN q.crs = 1..n /\ n \in Nat /\ q.script \in BOOLEAN
      /\ \A j \in DOMAIN q.crs : q.crs[j] \in ComputeResource
  BY QueueFields DEF Sound
<1>2. \A j \in DOMAIN q.crs : CrForm(q.crs[j]) \in CrFields
  <2>1. \A j \in DOMAIN q.crs : ~Multi => \E t \in InstanceTypes : q.crs[j].types = {t}
    BY DEF Sound
  <2>2. QED
    BY <1>1, <2>1, CrFormFits
<1>3. crs = [j \in 1..n |-> crs[j]] /\ \A j \in 1..n : crs[j] \in CrFields
  BY <1>1, <1>2
<1>4. QueueForm(q) = [script |-> q.script, crs |-> crs]
  BY DEF QueueForm
<1>5. \A j \in DOMAIN q.crs : crs[j] = CrForm(q.crs[j])
  OBVIOUS
<1> HIDE DEF crs, n
<1>6. crs \in Seq(CrFields) /\ DOMAIN crs = 1..n
  BY <1>1, <1>3, SequenceIs
<1>7. [script |-> q.script, crs |-> crs] \in Form
  BY <1>1, <1>6 DEF Form
<1>8. QED
  BY <1>1, <1>4, <1>5, <1>6, <1>7

\* Queues that take the places of others, each with as many compute resources.
LEMMA SamePlaces ==
  ASSUME NEW qs, WithinLimits(qs), NEW rs, rs = [i \in DOMAIN qs |-> rs[i]],
         \A i \in DOMAIN qs :
           rs[i] \in Queue /\ Len(rs[i].crs) = Len(qs[i].crs) /\ DOMAIN rs[i].crs = DOMAIN qs[i].crs
  PROVE  WithinLimits(rs) /\ DOMAIN rs = DOMAIN qs /\ Len(rs) = Len(qs)
<1>1. /\ qs \in Seq(Queue) /\ Len(qs) \in QueuePositions
      /\ \A i \in DOMAIN qs : Len(qs[i].crs) \in CrPositions
      /\ TotalResources(qs) <= MaxPerCluster
  BY DEF WithinLimits
<1>2. DOMAIN qs = 1..Len(qs) /\ Len(qs) \in Nat
  BY <1>1, LenProperties
<1>3. rs \in Seq(Queue) /\ Len(rs) = Len(qs) /\ DOMAIN rs = DOMAIN qs
  BY <1>2, SequenceIs
<1>4. PlacesOf(rs) = PlacesOf(qs)
  <2>1. ASSUME NEW p PROVE p \in PlacesOf(rs) <=> p \in PlacesOf(qs)
    <3>1. p \in PlacesOf(qs) <=> \E i \in DOMAIN qs : \E j \in DOMAIN qs[i].crs : p = <<i, j>>
      BY PlacesAre
    <3>2. p \in PlacesOf(rs) <=> \E i \in DOMAIN rs : \E j \in DOMAIN rs[i].crs : p = <<i, j>>
      BY PlacesAre
    <3>3. \A i \in DOMAIN qs : DOMAIN rs[i].crs = DOMAIN qs[i].crs
      OBVIOUS
    <3>4. QED
      BY <1>3, <3>1, <3>2, <3>3
  <2>2. QED
    BY <2>1
<1>5. TotalResources(rs) <= MaxPerCluster
  BY <1>1, <1>4, PlacesAre
<1>6. QED
  BY <1>1, <1>3, <1>5 DEF WithinLimits
-----------------------------------------------------------------------------
(* The page as a whole, and its queues.                                    *)

\* A queue of a page that is shown: its form mounts and its effects run.
ShownFirst(q) == Settled(MountedAfter([crs |-> <<>>], q))

\* A queue whose form has just mounted is shown by it.
LEMMA ShownFirstFits ==
  ASSUME known \subseteq listed, NEW q, Sound(q)
  PROVE  LET r == ShownFirst(q) IN
         /\ Sound(r) /\ Rendered(r) /\ Shown(r, QueueForm(q))
         /\ DOMAIN r.crs = DOMAIN q.crs /\ Len(r.crs) = Len(q.crs)
         /\ r.name = q.name /\ r.ami = q.ami
         /\ Proper(q) => Proper(r)
         /\ Apart(q.crs) => Apart(r.crs)
         /\ QueueForm(q) \in Form /\ DOMAIN QueueForm(q).crs = DOMAIN q.crs
<1> DEFINE m == MountedAfter([crs |-> <<>>], q)
           g == QueueForm(q)
<1>1. DOMAIN [crs |-> <<>>].crs = {}
  OBVIOUS
<1>2. /\ Sound(m) /\ DOMAIN m.crs = DOMAIN q.crs /\ Len(m.crs) = Len(q.crs)
      /\ m.name = q.name /\ m.script = q.script /\ m.ami = q.ami
      /\ Proper(q) => Proper(m)
      /\ Apart(q.crs) => Apart(m.crs)
      /\ \A j \in DOMAIN q.crs : m.crs[j] = Mounted(q.crs[j])
  <2>1. LET r == MountedAfter([crs |-> <<>>], q) IN
        /\ Sound(r) /\ DOMAIN r.crs = DOMAIN q.crs /\ Len(r.crs) = Len(q.crs)
        /\ r.name = q.name /\ r.script = q.script /\ r.ami = q.ami
        /\ Proper(q) => Proper(r)
        /\ Apart(q.crs) => Apart(r.crs)
        /\ \A j \in DOMAIN q.crs :
             r.crs[j] = IF j \in DOMAIN [crs |-> <<>>].crs THEN q.crs[j] ELSE Mounted(q.crs[j])
    BY MountedAfterFits
  <2>2. QED
    BY <1>1, <2>1
<1>3. /\ g \in Form /\ DOMAIN g.crs = DOMAIN q.crs /\ g.script = q.script
      /\ \A j \in DOMAIN q.crs : g.crs[j] = CrForm(q.crs[j])
  BY QueueFormFits
<1>4. \A j \in DOMAIN q.crs : ShownCr(Mounted(q.crs[j]), CrForm(q.crs[j]))
  <2>1. \A j \in DOMAIN q.crs :
          /\ q.crs[j] \in ComputeResource
          /\ ~Multi => (\E t \in InstanceTypes : q.crs[j].types = {t}) /\ q.crs[j].target = NoTarget
    BY QueueFields DEF Sound
  <2>2. QED
    BY <2>1, MountedFits
<1> HIDE DEF m, g
<1>5. Shown(m, g)
  BY <1>2, <1>3, <1>4 DEF Shown
<1>6. ShownFirst(q) = Settled(m)
  BY DEF ShownFirst, m
<1>7. LET r == Settled(m) IN
      /\ Sound(r) /\ Rendered(r) /\ Shown(r, g)
      /\ Proper(m) => Proper(r)
      /\ Apart(m.crs) => Apart(r.crs)
      /\ r.name = m.name /\ r.ami = m.ami
      /\ Len(r.crs) = Len(m.crs) /\ DOMAIN r.crs = DOMAIN m.crs
  BY <1>2, <1>5, SettledKeeps
<1>8. QED
  BY <1>2, <1>3, <1>6, <1>7 DEF g

\* The page is shown.
LEMMA ShowKeeps ==
  ASSUME QInv, ShowQueues
  PROVE  QInv'
<1> DEFINE qs == [i \in DOMAIN queues |-> ShownFirst(queues[i])]
           fs == [i \in DOMAIN queues |-> QueueForm(queues[i])]
<1>1. /\ onPage' = TRUE /\ idleError' = FALSE /\ Hold(qs) /\ forms' = fs
      /\ queuesPast' = [queuesPast EXCEPT !.moved = FALSE]
      /\ UNCHANGED <<flags, listed, known, amiEnabled, queueErrors>>
  BY DEF ShowQueues, ShownFirst
<1>2. /\ WithinLimits(queues) /\ \A i \in DOMAIN queues : Sound(queues[i])
      /\ DOMAIN queues = 1..Len(queues) /\ Len(queues) \in Nat
      /\ known \subseteq listed
  BY LenProperties DEF QInv, QueueKinds, Draft, WithinLimits
<1>3. /\ queues' = qs /\ slurm' \in [memory : BOOLEAN, idle : {"unset", "positive", "negative"}]
      /\ (slurm'.memory => Memory /\ ~CannotSchedule(qs))
  BY <1>1, HoldKeeps
<1>4. \A i \in DOMAIN queues :
        /\ Sound(qs[i]) /\ Rendered(qs[i]) /\ Shown(qs[i], fs[i])
        /\ DOMAIN qs[i].crs = DOMAIN queues[i].crs /\ Len(qs[i].crs) = Len(queues[i].crs)
        /\ qs[i].name = queues[i].name /\ qs[i].ami = queues[i].ami
        /\ Proper(queues[i]) => Proper(qs[i])
        /\ Apart(queues[i].crs) => Apart(qs[i].crs)
        /\ fs[i] \in Form /\ DOMAIN fs[i].crs = DOMAIN queues[i].crs
  BY <1>2, ShownFirstFits
<1>5. qs = [i \in DOMAIN queues |-> qs[i]] /\ fs = [i \in 1..Len(queues) |-> fs[i]]
  BY <1>2
<1> HIDE DEF qs, fs
<1>6. WithinLimits(qs) /\ DOMAIN qs = DOMAIN queues /\ Len(qs) = Len(queues)
  <2>1. \A i \in DOMAIN queues : qs[i] \in Queue
    BY <1>4 DEF Sound
  <2>2. QED
    BY <1>2, <1>4, <1>5, <2>1, SamePlaces
<1>7. GoodForms(queues', forms')
  <2>1. fs \in Seq(Form) /\ DOMAIN fs = DOMAIN queues
    BY <1>2, <1>4, <1>5, SequenceIs
  <2>2. QED
    BY <1>1, <1>3, <1>4, <1>6, <2>1 DEF GoodForms
<1>8. /\ queuesPast' \in Past /\ queuesPast'.removed = queuesPast.removed
      /\ queuesPast'.renamed = queuesPast.renamed
      /\ queuesPast'.amisMoved = queuesPast.amisMoved
  BY <1>1 DEF QInv, QueueKinds, Past
<1>9. flags' = flags /\ known' = known /\ QueueKinds'
  BY <1>1, <1>3, <1>8 DEF QInv, QueueKinds
<1>10. AmiIsShown'
  BY <1>1, <1>3, <1>4, <1>6, <1>8 DEF QInv, Forms, AmiIsShown
<1>11. ASSUME SectionsFit
       PROVE  /\ \A i \in DOMAIN queues' : Proper(queues'[i])
              /\ ~queuesPast'.removed =>
                   /\ \A i \in DOMAIN queues' : Apart(queues'[i].crs)
                   /\ ~queuesPast'.renamed => QueuesApart(queues')
  <2>1. Content
    BY <1>11 DEF QInv
  <2>2. ASSUME QueuesApart(queues) PROVE QueuesApart(qs)
    BY <1>4, <1>6, <2>2 DEF QueuesApart
  <2>3. QED
    BY <1>3, <1>4, <1>6, <1>8, <2>1, <2>2 DEF Content
<1>12. After
  BY <1>1, <1>3, <1>4, <1>6, <1>7, <1>9, <1>10, <1>11 DEF After
<1>13. QED
  BY <1>12, AfterIsInv

\* A new queue has one compute resource, of the default type.
LEMMA NewQueueFits ==
  ASSUME NEW n \in Nat
  PROVE  LET q == NewQueue(n) IN
         /\ Sound(q) /\ Proper(q) /\ Apart(q.crs)
         /\ q.name = n /\ q.ami = FALSE /\ q.script = FALSE
         /\ Len(q.crs) = 1 /\ DOMAIN q.crs = {1}
         /\ q.crs[1].types = {DefaultType} /\ q.crs[1].target = NoTarget
<1> DEFINE cr == NewResource(0)
           crs == <<cr>>
           q == NewQueue(n)
<1>1. /\ cr \in ComputeResource /\ cr.types = {DefaultType} /\ cr.target = NoTarget
      /\ cr.suffix = IF Multi THEN 0 + 1 ELSE DefaultType
      /\ ProperCr(cr)
  BY NewResourceFits
<1>2. q = [name |-> n, subnets |-> {Nil}, group |-> FALSE, block |-> FALSE,
           strategy |-> Multi, script |-> FALSE, args |-> FALSE, ami |-> FALSE, crs |-> crs]
  BY DEF NewQueue
<1> HIDE DEF cr, q
<1>3. crs \in Seq(ComputeResource) /\ Len(crs) = 1 /\ DOMAIN crs = {1} /\ crs[1] = cr
  BY <1>1
<1> HIDE DEF crs
<1>4. /\ q \in Queue /\ q.crs = crs /\ q.name = n /\ q.ami = FALSE /\ q.script = FALSE
  <2>1. Multi \in BOOLEAN
    BY DEF Multi
  <2> DEFINE b == Multi
  <2> HIDE DEF b
  <2>2. b \in BOOLEAN
    BY <2>1 DEF b
  <2>3. q = [name |-> n, subnets |-> {Nil}, group |-> FALSE, block |-> FALSE,
             strategy |-> b, script |-> FALSE, args |-> FALSE, ami |-> FALSE, crs |-> crs]
    BY <1>2 DEF b
  <2>4. QED
    BY <1>3, <2>2, <2>3 DEF Queue
<1>5. DefaultType \in InstanceTypes /\ MaxPerQueue \in Nat /\ MaxPerQueue # 0
  BY QueuesAssumption DEF QueuesAssumption
<1>6. Len(q.crs) \in CrPositions
  <2>1. 1 \in CrPositions
    BY <1>5 DEF CrPositions
  <2>2. QED
    BY <1>3, <1>4, <2>1
<1>7. Sound(q)
  <2>1. \A j \in DOMAIN q.crs : q.crs[j].types = {DefaultType} /\ q.crs[j].target = NoTarget
    BY <1>1, <1>3, <1>4
  <2>2. QED
    BY <1>4, <1>5, <1>6, <2>1 DEF Sound
<1>8. Proper(q)
  BY <1>1, <1>3, <1>4 DEF Proper
<1>9. Apart(q.crs)
  <2>1. CASE Multi
    <3>1. cr.suffix = 1 /\ cr.suffix \notin {m \in Nat : m > 1}
      BY <1>1, <2>1
    <3>2. QED
      BY <1>3, <1>4, <2>1, <3>1 DEF Apart
  <2>2. CASE ~Multi
    BY <1>1, <1>3, <1>4, <2>2 DEF Apart
  <2>3. QED
    BY <2>1, <2>2
<1>10. QED
  BY <1>1, <1>3, <1>4, <1>7, <1>8, <1>9 DEF q

\* A queue is added, named after its position.
LEMMA AddQueueKeeps ==
  ASSUME QInv, AddQueue
  PROVE  QInv'
<1> DEFINE n == Len(queues)
           new == NewQueue(n + 1)
           q == Settled(new)
           g == QueueForm(q)
           qs == Append(queues, q)
           fs == Append(forms, g)
<1>1. /\ onPage /\ n < MaxQueues /\ TotalResources(queues) < MaxPerCluster
      /\ Hold(qs) /\ forms' = fs
      /\ UNCHANGED <<flags, listed, known, onPage, amiEnabled, idleError, queueErrors, queuesPast>>
  BY DEF AddQueue, CanAdd
<1>2. /\ WithinLimits(queues) /\ queues \in Seq(Queue)
      /\ \A i \in DOMAIN queues : Sound(queues[i])
      /\ DOMAIN queues = 1..n /\ n \in Nat
      /\ forms \in Seq(Form) /\ DOMAIN forms = 1..n /\ Len(forms) = n
      /\ \A i \in 1..n : DOMAIN forms[i].crs = DOMAIN queues[i].crs
      /\ known \subseteq listed
  <2>1. /\ WithinLimits(queues) /\ queues \in Seq(Queue)
        /\ \A i \in DOMAIN queues : Sound(queues[i])
        /\ forms \in Seq(Form) /\ DOMAIN forms = DOMAIN queues
        /\ \A i \in DOMAIN queues : DOMAIN forms[i].crs = DOMAIN queues[i].crs
    BY <1>1 DEF QInv, Draft, WithinLimits, GoodForms
  <2>2. DOMAIN queues = 1..n /\ n \in Nat
    BY <2>1, LenProperties
  <2>3. Len(forms) = n
    BY <2>1, <2>2, LenProperties
  <2>4. QED
    BY <2>1, <2>2, <2>3 DEF QInv, QueueKinds
<1>3. /\ queues' = qs /\ slurm' \in [memory : BOOLEAN, idle : {"unset", "positive", "negative"}]
      /\ (slurm'.memory => Memory /\ ~CannotSchedule(qs))
  BY <1>1, HoldKeeps
<1>4. n + 1 \in Nat
  BY <1>2
<1>5. /\ Sound(new) /\ Proper(new) /\ Apart(new.crs)
      /\ new.name = n + 1 /\ new.ami = FALSE /\ new.script = FALSE
      /\ Len(new.crs) = 1 /\ DOMAIN new.crs = {1}
      /\ new.crs[1].types = {DefaultType} /\ new.crs[1].target = NoTarget
  <2> DEFINE k == n + 1
  <2>1. k \in Nat
    BY <1>4
  <2> HIDE DEF k
  <2>2. LET r == NewQueue(k) IN
        /\ Sound(r) /\ Proper(r) /\ Apart(r.crs)
        /\ r.name = k /\ r.ami = FALSE /\ r.script = FALSE
        /\ Len(r.crs) = 1 /\ DOMAIN r.crs = {1}
        /\ r.crs[1].types = {DefaultType} /\ r.crs[1].target = NoTarget
    BY <2>1, NewQueueFits
  <2>3. QED
    BY <2>2 DEF k
<1> HIDE DEF new
<1>6. /\ Sound(q) /\ Rendered(q) /\ Proper(q) /\ Apart(q.crs)
      /\ q.name = n + 1 /\ q.ami = FALSE
      /\ Len(q.crs) = 1 /\ DOMAIN q.crs = {1}
  BY <1>5, SettledKeeps
<1>7. /\ q.script = FALSE /\ q.crs[1] \in ComputeResource
      /\ q.crs[1].types = {DefaultType} /\ q.crs[1].target = NoTarget
  <2>1. new \in Queue /\ new.crs[1] \in ComputeResource
    BY <1>5, QueueFields DEF Sound
  <2>2. q.script = new.script /\ q.crs[1] = SettledCr(new, new.crs[1])
    BY <1>5, <2>1, SettledFields
  <2>3. QED
    BY <1>5, <2>1, <2>2, SettledResource
<1> HIDE DEF q
<1>8. /\ g \in Form /\ DOMAIN g.crs = {1} /\ g.script = FALSE /\ g.crs[1] = CrForm(q.crs[1])
  BY <1>6, <1>7, QueueFormFits
<1>9. Shown(q, g)
  <2>1. DefaultType \in InstanceTypes
    BY QueuesAssumption DEF QueuesAssumption
  <2>2. /\ ~Multi => ShowsType(q.crs[1], CrForm(q.crs[1]))
        /\ CrForm(q.crs[1]).option = IF q.crs[1].target.id = "" THEN "none" ELSE q.crs[1].target.kind
    BY <1>2, <1>7, <2>1, CrFormFits
  <2>3. NoTarget.id = "" /\ NoTarget.kind # ById
    BY DEF NoTarget, ById
  <2>4. ShownCr(q.crs[1], g.crs[1])
    BY <1>7, <1>8, <2>2, <2>3 DEF ShownCr
  <2>5. QED
    BY <1>6, <1>7, <2>4 DEF Shown
<1> HIDE DEF g, n
<1>10. q \in Queue
  BY <1>6 DEF Sound
<1>11. /\ qs \in Seq(Queue) /\ Len(qs) = n + 1 /\ DOMAIN qs = 1..(n + 1)
       /\ \A i \in 1..n : qs[i] = queues[i]
       /\ qs[n + 1] = q
  <2>1. /\ qs \in Seq(Queue) /\ Len(qs) = Len(queues) + 1
        /\ \A i \in 1..Len(queues) : qs[i] = queues[i]
        /\ qs[Len(queues) + 1] = q
    BY <1>2, <1>10, AppendProperties
  <2>2. QED
    BY <2>1, LenProperties DEF n
<1>12. /\ fs \in Seq(Form) /\ DOMAIN fs = 1..(n + 1)
       /\ \A i \in 1..n : fs[i] = forms[i]
       /\ fs[n + 1] = g
  <2>1. /\ fs \in Seq(Form) /\ Len(fs) = Len(forms) + 1
        /\ \A i \in 1..Len(forms) : fs[i] = forms[i]
        /\ fs[Len(forms) + 1] = g
    BY <1>2, <1>8, AppendProperties
  <2>2. QED
    BY <1>2, <2>1, LenProperties
<1> HIDE DEF qs, fs
<1>13. \A i \in 1..(n + 1) : i \in 1..n \/ i = n + 1
  BY <1>2
<1>14. WithinLimits(qs)
  <2>1. /\ \A i \in 1..n : Len(queues[i].crs) \in CrPositions
        /\ Len(q.crs) \in CrPositions
    BY <1>2, <1>6 DEF Sound
  <2>2. \A i \in DOMAIN qs : Len(qs[i].crs) \in CrPositions
    BY <1>11, <1>13, <2>1
  <2>3. n + 1 \in QueuePositions
    <3>1. MaxQueues \in Nat
      BY QueuesAssumption DEF QueuesAssumption
    <3>2. QED
      BY <1>1, <1>2, <3>1 DEF QueuePositions
  <2>4. PlacesOf(qs) \subseteq PlacesOf(queues) \cup {<<n + 1, 1>>}
    <3>1. SUFFICES ASSUME NEW p \in PlacesOf(qs), p # <<n + 1, 1>> PROVE p \in PlacesOf(queues)
      OBVIOUS
    <3>2. PICK i \in 1..(n + 1) : \E j \in DOMAIN qs[i].crs : p = <<i, j>>
      BY <1>11, PlacesAre
    <3>3. PICK j \in DOMAIN qs[i].crs : p = <<i, j>>
      BY <3>2
    <3>4. i \in 1..n
      BY <1>6, <1>11, <1>13, <3>1, <3>3
    <3>5. QED
      BY <1>2, <1>11, <3>3, <3>4, PlacesAre
  <2>5. IsFiniteSet(PlacesOf(queues))
    <3>1. \A i \in DOMAIN queues : Len(queues[i].crs) \in CrPositions
      BY <1>2 DEF Sound
    <3>2. QED
      BY <1>2, <3>1, FinitePlaces
  <2>6. TotalResources(qs) <= MaxPerCluster
    BY <1>1, <2>4, <2>5, OneMore
  <2>7. QED
    BY <1>11, <2>2, <2>3, <2>6 DEF WithinLimits
<1>15. \A i \in DOMAIN qs : Sound(qs[i]) /\ Rendered(qs[i])
  BY <1>1, <1>2, <1>6, <1>11, <1>13 DEF QInv, Effects
<1>16. GoodForms(qs, fs)
  <2>1. \A i \in DOMAIN qs : DOMAIN fs[i].crs = DOMAIN qs[i].crs
    BY <1>2, <1>6, <1>8, <1>11, <1>12, <1>13
  <2>2. QED
    BY <1>11, <1>12, <2>1 DEF GoodForms
<1>17. ASSUME ~queuesPast.moved PROVE \A i \in DOMAIN qs : Shown(qs[i], fs[i])
  BY <1>1, <1>2, <1>9, <1>11, <1>12, <1>13, <1>17 DEF QInv, Forms
<1>18. flags' = flags /\ known' = known /\ QueueKinds'
  BY <1>1, <1>3 DEF QInv, QueueKinds
<1>19. AmiIsShown'
  BY <1>1, <1>2, <1>3, <1>6, <1>11, <1>13 DEF QInv, Forms, AmiIsShown
<1>20. ASSUME SectionsFit
       PROVE  /\ \A i \in DOMAIN qs : Proper(qs[i])
              /\ ~queuesPast.removed =>
                   /\ \A i \in DOMAIN qs : Apart(qs[i].crs)
                   /\ ~queuesPast.renamed => QueuesApart(qs)
  <2>1. Content
    BY <1>20 DEF QInv
  <2>2. ASSUME QueuesApart(queues) PROVE QueuesApart(qs)
    <3>1. /\ \A i \in 1..n : /\ \A k \in 1..n : i # k => queues[i].name # queues[k].name
                             /\ queues[i].name \notin {m \in Nat : m > n}
      BY <1>2, <2>2 DEF QueuesApart, n
    <3>2. q.name = n + 1 /\ n + 1 \in Nat /\ n + 1 > n
      BY <1>4, <1>6, <1>2
    <3>3. \A i \in 1..n : queues[i].name # n + 1
      BY <3>1, <3>2
    <3>4. \A m \in Nat : m > n + 1 => m > n
      BY <1>2
    <3>5. \A i \in 1..(n + 1) : qs[i].name \notin {m \in Nat : m > n + 1}
      BY <1>11, <1>13, <3>1, <3>2, <3>4
    <3>6. \A i, k \in 1..(n + 1) : i # k => qs[i].name # qs[k].name
      BY <1>11, <1>13, <3>1, <3>2, <3>3
    <3>7. QED
      BY <1>11, <3>5, <3>6 DEF QueuesApart
  <2>3. (\A i \in DOMAIN qs : Proper(qs[i]))
        /\ (~queuesPast.removed => \A i \in DOMAIN qs : Apart(qs[i].crs))
    BY <1>2, <1>6, <1>11, <1>13, <2>1 DEF Content
  <2>4. QED
    BY <2>1, <2>2, <2>3 DEF Content
<1>21. After
  BY <1>1, <1>3, <1>14, <1>15, <1>16, <1>17, <1>18, <1>19, <1>20 DEF After
<1>22. QED
  BY <1>21, AfterIsInv

\* A queue removed, the ones after it in its place.
LEMMA ShorterWithin ==
  ASSUME NEW qs, WithinLimits(qs), NEW i \in DOMAIN qs, Len(qs) > 1,
         NEW rs, rs = [k \in 1..(Len(qs) - 1) |-> rs[k]],
         \A k \in 1..(Len(qs) - 1) :
           LET q == IF k < i THEN qs[k] ELSE qs[k + 1] IN
           rs[k] \in Queue /\ Len(rs[k].crs) = Len(q.crs) /\ DOMAIN rs[k].crs = DOMAIN q.crs
  PROVE  WithinLimits(rs) /\ DOMAIN rs = 1..(Len(qs) - 1) /\ Len(rs) = Len(qs) - 1
<1> DEFINE n == Len(qs)
           m == n - 1
           at(k) == IF k < i THEN k ELSE k + 1
<1>1. /\ qs \in Seq(Queue) /\ n \in QueuePositions
      /\ \A k \in DOMAIN qs : Len(qs[k].crs) \in CrPositions
      /\ TotalResources(qs) <= MaxPerCluster
  BY DEF WithinLimits
<1>2. DOMAIN qs = 1..n /\ n \in Nat /\ i \in 1..n /\ m \in Nat
  BY <1>1, LenProperties
<1>3. /\ \A k \in 1..m : at(k) \in 1..n
      /\ \A k, l \in 1..m : at(k) = at(l) => k = l
  BY <1>2
<1>4. \A k \in 1..m : /\ rs[k] \in Queue
                      /\ Len(rs[k].crs) = Len(qs[at(k)].crs)
                      /\ DOMAIN rs[k].crs = DOMAIN qs[at(k)].crs
  <2>1. SUFFICES ASSUME NEW k \in 1..m
                 PROVE  /\ rs[k] \in Queue
                        /\ Len(rs[k].crs) = Len(qs[at(k)].crs)
                        /\ DOMAIN rs[k].crs = DOMAIN qs[at(k)].crs
    OBVIOUS
  <2>2. CASE k < i
    BY <2>1, <2>2
  <2>3. CASE ~(k < i)
    BY <2>1, <2>3
  <2>4. QED
    BY <2>2, <2>3
<1>5. rs \in Seq(Queue) /\ Len(rs) = m /\ DOMAIN rs = 1..m
  <2>1. rs = [k \in 1..m |-> rs[k]]
    OBVIOUS
  <2> HIDE DEF m
  <2>2. QED
    BY <1>2, <1>4, <2>1, SequenceIs
<1>6. n > 1
  OBVIOUS
<1> HIDE DEF n, m, at
<1>7. \A k \in DOMAIN rs : Len(rs[k].crs) \in CrPositions
  BY <1>1, <1>2, <1>3, <1>4, <1>5
<1>8. m \in QueuePositions
  <2>1. MaxQueues \in Nat
    BY QueuesAssumption DEF QueuesAssumption
  <2>2. QED
    BY <1>1, <1>2, <1>6, <2>1 DEF QueuePositions, m
<1> DEFINE f == [p \in PlacesOf(rs) |-> <<at(p[1]), p[2]>>]
<1>9. \A p \in PlacesOf(rs) : \E k \in 1..m : \E j \in DOMAIN rs[k].crs : p = <<k, j>>
  BY <1>5, PlacesAre
<1>10. \A p \in PlacesOf(rs) : p = <<p[1], p[2]>> /\ p[1] \in 1..m /\ p[2] \in DOMAIN rs[p[1]].crs
  <2>1. SUFFICES ASSUME NEW p \in PlacesOf(rs)
                 PROVE  p = <<p[1], p[2]>> /\ p[1] \in 1..m /\ p[2] \in DOMAIN rs[p[1]].crs
    OBVIOUS
  <2>2. PICK k \in 1..m : \E j \in DOMAIN rs[k].crs : p = <<k, j>>
    BY <1>9
  <2>3. PICK j \in DOMAIN rs[k].crs : p = <<k, j>>
    BY <2>2
  <2>4. QED
    BY <2>3
<1>11. f \in Injection(PlacesOf(rs), PlacesOf(qs))
  <2>1. ASSUME NEW p \in PlacesOf(rs) PROVE f[p] \in PlacesOf(qs)
    <3>1. /\ p[1] \in 1..m /\ p[2] \in DOMAIN rs[p[1]].crs
      BY <1>10
    <3>2. at(p[1]) \in DOMAIN qs /\ p[2] \in DOMAIN qs[at(p[1])].crs
      BY <1>2, <1>3, <1>4, <3>1
    <3>3. f[p] = <<at(p[1]), p[2]>>
      OBVIOUS
    <3>4. QED
      BY <3>2, <3>3, PlacesAre
  <2>2. ASSUME NEW p \in PlacesOf(rs), NEW r \in PlacesOf(rs), f[p] = f[r] PROVE p = r
    <3>1. at(p[1]) = at(r[1]) /\ p[2] = r[2]
      BY <2>2
    <3>2. p[1] = r[1]
      BY <1>3, <1>10, <3>1
    <3>3. QED
      BY <1>10, <3>1, <3>2
  <2>3. QED
    BY <2>1, <2>2 DEF Injection, IsInjective
<1>12. IsFiniteSet(PlacesOf(qs))
  BY <1>1, FinitePlaces
<1>13. TotalResources(rs) <= MaxPerCluster
  BY <1>1, <1>11, <1>12, NoneMore
<1>14. QED
  BY <1>5, <1>7, <1>8, <1>13 DEF WithinLimits, m, n

\* A queue is removed: those after it meet the forms of the ones before them.
LEMMA RemoveQueueKeeps ==
  ASSUME QInv, NEW i, RemoveQueue(i)
  PROVE  QInv'
<1> DEFINE n == Len(queues)
           rest == WithoutAt(queues, i)
           qs == [k \in DOMAIN rest |-> MountedAfter(forms[k], rest[k])]
           fs == [k \in DOMAIN rest |-> Kept(forms[k], rest[k])]
           moved == queuesPast.moved \/ i < n
           past == [queuesPast EXCEPT !.moved = moved, !.amisMoved = TRUE, !.removed = TRUE]
<1>1. /\ onPage /\ i \in DOMAIN queues /\ n > 1
      /\ Hold(qs) /\ forms' = fs /\ queuesPast' = past
      /\ UNCHANGED <<flags, listed, known, onPage, amiEnabled, idleError, queueErrors>>
  BY DEF RemoveQueue
<1>2. /\ WithinLimits(queues) /\ queues \in Seq(Queue)
      /\ \A k \in DOMAIN queues : Sound(queues[k]) /\ Rendered(queues[k])
      /\ forms \in Seq(Form) /\ DOMAIN forms = DOMAIN queues
      /\ \A k \in DOMAIN queues : DOMAIN forms[k].crs = DOMAIN queues[k].crs
      /\ ~queuesPast.moved => \A k \in DOMAIN queues : Shown(queues[k], forms[k])
      /\ SectionsFit => \A k \in DOMAIN queues : Proper(queues[k])
      /\ queuesPast \in Past
  BY <1>1 DEF QInv, QueueKinds, Draft, Effects, Forms, Content, WithinLimits, GoodForms
<1>3. /\ DOMAIN queues = 1..n /\ n \in Nat /\ i \in 1..n
      /\ \A k \in 1..n : forms[k] \in Form
  <2>1. DOMAIN queues = 1..n /\ n \in Nat
    BY <1>2, LenProperties
  <2>2. \A k \in DOMAIN forms : forms[k] \in Form
    BY <1>2, LenProperties
  <2>3. QED
    BY <1>1, <1>2, <2>1, <2>2
<1>4. /\ rest \in Seq(Queue) /\ Len(rest) = n - 1 /\ DOMAIN rest = 1..(n - 1)
      /\ \A k \in 1..(n - 1) : rest[k] = IF k < i THEN queues[k] ELSE queues[k + 1]
  <2>1. /\ rest \in Seq(Queue) /\ Len(rest) = n - 1
        /\ \A k \in 1..(n - 1) : rest[k] = IF k < i THEN queues[k] ELSE queues[k + 1]
    BY <1>1, <1>2, WithoutIs
  <2>2. QED
    BY <2>1, LenProperties
<1>5. /\ queues' = qs /\ slurm' \in [memory : BOOLEAN, idle : {"unset", "positive", "negative"}]
      /\ (slurm'.memory => Memory /\ ~CannotSchedule(qs))
  BY <1>1, HoldKeeps
<1>6. moved \in BOOLEAN /\ (~moved => ~queuesPast.moved /\ i = n)
  <2>1. queuesPast.moved \in BOOLEAN
    BY <1>2 DEF Past
  <2> HIDE DEF n
  <2>2. i < n \/ i = n
    BY <1>3
  <2>3. QED
    BY <2>1, <2>2
<1> HIDE DEF moved
<1>7. past \in Past /\ past.moved = moved /\ past.removed /\ past.amisMoved
  BY <1>2, <1>6 DEF Past
<1> HIDE DEF past, n, rest
<1>8. \A k \in 1..(n - 1) : k \in 1..n /\ k + 1 \in 1..n
  BY <1>3
<1>9. \A k \in 1..(n - 1) : \E l \in 1..n : rest[k] = queues[l]
  BY <1>4, <1>8
<1>10. \A k \in 1..(n - 1) :
         /\ Sound(rest[k]) /\ Rendered(rest[k]) /\ forms[k] \in Form
         /\ SectionsFit => Proper(rest[k])
  BY <1>2, <1>3, <1>8, <1>9
<1>11. \A k \in 1..(n - 1) :
         /\ qs[k] = MountedAfter(forms[k], rest[k])
         /\ fs[k] = Kept(forms[k], rest[k])
  BY <1>4
<1>12. qs = [k \in 1..(n - 1) |-> qs[k]] /\ fs = [k \in 1..(n - 1) |-> fs[k]]
  BY <1>4
<1> HIDE DEF qs, fs
<1>13. \A k \in 1..(n - 1) :
         /\ Sound(qs[k]) /\ Rendered(qs[k])
         /\ DOMAIN qs[k].crs = DOMAIN rest[k].crs /\ Len(qs[k].crs) = Len(rest[k].crs)
         /\ qs[k].script = rest[k].script
         /\ SectionsFit => Proper(qs[k])
         /\ \A j \in DOMAIN rest[k].crs :
              j \in DOMAIN forms[k].crs => qs[k].crs[j] = rest[k].crs[j]
  BY <1>10, <1>11, MountedAfterFits
<1>14. \A k \in 1..(n - 1) :
         /\ fs[k] \in Form /\ DOMAIN fs[k].crs = DOMAIN rest[k].crs
         /\ fs[k].script = forms[k].script
         /\ \A j \in DOMAIN rest[k].crs :
              j \in DOMAIN forms[k].crs => fs[k].crs[j] = forms[k].crs[j]
  BY <1>10, <1>11, KeptFits
<1>15. WithinLimits(qs) /\ DOMAIN qs = 1..(n - 1)
  <2>1. \A k \in 1..(n - 1) :
          LET q == IF k < i THEN queues[k] ELSE queues[k + 1] IN
          qs[k] \in Queue /\ Len(qs[k].crs) = Len(q.crs) /\ DOMAIN qs[k].crs = DOMAIN q.crs
    BY <1>4, <1>13 DEF Sound
  <2>2. QED
    BY <1>1, <1>2, <1>12, <2>1, ShorterWithin DEF n
<1>16. GoodForms(qs, fs)
  <2>1. fs \in Seq(Form) /\ DOMAIN fs = 1..(n - 1)
    <3>1. n - 1 \in Nat
      BY <1>3
    <3>2. QED
      BY <1>12, <1>14, <3>1, SequenceIs
  <2>2. QED
    BY <1>13, <1>14, <1>15, <2>1 DEF GoodForms
<1>17. ASSUME ~moved PROVE \A k \in DOMAIN qs : Shown(qs[k], fs[k])
  <2>1. SUFFICES ASSUME NEW k \in 1..(n - 1) PROVE Shown(qs[k], fs[k])
    BY <1>15
  <2>2. k < i /\ k \in 1..n
    BY <1>3, <1>6, <1>17
  <2>3. rest[k] = queues[k] /\ Shown(queues[k], forms[k]) /\ DOMAIN forms[k].crs = DOMAIN rest[k].crs
    BY <1>2, <1>3, <1>4, <1>6, <1>17, <2>2
  <2>4. QED
    BY <1>13, <1>14, <2>3 DEF Shown
<1>18. flags' = flags /\ known' = known /\ QueueKinds'
  BY <1>1, <1>5, <1>7 DEF QInv, QueueKinds
<1>19. AmiIsShown'
  BY <1>1, <1>7 DEF AmiIsShown
<1>20. /\ \A k \in DOMAIN queues' : Sound(queues'[k]) /\ Rendered(queues'[k])
       /\ SectionsFit => \A k \in DOMAIN queues' : Proper(queues'[k])
  BY <1>5, <1>13, <1>15
<1>21. slurm'.memory => Memory /\ ~CannotSchedule(queues')
  BY <1>5
<1>22. onPage' /\ WithinLimits(queues') /\ GoodForms(queues', forms')
  BY <1>1, <1>5, <1>15, <1>16
<1>23. ~queuesPast'.moved => \A k \in DOMAIN queues' : Shown(queues'[k], forms'[k])
  BY <1>1, <1>5, <1>7, <1>17
<1>24. queuesPast'.removed
  BY <1>1, <1>7
<1>25. After
  BY <1>18, <1>19, <1>20, <1>21, <1>22, <1>23, <1>24 DEF After
<1>26. QED
  BY <1>25, AfterIsInv

\* What the wizard opens the page with.
LEMMA FirstQueueFits ==
  LET qs == <<NewQueue(1)>> IN
  /\ WithinLimits(qs) /\ QueuesApart(qs)
  /\ \A i \in DOMAIN qs : Sound(qs[i]) /\ Proper(qs[i]) /\ Apart(qs[i].crs)
<1> DEFINE q == NewQueue(1)
           qs == <<q>>
<1>1. /\ Sound(q) /\ Proper(q) /\ Apart(q.crs)
      /\ q.name = 1 /\ Len(q.crs) = 1 /\ DOMAIN q.crs = {1}
  BY NewQueueFits
<1>2. q \in Queue /\ Len(q.crs) \in CrPositions
  BY <1>1 DEF Sound
<1> HIDE DEF q
<1>3. qs \in Seq(Queue) /\ Len(qs) = 1 /\ DOMAIN qs = {1} /\ qs[1] = q
  BY <1>2
<1> HIDE DEF qs
<1>4. /\ MaxQueues \in Nat /\ MaxQueues # 0 /\ MaxPerCluster \in Nat /\ MaxPerCluster # 0
  BY QueuesAssumption DEF QueuesAssumption
<1>5. 1 \in QueuePositions
  BY <1>4 DEF QueuePositions
<1>6. TotalResources(qs) <= MaxPerCluster
  <2>1. PlacesOf(qs) = {<<1, 1>>}
    <3>1. \A p : p \in PlacesOf(qs) <=> \E i \in {1} : \E j \in {1} : p = <<i, j>>
      BY <1>1, <1>3, PlacesAre
    <3>2. QED
      BY <3>1
  <2>2. Cardinality({<<1, 1>>}) = 1
    BY FS_Singleton
  <2>3. TotalResources(qs) = 1
    BY <2>1, <2>2, PlacesAre
  <2>4. QED
    BY <1>4, <2>3
<1>7. WithinLimits(qs)
  BY <1>2, <1>3, <1>5, <1>6 DEF WithinLimits
<1>8. QueuesApart(qs)
  <2>1. 1 \notin {n \in Nat : n > 1}
    OBVIOUS
  <2>2. QED
    BY <1>1, <1>3, <2>1 DEF QueuesApart
<1>9. \A i \in DOMAIN qs : Sound(qs[i]) /\ Proper(qs[i]) /\ Apart(qs[i].crs)
  BY <1>1, <1>3
<1>10. QED
  BY <1>7, <1>8, <1>9 DEF qs, q

\* Settings and errors of a new draft.
LEMMA FreshTypes ==
  /\ NewSlurm \in [memory : BOOLEAN, idle : {"unset", "positive", "negative"}]
  /\ NewSlurm.memory = FALSE
  /\ NoQueueErrors \in [QueuePositions -> SUBSET (FieldErrors \cup AllTypeErrors)]
<1>1. /\ NewSlurm \in [memory : BOOLEAN, idle : {"unset", "positive", "negative"}]
      /\ NewSlurm.memory = FALSE
  BY DEF NewSlurm
<1>2. NoQueueErrors \in [QueuePositions -> SUBSET (FieldErrors \cup AllTypeErrors)]
  BY DEF NoQueueErrors
<1>3. QED
  BY <1>1, <1>2

\* A draft that is begun or loaded.
LEMMA DraftFits ==
  ASSUME flags \in FlagsOffered, NEW qs, NEW s, <<qs, s>> \in Drafts
  PROVE  /\ s \in [memory : BOOLEAN, idle : {"unset", "positive", "negative"}]
         /\ s.memory => Memory
         /\ WithinLimits(qs) /\ \A i \in DOMAIN qs : Sound(qs[i])
         /\ SectionsFit =>
              /\ \A i \in DOMAIN qs : Proper(qs[i]) /\ Apart(qs[i].crs)
              /\ QueuesApart(qs)
<1>1. CASE qs = <<NewQueue(1)>> /\ s = NewSlurm
  BY <1>1, FirstQueueFits, FreshTypes
<1>2. CASE /\ qs \in QueueSections /\ (Multi \/ OfOneType(qs))
           /\ s \in SlurmSections /\ (s.memory => Memory)
  <2>1. WithinLimits(qs) /\ (~Multi => OfOneType(qs))
    BY <1>2, QueuesAssumption DEF QueuesAssumption
  <2>2. ~Multi => SomeBefore33
    BY DEF Multi, SomeBefore33
  <2>3. \A i \in DOMAIN qs : qs[i] \in Queue /\ Len(qs[i].crs) \in CrPositions
    <3>1. qs \in Seq(Queue)
      BY <2>1 DEF WithinLimits
    <3>2. \A i \in DOMAIN qs : qs[i] \in Queue
      BY <3>1, LenProperties
    <3>3. QED
      BY <2>1, <3>2 DEF WithinLimits
  <2>4. ASSUME NEW i \in DOMAIN qs PROVE Sound(qs[i])
    <3>1. ASSUME ~Multi, NEW j \in DOMAIN qs[i].crs
          PROVE  (\E t \in InstanceTypes : qs[i].crs[j].types = {t}) /\ qs[i].crs[j].target = NoTarget
      BY <2>1, <3>1 DEF OfOneType
    <3>2. QED
      BY <2>3, <3>1 DEF Sound
  <2>5. ASSUME SectionsFit, NEW i \in DOMAIN qs PROVE Proper(qs[i]) /\ Apart(qs[i].crs)
    <3>1. \A j \in DOMAIN qs[i].crs :
            LET cr == qs[i].crs[j] IN
            /\ cr.efa => cr.types = {} \/ SupportEfa(cr.types)
            /\ Dynamic(cr.nodes) = cr.nodes.given
            /\ SomeBefore33 /\ OfOneType(qs) /\ cr.suffix \in InstanceTypes =>
                 cr.types = {cr.suffix}
            /\ \A l \in DOMAIN qs[i].crs : j # l => cr.suffix # qs[i].crs[l].suffix
            /\ cr.suffix \notin {n \in Nat : n > Len(qs[i].crs)}
      BY <1>2, <2>5 DEF SectionsFit
    <3>2. Proper(qs[i])
      BY <3>1 DEF Proper, ProperCr
    <3>3. Apart(qs[i].crs)
      BY <2>1, <2>2, <3>1 DEF Apart
    <3>4. QED
      BY <3>2, <3>3
  <2>6. SectionsFit => QueuesApart(qs)
    BY <1>2 DEF SectionsFit
  <2>7. s \in [memory : BOOLEAN, idle : {"unset", "positive", "negative"}]
    BY <1>2, QueuesAssumption DEF QueuesAssumption
  <2>8. QED
    BY <1>2, <2>1, <2>4, <2>5, <2>6, <2>7
<1>3. QED
  BY <1>1, <1>2 DEF Drafts

\* History starts with what the draft brings: whether a queue has a custom AMI.
LEMMA PastFits ==
  ASSUME NEW qs
  PROVE  /\ PastOf(qs) \in Past /\ PastOf(qs).moved = FALSE
         /\ PastOf(qs).amisMoved \/ \A i \in DOMAIN qs : ~qs[i].ami
<1> DEFINE b == \E i \in DOMAIN qs : qs[i].ami
<1>1. b \in BOOLEAN
  OBVIOUS
<1>2. b \/ \A i \in DOMAIN qs : ~qs[i].ami
  OBVIOUS
<1>3. PastOf(qs) = [moved |-> FALSE, removed |-> FALSE, renamed |-> FALSE, amisMoved |-> b]
  BY DEF PastOf
<1> HIDE DEF b
<1>4. QED
  BY <1>1, <1>2, <1>3 DEF Past

\* The invariant holds at the start.
LEMMA QueuesInitOK == QueuesInit => QInv
<1>1. SUFFICES ASSUME QueuesInit PROVE QInv
  OBVIOUS
<1>2. /\ flags \in FlagsOffered /\ onPage = FALSE
      /\ queues = <<NewQueue(1)>> /\ slurm = NewSlurm /\ amiEnabled = {}
      /\ forms = <<>> /\ idleError = FALSE /\ queueErrors = NoQueueErrors
      /\ queuesPast = PastOf(queues) /\ known = listed
  BY <1>1 DEF QueuesInit
<1>3. <<queues, NewSlurm>> \in Drafts
  BY <1>2 DEF Drafts
<1>4. /\ WithinLimits(queues) /\ \A i \in DOMAIN queues : Sound(queues[i])
      /\ SectionsFit =>
           /\ \A i \in DOMAIN queues : Proper(queues[i]) /\ Apart(queues[i].crs)
           /\ QueuesApart(queues)
  BY <1>2, <1>3, DraftFits
<1>5. /\ queuesPast \in Past
      /\ queuesPast.amisMoved \/ \A i \in DOMAIN queues : ~queues[i].ami
  BY <1>2, PastFits
<1>6. QueueKinds
  BY <1>2, <1>5, FreshTypes DEF QueueKinds
<1>7. Draft
  BY <1>2, <1>4 DEF Draft
<1>8. Effects
  BY <1>2, FreshTypes DEF Effects, MemoryFitsTypes
<1>9. Forms
  BY <1>2, <1>5 DEF Forms, AmiIsShown
<1>10. SectionsFit => Content
  BY <1>4 DEF Content
<1>11. QED
  BY <1>6, <1>7, <1>8, <1>9, <1>10 DEF QInv

\* Another draft is begun or loaded, and the marks of the last one stay.
LEMMA StartOverKeeps ==
  ASSUME QInv, NEW qs, NEW s, <<qs, s>> \in Drafts, StartOver(qs, s)
  PROVE  QInv'
<1> DEFINE a == PastOf(qs).amisMoved \/ queuesPast.amisMoved
<1>1. /\ onPage = FALSE /\ queues' = qs /\ slurm' = s /\ queueErrors' = NoQueueErrors
      /\ queuesPast' = [PastOf(qs) EXCEPT !.amisMoved = a]
      /\ UNCHANGED <<flags, listed, known, onPage, amiEnabled, forms, idleError>>
  BY DEF StartOver, QInv, QueueKinds
<1>2. flags \in FlagsOffered /\ queuesPast \in Past /\ forms = <<>>
  BY <1>1 DEF QInv, QueueKinds, Draft
<1>3. /\ s \in [memory : BOOLEAN, idle : {"unset", "positive", "negative"}]
      /\ s.memory => Memory
      /\ WithinLimits(qs) /\ \A i \in DOMAIN qs : Sound(qs[i])
      /\ SectionsFit =>
           /\ \A i \in DOMAIN qs : Proper(qs[i]) /\ Apart(qs[i].crs)
           /\ QueuesApart(qs)
  BY <1>2, DraftFits
<1>4. /\ PastOf(qs) \in Past
      /\ PastOf(qs).amisMoved \/ \A i \in DOMAIN qs : ~qs[i].ami
  BY PastFits
<1>5. a \in BOOLEAN /\ (a \/ \A i \in DOMAIN qs : ~qs[i].ami)
  BY <1>2, <1>4 DEF Past
<1> HIDE DEF a
<1>6. queuesPast' \in Past /\ queuesPast'.amisMoved = a
  BY <1>1, <1>4, <1>5 DEF Past
<1>7. flags' = flags /\ known' = known /\ QueueKinds'
  BY <1>1, <1>3, <1>6, FreshTypes DEF QInv, QueueKinds
<1>8. AmiIsShown'
  BY <1>1, <1>5, <1>6 DEF AmiIsShown
<1>9. After
  BY <1>1, <1>2, <1>3, <1>7, <1>8 DEF After
<1>10. QED
  BY <1>9, AfterIsInv

\* What the invariant says where the queues are left alone.
LEMMA Standing ==
  ASSUME QInv
  PROVE  /\ onPage \in BOOLEAN /\ idleError \in BOOLEAN
         /\ slurm \in [memory : BOOLEAN, idle : {"unset", "positive", "negative"}]
         /\ slurm.memory => Memory
         /\ onPage /\ slurm.memory => ~CannotSchedule(queues)
         /\ queueErrors \in [QueuePositions -> SUBSET (FieldErrors \cup AllTypeErrors)]
         /\ IF onPage THEN GoodForms(queues, forms) ELSE forms = <<>>
         /\ onPage /\ ~queuesPast.moved => \A i \in DOMAIN queues : Shown(queues[i], forms[i])
         /\ WithinLimits(queues) /\ known \subseteq listed
BY DEF QInv, QueueKinds, Draft, Effects, Forms, MemoryFitsTypes

\* Steps that leave the queues as they are: none at all, a check of a name, the
\* Slurm settings, Next and Back.
LEMMA StutterKeeps ==
  ASSUME QInv, UNCHANGED queuesVars
  PROVE  QInv'
<1>1. UNCHANGED <<flags, listed, known, onPage, queues, slurm, amiEnabled, forms, idleError,
                  queueErrors, queuesPast>>
  BY DEF queuesVars
<1>2. QED
  BY <1>1, Standing, StandKeeps

LEMMA CheckKeeps ==
  ASSUME QInv, NEW i, CheckQueue(i)
  PROVE  QInv'
<1>1. /\ onPage /\ i \in DOMAIN queues /\ Validate({i})
      /\ UNCHANGED <<flags, listed, known, onPage, queues, slurm, amiEnabled, forms, idleError, queuesPast>>
  BY DEF CheckQueue
<1>2. queueErrors' \in [QueuePositions -> SUBSET (FieldErrors \cup AllTypeErrors)]
  <2>1. WithinLimits(queues') /\ {i} \in SUBSET DOMAIN queues'
    BY <1>1, Standing
  <2>2. QED
    BY <1>1, <2>1, ErrorsTyped
<1>3. QED
  BY <1>1, <1>2, Standing, StandKeeps

LEMMA SlurmKeeps ==
  ASSUME QInv, SlurmSettings
  PROVE  QInv'
<1>1. CASE ToggleMemory
  <2> DEFINE m == ~slurm.memory
  <2>1. /\ Memory /\ ~CannotSchedule(queues) /\ slurm' = [slurm EXCEPT !.memory = m]
        /\ UNCHANGED <<flags, listed, known, onPage, queues, amiEnabled, forms, idleError, queueErrors, queuesPast>>
    BY <1>1 DEF ToggleMemory
  <2>2. m \in BOOLEAN
    OBVIOUS
  <2> HIDE DEF m
  <2>3. slurm' \in [memory : BOOLEAN, idle : {"unset", "positive", "negative"}]
    BY <2>1, <2>2, Standing
  <2>4. QED
    BY <2>1, <2>3, Standing, StandKeeps
<1>2. ASSUME NEW idle \in {"unset", "positive", "zero", "negative"}, SetIdleTime(idle)
      PROVE  QInv'
  <2> DEFINE t == IF idle = "zero" THEN "unset" ELSE idle
             e == idle \in {"zero", "negative"}
  <2>1. /\ slurm' = [slurm EXCEPT !.idle = t] /\ idleError' = e
        /\ UNCHANGED <<flags, listed, known, onPage, queues, amiEnabled, forms, queueErrors, queuesPast>>
    BY <1>2 DEF SetIdleTime
  <2>2. t \in {"unset", "positive", "negative"} /\ e \in BOOLEAN
    BY <1>2
  <2> HIDE DEF t, e
  <2>3. /\ slurm' \in [memory : BOOLEAN, idle : {"unset", "positive", "negative"}]
        /\ slurm'.memory = slurm.memory
    BY <2>1, <2>2, Standing
  <2>4. QED
    BY <2>1, <2>2, <2>3, Standing, StandKeeps
<1>3. QED
  BY <1>1, <1>2 DEF SlurmSettings

\* The steps of the wizard.
LEMMA WizardKeeps ==
  ASSUME QInv, Wizard
  PROVE  QInv'
<1>1. CASE ShowQueues
  BY <1>1, ShowKeeps
<1>2. CASE GoOn
  <2>1. /\ onPage /\ Validate(DOMAIN queues)
        /\ UNCHANGED <<flags, listed, queues, slurm, amiEnabled, queuesPast>>
        /\ \/ onPage' = FALSE /\ forms' = <<>> /\ idleError' = FALSE /\ known' = listed
           \/ UNCHANGED <<onPage, forms, idleError, known>>
    BY <1>2 DEF GoOn, Leave
  <2>2. queueErrors' \in [QueuePositions -> SUBSET (FieldErrors \cup AllTypeErrors)]
    <3>1. WithinLimits(queues') /\ DOMAIN queues \in SUBSET DOMAIN queues'
      BY <2>1, Standing
    <3>2. QED
      BY <2>1, <3>1, ErrorsTyped
  <2>3. CASE UNCHANGED <<onPage, forms, idleError, known>>
    BY <2>1, <2>2, <2>3, Standing, StandKeeps
  <2>4. CASE onPage' = FALSE /\ forms' = <<>> /\ idleError' = FALSE /\ known' = listed
    BY <2>1, <2>2, <2>4, Standing, StandKeeps
  <2>5. QED
    BY <2>1, <2>3, <2>4
<1>3. CASE GoBack
  <2>1. /\ onPage' = FALSE /\ forms' = <<>> /\ idleError' = FALSE /\ known' = listed
        /\ UNCHANGED <<flags, listed, queues, slurm, amiEnabled, queueErrors, queuesPast>>
    BY <1>3 DEF GoBack, Leave
  <2>2. QED
    BY <2>1, Standing, StandKeeps
<1>4. ASSUME NEW d \in Drafts, StartOver(d[1], d[2]) PROVE QInv'
  <2>1. d = <<d[1], d[2]>>
    BY DEF Drafts
  <2>2. QED
    BY <1>4, <2>1, StartOverKeeps
<1>5. QED
  BY <1>1, <1>2, <1>3, <1>4 DEF Wizard

\* The types listed change: a form that shows none still shows none it was offered.
LEMMA ListKeeps ==
  ASSUME QInv, TypesListed
  PROVE  QInv'
<1>1. PICK S \in SUBSET InstanceTypes :
        /\ listed' = S /\ known' = IF onPage THEN known \cap S ELSE S
        /\ UNCHANGED <<flags, onPage, queues, slurm, amiEnabled, forms, idleError, queueErrors,
                       queuesPast>>
  BY DEF TypesListed, ListTypes
<1>2. known' \subseteq listed' /\ (onPage => known' \subseteq known)
  BY <1>1
<1>3. QueueKinds'
  BY <1>1, <1>2 DEF QInv, QueueKinds
<1>4. Draft'
  BY <1>1 DEF QInv, Draft, WithinLimits, GoodForms, TotalResources, Sound, Multi
<1>5. Effects'
  BY <1>1 DEF QInv, Effects, Rendered, Wide, Fixed, MemoryFitsTypes, Memory, CannotSchedule,
              Multi, MemoryWithMany, ManyTypes
<1>6. Forms'
  BY <1>1, <1>2 DEF QInv, Forms, Shown, ShownCr, ShowsType, AmiIsShown, Multi
<1>7. SectionsFit => Content'
  BY <1>1 DEF QInv, Content, Proper, ProperCr, SupportEfa, Dynamic, OrZero, Apart, QueuesApart,
              Multi
<1>8. QED
  BY <1>3, <1>4, <1>5, <1>6, <1>7 DEF QInv

\* Every step keeps the invariant.
LEMMA QueuesKept ==
  ASSUME QInv, [QueuesNext]_queuesVars
  PROVE  QInv'
<1>1. CASE Capacities
  BY <1>1, CapacityKeeps DEF Capacities
<1>2. CASE Networks
  BY <1>2, NetworkKeeps, EfaKeeps, MultithreadingKeeps DEF Networks
<1>3. CASE TypeChoices
  BY <1>3, InstancesKeep, InstanceTypeKeeps DEF TypeChoices
<1>4. CASE ReservationsSet
  BY <1>4, ReservationKeeps DEF ReservationsSet
<1>5. CASE Scripts
  BY <1>5, ScriptKeeps, AmiKeeps DEF Scripts
<1>6. CASE NodeCounts
  BY <1>6, CountsKeep DEF NodeCounts
<1>7. CASE Names
  BY <1>7, CheckKeeps, RenameKeeps DEF Names
<1>8. CASE SlurmSettings
  BY <1>8, SlurmKeeps
<1>9. CASE Shape
  BY <1>9, AddQueueKeeps, RemoveQueueKeeps, AddResourceKeeps, RemoveResourceKeeps DEF Shape
<1>10. CASE Wizard
  BY <1>10, WizardKeeps
<1>11. CASE UNCHANGED queuesVars
  BY <1>11, StutterKeeps
<1>12. CASE TypesListed
  BY <1>12, ListKeeps
<1>13. QED
  BY <1>1, <1>2, <1>3, <1>4, <1>5, <1>6, <1>7, <1>8, <1>9, <1>10, <1>11, <1>12 DEF QueuesNext

\* So it holds throughout.
LEMMA QueuesInvariant == QueuesSpec => []QInv
<1>1. QueuesInit => QInv
  BY QueuesInitOK
<1>2. QInv /\ [QueuesNext]_queuesVars => QInv'
  BY QueuesKept
<1>3. QED
  BY <1>1, <1>2, PTL DEF QueuesSpec

\* Apart is what NamesDiffer says of a queue, and more: where types are single, two
\* compute resources of one name are of one type.
LEMMA ApartDiffer ==
  ASSUME NEW q, Sound(q), Apart(q.crs), NEW j \in DOMAIN q.crs, NEW l \in DOMAIN q.crs, j # l,
         Multi \/ q.crs[j].types # q.crs[l].types
  PROVE  q.crs[j].suffix # q.crs[l].suffix
<1>1. CASE Multi
  BY <1>1 DEF Apart
<1>2. CASE ~Multi
  <2>1. /\ q.crs[j].suffix \in InstanceTypes => q.crs[j].types = {q.crs[j].suffix}
        /\ q.crs[l].suffix \in InstanceTypes => q.crs[l].types = {q.crs[l].suffix}
        /\ q.crs[j].suffix \notin InstanceTypes => q.crs[j].suffix # q.crs[l].suffix
    BY <1>2 DEF Apart
  <2>2. QED
    BY <1>2, <2>1
<1>3. QED
  BY <1>1, <1>2

\* The type invariant is part of it.
LEMMA QueuesTyped ==
  ASSUME QInv
  PROVE  QueuesTypeOK
<1>1. /\ onPage \in BOOLEAN /\ idleError \in BOOLEAN /\ amiEnabled \subseteq QueuePositions
      /\ slurm \in [memory : BOOLEAN, idle : {"unset", "positive", "negative"}]
      /\ queueErrors \in [QueuePositions -> SUBSET (FieldErrors \cup AllTypeErrors)]
      /\ WithinLimits(queues) /\ \A i \in DOMAIN queues : Sound(queues[i])
  BY DEF QInv, QueueKinds, Draft
<1>2. ~Multi => OfOneType(queues)
  <2>1. ASSUME ~Multi, NEW i \in DOMAIN queues, NEW j \in DOMAIN queues[i].crs
        PROVE  /\ queues[i].crs[j].types \in {{t} : t \in InstanceTypes}
               /\ queues[i].crs[j].target = NoTarget
    BY <1>1, <2>1 DEF Sound
  <2>2. QED
    BY <2>1 DEF OfOneType
<1>3. /\ DOMAIN forms = IF onPage THEN DOMAIN queues ELSE {}
      /\ \A i \in DOMAIN forms : DOMAIN forms[i].crs = DOMAIN queues[i].crs
  <2>1. CASE onPage
    BY <2>1 DEF QInv, Draft, GoodForms
  <2>2. CASE ~onPage
    <3>1. forms = <<>>
      BY <2>2 DEF QInv, Draft
    <3>2. DOMAIN forms = {}
      BY <3>1
    <3>3. QED
      BY <2>2, <3>2
  <2>3. QED
    BY <2>1, <2>2
<1>4. QED
  BY <1>1, <1>2, <1>3 DEF QueuesTypeOK

\* The queues of the draft are ones a cluster can have, whatever controls of whichever
\* queue were used and in whatever order, if the section loaded was one.
THEOREM QueuesStayOK == SectionsFit => (QueuesSpec => []QueuesOK)
<1>1. SUFFICES ASSUME SectionsFit PROVE QueuesSpec => []QueuesOK
  OBVIOUS
<1>2. QInv => QueuesOK
  <2>1. SUFFICES ASSUME QInv PROVE QueuesOK
    OBVIOUS
  <2>2. /\ \A i \in DOMAIN queues : Sound(queues[i]) /\ Proper(queues[i])
        /\ onPage => \A i \in DOMAIN queues : Rendered(queues[i])
        /\ MemoryFitsTypes
    BY <1>1, <2>1 DEF QInv, Draft, Effects, Content
  <2>3. QueuesFit
    BY <2>2 DEF QueuesFit, Rendered, Proper, ProperCr
  <2>4. DynamicNodesKept
    BY <2>2 DEF DynamicNodesKept, Proper, ProperCr, Cr
  <2>5. NamesDiffer
    <3>1. SUFFICES ASSUME ~queuesPast.removed PROVE NamesDiffer
      BY DEF NamesDiffer
    <3>2. /\ \A i \in DOMAIN queues : Apart(queues[i].crs)
          /\ ~queuesPast.renamed => QueuesApart(queues)
      BY <1>1, <2>1, <3>1 DEF QInv, Content
    <3>3. ASSUME NEW i \in DOMAIN queues, NEW k \in DOMAIN queues, i # k, ~queuesPast.renamed
          PROVE  queues[i].name # queues[k].name
      BY <3>2, <3>3 DEF QueuesApart
    <3>4. ASSUME NEW i \in DOMAIN queues,
                 NEW j \in DOMAIN queues[i].crs, NEW l \in DOMAIN queues[i].crs, j # l,
                 Multi \/ Cr(i, j).types # Cr(i, l).types
          PROVE  Cr(i, j).suffix # Cr(i, l).suffix
      BY <2>2, <3>2, <3>4, ApartDiffer DEF Cr
    <3>5. QED
      BY <3>3, <3>4 DEF NamesDiffer
  <2>6. QED
    BY <2>1, <2>2, <2>3, <2>4, <2>5, QueuesTyped DEF QueuesOK
<1>3. QED
  BY <1>2, QueuesInvariant, PTL

\* The forms show the draft although they keep state of their own and are known by
\* position: until one moves, and an AMI until the marks may have moved.
THEOREM FormsStayInStep == QueuesSpec => []FormsInStep
<1>1. QInv => FormsInStep
  <2>1. SUFFICES ASSUME QInv PROVE FormsInStep
    OBVIOUS
  <2>2. /\ onPage /\ ~queuesPast.moved => \A i \in DOMAIN queues : Shown(queues[i], forms[i])
        /\ AmiIsShown
    BY <2>1 DEF QInv, Forms
  <2>3. FormsShowDraft /\ ReservedHasNoTypes
    BY <2>2 DEF FormsShowDraft, ReservedHasNoTypes, Shown, ShownCr, ShowsType, Cr
  <2>4. QED
    BY <2>2, <2>3 DEF FormsInStep
<1>2. QED
  BY <1>1, QueuesInvariant, PTL

\* What Next of the wizard writes at a position of the draft.
LEMMA GoOnWrites ==
  ASSUME QInv, GoOn
  PROVE  /\ onPage /\ queues' = queues
         /\ onPage' => ~Accepted(DOMAIN queues)
         /\ ~onPage' => Accepted(DOMAIN queues)
         /\ \A i \in DOMAIN queues : queueErrors'[i] = InvalidAt(i) \cup TypeErrors(i)
<1>1. /\ onPage /\ queues' = queues /\ Validate(DOMAIN queues)
      /\ IF Accepted(DOMAIN queues) THEN onPage' = FALSE ELSE onPage' = onPage
  BY DEF GoOn, Leave
<1>2. \A i \in DOMAIN queues : i \in QueuePositions
  BY <1>1, Here
<1>3. \A i \in DOMAIN queues : queueErrors'[i] = InvalidAt(i) \cup TypeErrors(i)
  BY <1>1, <1>2 DEF Validate
<1>4. QED
  BY <1>1, <1>3

\* The position at which the page is refused has an error in sight, or one of the
\* three reasons there is none.
LEMMA RefusedAt ==
  ASSUME QInv, GoOn, NEW i \in DOMAIN queues, ~queuesPast.moved,
         InvalidAt(i) # {} \/ Incompletes(queues'[i]) # {}
  PROVE  \/ \E e \in queueErrors'[i] : InSight(i, e)
         \/ queues[i].args /\ ~queues[i].script /\ ~forms[i].script
         \/ \E j \in DOMAIN queues[i].crs : Cr(i, j).target = [kind |-> ById, id |-> ""]
<1>1. /\ onPage /\ queues' = queues
      /\ queueErrors'[i] = InvalidAt(i) \cup TypeErrors(i)
  BY GoOnWrites
<1>2. /\ forms[i] \in Form /\ DOMAIN forms[i].crs = DOMAIN queues[i].crs
      /\ Shown(queues[i], forms[i]) /\ queues[i] \in Queue
  BY <1>1, Here
<1>3. ASSUME NEW e \in InvalidAt(i)
      PROVE  InSight(i, e) \/ (queues[i].args /\ ~queues[i].script /\ ~forms[i].script)
  <2>1. e[1] \in {"name", "subnet", "script", "customAmi"}
    BY <1>3 DEF InvalidAt, FieldErrors
  <2>2. e[1] = "script" => queues[i].args /\ ~queues[i].script
    BY <1>1, <1>3, <2>1 DEF InvalidAt
  <2>3. CASE e[1] = "script"
    BY <2>2, <2>3 DEF InSight
  <2>4. CASE e[1] # "script"
    BY <2>1, <2>4 DEF InSight
  <2>5. QED
    BY <2>3, <2>4
<1>4. ASSUME NEW j \in Incompletes(queues'[i])
      PROVE  InSight(i, <<"type", j>>) \/ Cr(i, j).target = [kind |-> ById, id |-> ""]
  <2>1. j \in DOMAIN queues[i].crs /\ Incomplete(queues[i], j)
    BY <1>1, <1>4 DEF Incompletes
  <2>2. j \in DOMAIN forms[i].crs /\ ShownCr(queues[i].crs[j], forms[i].crs[j])
    BY <1>2, <2>1 DEF Shown
  <2>3. CASE Multi /\ forms[i].crs[j].option = ById
    <3>1. queues[i].crs[j].target = [kind |-> ById, id |-> forms[i].crs[j].input]
      BY <2>2, <2>3 DEF ShownCr, ById
    <3>2. ~HasId(queues[i].crs[j].target)
      BY <2>1, <2>3 DEF Incomplete
    <3>3. /\ queues[i].crs[j].target.kind = ById
          /\ queues[i].crs[j].target.id = forms[i].crs[j].input
      BY <3>1
    <3>4. forms[i].crs[j].input = ""
      BY <3>2, <3>3 DEF HasId
    <3>5. QED
      BY <3>1, <3>4 DEF Cr
  <2>4. CASE ~(Multi /\ forms[i].crs[j].option = ById)
    <3>1. <<"type", j>>[1] = "type" /\ <<"type", j>>[2] = j
      OBVIOUS
    <3>2. QED
      BY <2>2, <2>4, <3>1 DEF InSight
  <2>5. QED
    BY <2>3, <2>4
<1>5. CASE InvalidAt(i) # {}
  BY <1>1, <1>3, <1>5
<1>6. CASE Incompletes(queues'[i]) # {}
  <2>1. PICK j \in Incompletes(queues'[i]) : TRUE
    BY <1>6
  <2>2. <<"type", j>> \in queueErrors'[i]
    BY <1>1, <1>6, <2>1 DEF TypeErrors
  <2>3. j \in DOMAIN queues[i].crs
    BY <1>1, <2>1 DEF Incompletes
  <2>4. QED
    BY <1>4, <2>1, <2>2, <2>3
<1>7. QED
  BY <1>5, <1>6

\* When queuesValidate refuses there is an error to be seen, but for the three cases
\* where there is none; and when it lets go on, none is left but of types.
THEOREM ErrorsStayInStep == QueuesSpec => ErrorsInStep
<1> DEFINE Explained ==
             \/ \E i \in DOMAIN queues : \E e \in queueErrors'[i] : InSight(i, e)
             \/ idleError \/ slurm.idle = "negative" \/ queuesPast.moved
             \/ \E i \in DOMAIN queues :
                  \/ queues[i].args /\ ~queues[i].script /\ ~forms[i].script
                  \/ \E j \in DOMAIN queues[i].crs :
                       Cr(i, j).target = [kind |-> ById, id |-> ""]
           Clean == \A i \in DOMAIN queues : queueErrors'[i] \subseteq AllTypeErrors
<1>1. QInv => [GoOn /\ onPage' => Explained]_queuesVars
  <2>1. SUFFICES ASSUME QInv, GoOn, onPage', ~queuesPast.moved, slurm.idle # "negative"
                 PROVE  \E i \in DOMAIN queues :
                          \/ \E e \in queueErrors'[i] : InSight(i, e)
                          \/ queues[i].args /\ ~queues[i].script /\ ~forms[i].script
                          \/ \E j \in DOMAIN queues[i].crs :
                               Cr(i, j).target = [kind |-> ById, id |-> ""]
    OBVIOUS
  <2>2. PICK i \in DOMAIN queues : InvalidAt(i) # {} \/ Incompletes(queues'[i]) # {}
    BY <2>1, GoOnWrites DEF Accepted, IdleValid
  <2>3. QED
    BY <2>1, <2>2, RefusedAt
<1>2. QInv => [GoOn /\ ~onPage' => Clean]_queuesVars
  <2>1. SUFFICES ASSUME QInv, GoOn, ~onPage', NEW i \in DOMAIN queues
                 PROVE  queueErrors'[i] \subseteq AllTypeErrors
    OBVIOUS
  <2>2. InvalidAt(i) = {} /\ Incompletes(queues'[i]) = {}
    BY <2>1, GoOnWrites DEF Accepted
  <2>3. queueErrors'[i] = TypeErrors(i)
    BY <2>1, <2>2, GoOnWrites
  <2>4. QED
    BY <2>2, <2>3 DEF TypeErrors
<1>3. QED
  BY <1>1, <1>2, QueuesInvariant, PTL DEF ErrorsInStep, RefusalIsExplained, AcceptedIsClean
=============================================================================
