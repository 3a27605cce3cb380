---------------------------- MODULE CatalogueProofs ----------------------------
(***************************************************************************)
(* Proofs about Catalogue for any number of companies, properties, uploads *)
(* and failures.                                                           *)
(***************************************************************************)
EXTENDS Catalogue, TLAPS

\* A save between its findOne and its write.
Holding == {"saving", "restoring", "detaching", "updating"}

\* A step of one request, whatever route it belongs to.
Step(r) == \/ CreateCompany(r) \/ FindCompany(r) \/ InsertProperty(r) \/ Remove(r)
           \/ StoreFiles(r) \/ FindProperty(r) \/ InsertMedia(r)
           \/ Load(r) \/ SaveLooks(r) \/ SaveUpdates(r) \/ SaveRestores(r)
           \/ SaveDetaches(r) \/ Fails(r)

LEMMA NextSteps ==
    ASSUME [Next]_vars
    PROVE  UNCHANGED vars \/ \E r \in Requests : Step(r)
BY DEF Next, Step, CreateProperty, UploadImages, UploadVideos, UploadLogo, Update, Save

\* Where a request is in which route, with what behind it.
PlaceOK ==
    \A r \in Requests :
        /\ pc[r] = "inserting" => IsProperty(r)
        /\ pc[r] \in {"listing", "adding"} =>
             Kind[r] \in Media /\ next[r] <= Count[r] /\ Files(r) \subseteq disk
        /\ pc[r] = "loading" => Kind[r] = "logo"
        /\ pc[r] \in Holding => Kind[r] \in Exclusive /\ copy[r].row \in Row
        /\ pc[r] \in {"loading"} \cup Holding /\ Kind[r] = "logo" => Files(r) \subseteq disk
        /\ pc[r] = "new" => next[r] = 1
        /\ pc[r] # "done" => answer[r] = "none" /\ r \notin applied

\* What refers to what is there.
RefsOK ==
    /\ \A a \in Requests : /\ Present(a) => a \in applied
                           /\ Present(a) /\ IsProperty(a) => Present(Parent[a])
                           /\ pc[a] \in Holding => Subject[a] \in applied
    /\ \A f \in listed : Present(Subject[f[1]])

LEMMA Subjects ==
    ASSUME NEW r \in Requests
    PROVE  /\ Subject[r] \in Requests /\ Kind[r] \in Kinds
           /\ Kind[r] \in {"newCompany", "newProperty"} => Subject[r] = r
           /\ Kind[r] \in Media => IsProperty(Subject[r])
           /\ IsProperty(r) => Parent[r] \in Requests
           /\ Count[r] \in Nat \ {0}
           /\ \A i : <<r, i>> \in Files(r) <=> i \in 1..Count[r]
BY CatalogueConstants DEF Files

LEMMA EditedIsRow ==
    ASSUME NEW r \in Requests, NEW row \in Row
    PROVE  /\ Edited(r, row) \in Row
           /\ Edited(r, row).logo \in {row.logo, r, Null}
           /\ Kind[r] # "logo" => Edited(r, row).logo \in {row.logo, Null} \/ r \notin Logos
<1>1. /\ DOMAIN Given(r) \subseteq Columns
      /\ \A k \in DOMAIN Given(r) : Given(r)[k] \in {r, Null}
  BY CatalogueConstants DEF Given, Columns
<1>2. DOMAIN row = Columns
  BY DEF Row
<1> QED
  BY <1>1, <1>2 DEF Edited, Over, Row, Columns, Logos

LEMMA EmptyIsRow == [k \in Columns |-> Null] \in Row
BY DEF Row

LEMMA NewRowIsRow ==
    ASSUME NEW r \in Requests, Kind[r] \in {"newCompany", "newProperty"}
    PROVE  NewRow(r) \in Row /\ NewRow(r).logo \in {r, Null}
<1>1. NewRow(r) = Edited(r, [k \in Columns |-> Null])
  BY DEF NewRow, Edited, Given
<1> QED
  BY <1>1, EmptyIsRow, EditedIsRow DEF Columns

\* The row an UPDATE leaves.
Updated(r) == [k \in Columns |-> IF k \in dirty[r] THEN copy[r].row[k]
                                 ELSE rows[Subject[r]][k]]

LEMMA UpdatedIsRow ==
    ASSUME NEW r \in Requests, copy[r].row \in Row, rows[Subject[r]] \in Row
    PROVE  /\ Updated(r) \in Row
           /\ Updated(r).logo \in {copy[r].row.logo, rows[Subject[r]].logo}
BY DEF Updated, Row, Columns

\* How a step changes the table.
LEMMA TableSteps ==
    ASSUME TypeOK, PlaceOK, NEW r \in Requests, Step(r)
    PROVE  \/ UNCHANGED rows
           \/ /\ pc[r] \in {"new", "inserting"} /\ Kind[r] \in {"newCompany", "newProperty"}
              /\ IsProperty(r) => Present(Parent[r])
              /\ rows' = [rows EXCEPT ![r] = NewRow(r)] /\ r \in applied'
           \/ /\ Remove(r) /\ ~Referred(Subject[r])
              /\ rows' = [rows EXCEPT ![Subject[r]] = NoRow] /\ r \in applied'
           \/ /\ pc[r] = "updating" /\ Present(Subject[r])
              /\ rows' = [rows EXCEPT ![Subject[r]] = Updated(r)]
           \/ /\ pc[r] = "restoring" /\ ~Present(Subject[r])
              /\ IsProperty(Subject[r]) => Present(Parent[Subject[r]])
              /\ rows' = [rows EXCEPT ![Subject[r]] = copy[r].row]
BY DEF Step, CreateCompany, FindCompany, InsertProperty, Remove, StoreFiles,
       FindProperty, InsertMedia, Load, SaveLooks, SaveUpdates, SaveRestores,
       SaveDetaches, Fails, MayStart, Updated, PlaceOK,
       IsProperty, db, Written

\* What a step leaves alone.
LEMMA OthersKept ==
    ASSUME TypeOK, NEW r \in Requests, Step(r)
    PROVE  /\ \A q \in Requests \ {r} :
                /\ pc'[q] = pc[q] /\ next'[q] = next[q] /\ copy'[q] = copy[q]
                /\ dirty'[q] = dirty[q] /\ answer'[q] = answer[q]
           /\ listed \subseteq listed' /\ disk \subseteq disk' /\ applied \subseteq applied'
           /\ applied' \subseteq applied \cup {r}
           /\ pc[r] # "done"
<1> USE DEF Goto, Reply, End, Break, Forget, Written, db, work, TypeOK
<1>1. CASE CreateCompany(r)
  BY <1>1 DEF CreateCompany, MayStart
<1>2. CASE FindCompany(r)
  BY <1>2 DEF FindCompany, MayStart
<1>3. CASE InsertProperty(r)
  BY <1>3 DEF InsertProperty
<1>4. CASE Remove(r)
  BY <1>4 DEF Remove, MayStart
<1>5. CASE StoreFiles(r)
  BY <1>5 DEF StoreFiles, MayStart
<1>6. CASE FindProperty(r)
  BY <1>6 DEF FindProperty
<1>7. CASE InsertMedia(r)
  BY <1>7 DEF InsertMedia
<1>8. CASE Load(r)
  BY <1>8 DEF Load, MayStart
<1>9. CASE SaveLooks(r)
  BY <1>9 DEF SaveLooks
<1>10. CASE SaveUpdates(r)
  BY <1>10 DEF SaveUpdates
<1>11. CASE SaveRestores(r)
  BY <1>11 DEF SaveRestores
<1>12. CASE SaveDetaches(r)
  BY <1>12 DEF SaveDetaches
<1>13. CASE Fails(r)
  BY <1>13 DEF Fails
<1> QED
  BY <1>1, <1>2, <1>3, <1>4, <1>5, <1>6, <1>7, <1>8,
     <1>9, <1>10, <1>11, <1>12, <1>13 DEF Step

LEMMA RowsStep ==
    ASSUME TypeOK, PlaceOK, NEW r \in Requests, Step(r)
    PROVE  /\ rows' \in [Requests -> Row \cup {NoRow}]
           /\ \A a \in Requests : Present(a)' => Subject[a] = a
<1> USE CatalogueConstants DEF Present
<1>0. Subject[r] \in Requests /\ Subject[Subject[r]] = Subject[r]
  OBVIOUS
<1>1. CASE UNCHANGED rows
  BY <1>1 DEF TypeOK
<1>2. CASE /\ Kind[r] \in {"newCompany", "newProperty"}
           /\ rows' = [rows EXCEPT ![r] = NewRow(r)]
  BY <1>2, NewRowIsRow DEF TypeOK
<1>3. CASE rows' = [rows EXCEPT ![Subject[r]] = NoRow]
  BY <1>0, <1>3 DEF TypeOK
<1>4. CASE /\ pc[r] = "updating" /\ Present(Subject[r])
           /\ rows' = [rows EXCEPT ![Subject[r]] = Updated(r)]
  <2>1. Updated(r) \in Row
    BY <1>0, <1>4, UpdatedIsRow DEF PlaceOK, Holding, TypeOK
  <2> QED
    BY <1>0, <1>4, <2>1 DEF TypeOK
<1>5. CASE /\ pc[r] = "restoring"
           /\ rows' = [rows EXCEPT ![Subject[r]] = copy[r].row]
  BY <1>0, <1>5 DEF TypeOK, PlaceOK, Holding
<1> QED
  BY <1>1, <1>2, <1>3, <1>4, <1>5, TableSteps

\* How a step changes an object in work.
LEMMA ObjectSteps ==
    ASSUME TypeOK, NEW r \in Requests, Step(r)
    PROVE  \/ UNCHANGED copy
           \/ copy' = [copy EXCEPT ![r] = NoObject]
           \/ /\ Load(r) /\ Present(Subject[r]) /\ pc'[r] = "saving"
              /\ copy' = [copy EXCEPT ![r] = Object(Edited(r, rows[Subject[r]]),
                                          ImagesOf(Subject[r]))]
BY DEF Step, CreateCompany, FindCompany, InsertProperty, Remove, StoreFiles,
       FindProperty, InsertMedia, Load, SaveLooks, SaveUpdates, SaveRestores,
       SaveDetaches, Fails, Forget, work, Goto, TypeOK

LEMMA ObjectsStep ==
    ASSUME TypeOK, NEW r \in Requests, Step(r)
    PROVE  copy' \in [Requests -> Objects]
<1>0. copy \in [Requests -> Objects]
  BY DEF TypeOK
<1>1. \A row \in Row \cup {NoRow}, images \in SUBSET MediaFiles :
        Object(row, images) \in Objects
  BY DEF Object, Objects
<1>2. NoObject \in Objects
  BY <1>1 DEF NoObject
<1>3. /\ Subject[r] \in Requests
      /\ ImagesOf(Subject[r]) \in SUBSET MediaFiles
  BY CatalogueConstants DEF TypeOK, ImagesOf
<1>5. Present(Subject[r]) =>
        Object(Edited(r, rows[Subject[r]]), ImagesOf(Subject[r])) \in Objects
  <2> SUFFICES ASSUME Present(Subject[r])
               PROVE  Edited(r, rows[Subject[r]]) \in Row
    BY <1>1, <1>3
  <2> QED
    BY <1>3, EditedIsRow DEF Present, TypeOK
<1> QED
  BY <1>0, <1>2, <1>5, ObjectSteps

LEMMA TypeStep ==
    ASSUME TypeOK, PlaceOK, NEW r \in Requests, Step(r)
    PROVE  TypeOK'
<1> DEFINE Stores == /\ listed \subseteq MediaFiles
                     /\ disk \subseteq UNION {Files(q) : q \in Requests}
                     /\ next \in [Requests -> Nat]
                     /\ \A q \in Requests : next[q] \in 1..(Count[q] + 1)
           Control == /\ pc \in [Requests -> {"new", "inserting", "listing", "adding",
                                    "loading", "saving", "restoring", "detaching",
                                    "updating", "done"}]
                      /\ dirty \in [Requests -> SUBSET Columns]
                      /\ answer \in [Requests -> {"none", "ok", "refused", "error"}]
                      /\ faults \in 0..MaxFaults
<1>0. Stores /\ Control
  BY DEF TypeOK
<1>1. Stores'
  <2>1. CASE InsertMedia(r)
    <3>1. /\ Kind[r] \in Media /\ next[r] <= Count[r] /\ next[r] \in 1..(Count[r] + 1)
          /\ Count[r] \in Nat
      BY <2>1, <1>0, CatalogueConstants DEF InsertMedia, PlaceOK
    <3>2. <<r, next[r]>> \in MediaFiles
      BY <3>1 DEF MediaFiles, Files
    <3>3. /\ listed' \subseteq listed \cup {<<r, next[r]>>}
          /\ next' = next \/ next' = [next EXCEPT ![r] = next[r] + 1]
          /\ UNCHANGED disk
      BY <2>1 DEF InsertMedia
    <3>4. next' \in [Requests -> Nat] /\ \A q \in Requests : next'[q] \in 1..(Count[q] + 1)
      BY <1>0, <3>1, <3>3
    <3> HIDE DEF MediaFiles, Files
    <3> QED
      BY <1>0, <3>2, <3>3, <3>4
  <2>2. CASE StoreFiles(r)
    BY <1>0, <2>2 DEF StoreFiles, db, work
  <2>3. CASE ~(InsertMedia(r) \/ StoreFiles(r))
    <3>1. UNCHANGED <<listed, disk, next>>
      BY <2>3 DEF Step, CreateCompany, FindCompany, InsertProperty, Remove,
         FindProperty, Load, SaveLooks, SaveUpdates, SaveRestores,
         SaveDetaches, Fails, db, work, Forget
    <3> QED
      BY <1>0, <3>1
  <2> QED
    BY <2>1, <2>2, <2>3
<1>2. Control'
  <2> USE DEF Goto, Reply, End, Break, Forget, Written, work
  <2>1. CASE CreateCompany(r) \/ FindCompany(r) \/ InsertProperty(r) \/ Remove(r)
    BY <1>0, <2>1, CatalogueConstants DEF CreateCompany, FindCompany, InsertProperty, Remove
  <2>2. CASE StoreFiles(r) \/ FindProperty(r) \/ InsertMedia(r)
    BY <1>0, <2>2, CatalogueConstants DEF StoreFiles, FindProperty, InsertMedia
  <2>3. CASE Load(r) \/ SaveLooks(r)
    BY <1>0, <2>3 DEF Load, SaveLooks
  <2>4. CASE SaveUpdates(r) \/ SaveRestores(r) \/ SaveDetaches(r) \/ Fails(r)
    BY <1>0, <2>4, CatalogueConstants DEF SaveUpdates, SaveRestores, SaveDetaches, Fails
  <2> QED
    BY <2>1, <2>2, <2>3, <2>4 DEF Step
<1>3. /\ copy' \in [Requests -> Objects]
      /\ rows' \in [Requests -> Row \cup {NoRow}]
      /\ \A a \in Requests : Present(a)' => Subject[a] = a
  BY ObjectsStep, RowsStep
<1>4. applied' \subseteq Requests
  BY OthersKept DEF TypeOK
<1> QED
  BY <1>1, <1>2, <1>3, <1>4 DEF TypeOK, Present

LEMMA PlaceStep ==
    ASSUME TypeOK, PlaceOK, NEW r \in Requests, Step(r)
    PROVE  PlaceOK'
<1> DEFINE At(q) ==
      /\ pc[q] = "inserting" => IsProperty(q)
      /\ pc[q] \in {"listing", "adding"} =>
           Kind[q] \in Media /\ next[q] <= Count[q] /\ Files(q) \subseteq disk
      /\ pc[q] = "loading" => Kind[q] = "logo"
      /\ pc[q] \in Holding => Kind[q] \in Exclusive /\ copy[q].row \in Row
      /\ pc[q] \in {"loading"} \cup Holding /\ Kind[q] = "logo" => Files(q) \subseteq disk
      /\ pc[q] = "new" => next[q] = 1
      /\ pc[q] # "done" => answer[q] = "none" /\ q \notin applied
<1>0. \A q \in Requests : At(q)
  BY DEF PlaceOK
<1>k. disk \subseteq disk'
  BY OthersKept
<1>1. ASSUME NEW q \in Requests \ {r} PROVE At(q)'
  <2>1. /\ pc'[q] = pc[q] /\ next'[q] = next[q] /\ copy'[q] = copy[q]
        /\ answer'[q] = answer[q] /\ (q \in applied' => q \in applied)
    BY OthersKept
  <2> QED
    BY <1>0, <1>k, <2>1, Subjects
<1>2. At(r)'
  <2> USE <1>0, CatalogueConstants
      DEF Goto, Reply, End, Break, Forget, Written, db, work, TypeOK, Holding
  <2>1. CASE CreateCompany(r) \/ FindCompany(r) \/ InsertProperty(r) \/ Remove(r)
    BY <2>1 DEF CreateCompany, FindCompany, InsertProperty, Remove, MayStart
  <2>2. CASE StoreFiles(r)
    <3>1. 1 <= Count[r]
      OBVIOUS
    <3> QED
      BY <2>2, <3>1 DEF StoreFiles, MayStart, Media
  <2>3. CASE FindProperty(r)
    BY <2>3 DEF FindProperty
  <2>4. CASE InsertMedia(r)
    <3>1. next[r] \in Nat /\ Count[r] \in Nat /\ r \notin applied /\ Kind[r] \in Media
      BY <2>4 DEF InsertMedia
    <3>2. /\ applied' = applied /\ disk' = disk
          /\ \/ pc'[r] = "done"
             \/ pc'[r] = "listing" /\ next[r] < Count[r] /\ next'[r] = next[r] + 1
                /\ answer'[r] = answer[r]
      BY <2>4 DEF InsertMedia
    <3>3. answer[r] = "none" /\ Files(r) \subseteq disk
      BY <2>4 DEF InsertMedia
    <3>4. pc'[r] = "listing" => next'[r] <= Count[r]
      BY <3>1, <3>2
    <3> QED
      BY <3>1, <3>2, <3>3, <3>4
  <2>5. CASE Load(r)
    <3>1. Present(Subject[r]) => Edited(r, rows[Subject[r]]) \in Row
      BY EditedIsRow DEF Present
    <3>2. Kind[r] \in Exclusive
      BY <2>5 DEF Load, Exclusive
    <3>3. /\ disk' = disk /\ applied' = applied /\ pc'[r] \in {"saving", "done"}
          /\ pc'[r] = "saving" => /\ copy'[r].row = Edited(r, rows[Subject[r]])
                                  /\ Present(Subject[r])
                                  /\ answer'[r] = answer[r]
      BY <2>5 DEF Load, Object
    <3>4. Kind[r] = "logo" /\ pc'[r] = "saving" => Files(r) \subseteq disk
      BY <2>5 DEF Load
    <3>5. r \notin applied /\ answer[r] = "none"
      BY <2>5 DEF Load, MayStart
    <3> QED
      BY <3>1, <3>2, <3>3, <3>4, <3>5
  <2>6. CASE SaveLooks(r)
    BY <2>6 DEF SaveLooks
  <2>7. CASE SaveUpdates(r) \/ SaveRestores(r) \/ SaveDetaches(r) \/ Fails(r)
    <3>1. pc'[r] = "done"
      BY <2>7 DEF SaveUpdates, SaveRestores, SaveDetaches, Fails
    <3> QED
      BY <3>1
  <2> QED
    BY <2>1, <2>2, <2>3, <2>4, <2>5, <2>6, <2>7 DEF Step
<1>3. \A q \in Requests : At(q)'
  BY <1>1, <1>2
<1> QED
  BY <1>3 DEF PlaceOK


\* What is removed is referred to by nothing, so what refers is kept.
LEMMA RefsStep ==
    ASSUME TypeOK, PlaceOK, RefsOK, NEW r \in Requests, Step(r)
    PROVE  RefsOK'
<1> DEFINE a == Subject[r]
<1>0. a \in Requests /\ Subject[a] = a
  BY CatalogueConstants
<1>1. \A b \in Requests : IsProperty(b) => Parent[b] \in Requests
  BY CatalogueConstants
\* New references are to what is there.
<1>2. \A f \in listed' \ listed : Present(Subject[f[1]]) /\ rows' = rows
  BY DEF Step, CreateCompany, FindCompany, InsertProperty, Remove, StoreFiles,
       FindProperty, InsertMedia, Load, SaveLooks, SaveUpdates, SaveRestores,
       SaveDetaches, Fails, db
<1>5. \A f \in listed' : Present(Subject[f[1]])
  BY <1>2 DEF RefsOK
\* A row that appears has its company.
<1>6. ASSUME NEW c \in Requests, Present(c)', ~Present(c)
      PROVE  /\ c \in applied' /\ (IsProperty(c) => Present(Parent[c]))
             /\ \A b \in Requests : Present(b) => Present(b)'
  <2>1. CASE /\ IsProperty(r) => Present(Parent[r])
             /\ rows' = [rows EXCEPT ![r] = NewRow(r)] /\ r \in applied'
    <3>1. c = r /\ \A b \in Requests \ {c} : rows'[b] = rows[b]
      BY <1>6, <2>1 DEF TypeOK, Present
    <3> QED
      BY <1>6, <2>1, <3>1 DEF Present
  <2>2. CASE /\ pc[r] = "restoring"
             /\ IsProperty(a) => Present(Parent[a])
             /\ rows' = [rows EXCEPT ![a] = copy[r].row]
    <3>1. c = a /\ \A b \in Requests \ {c} : rows'[b] = rows[b]
      BY <1>0, <1>6, <2>2 DEF TypeOK, Present
    <3>2. a \in applied
      BY <2>2 DEF RefsOK, Holding
    <3> QED
      BY <1>6, <2>2, <3>1, <3>2, OthersKept DEF Present
  <2>3. CASE UNCHANGED rows
    BY <1>6, <2>3 DEF Present
  <2>4. CASE rows' = [rows EXCEPT ![a] = NoRow]
    BY <1>0, <1>6, <2>4 DEF TypeOK, Present
  <2>5. CASE Present(a) /\ rows' = [rows EXCEPT ![a] = Updated(r)]
    BY <1>0, <1>6, <2>5 DEF TypeOK, Present
  <2> QED
    BY <2>1, <2>2, <2>3, <2>4, <2>5, TableSteps
\* One that goes is referred to by nothing.
<1>7. ASSUME NEW c \in Requests, Present(c), ~Present(c)'
      PROVE  /\ ~Referred(c) /\ UNCHANGED listed
             /\ \A b \in Requests : Present(b)' => Present(b)
  <2>1. CASE Remove(r) /\ ~Referred(a) /\ rows' = [rows EXCEPT ![a] = NoRow]
    <3>1. c = a
      BY <1>0, <1>7, <2>1 DEF TypeOK, Present
    <3> QED
      BY <1>0, <2>1, <3>1 DEF TypeOK, Present, Remove
  <2>2. CASE rows' = [rows EXCEPT ![r] = NewRow(r)]
    BY <1>7, <2>2, NewRowIsRow, CatalogueConstants DEF TypeOK, Present
  <2>3. CASE pc[r] = "restoring" /\ rows' = [rows EXCEPT ![a] = copy[r].row]
    BY <1>0, <1>7, <2>3, CatalogueConstants DEF TypeOK, Present, PlaceOK, Holding
  <2>4. CASE /\ pc[r] = "updating" /\ Present(a)
             /\ rows' = [rows EXCEPT ![a] = Updated(r)]
    <3>1. Updated(r) \in Row
      BY <1>0, <2>4, UpdatedIsRow DEF TypeOK, Present, PlaceOK, Holding
    <3> QED
      BY <1>0, <1>7, <2>4, <3>1, CatalogueConstants DEF TypeOK, Present
  <2> QED
    BY <1>7, <2>1, <2>2, <2>3, <2>4, TableSteps DEF Present
<1>8. ASSUME NEW c \in Requests, Present(c)', IsProperty(c) PROVE Present(Parent[c])'
  <2>1. CASE Present(c)
    <3>1. Present(Parent[c]) /\ Parent[c] \in Requests
      BY <1>1, <1>8, <2>1 DEF RefsOK
    <3>2. Referred(Parent[c])
      BY <1>8, <2>1 DEF Referred
    <3> QED
      BY <1>7, <3>1, <3>2
  <2>2. CASE ~Present(c)
    BY <1>1, <1>6, <1>8, <2>2
  <2> QED
    BY <2>1, <2>2
<1>10. \A f \in listed' : Present(Subject[f[1]])'
  <2>1. \A f \in listed' : f[1] \in Requests
    BY TypeStep DEF TypeOK, MediaFiles, Files
  <2>2. \A f \in listed' : Subject[f[1]] \in Requests
    BY <2>1, CatalogueConstants
  <2> QED
    BY <1>5, <1>7, <2>2 DEF Referred
<1>11. \A b \in Requests : Present(b)' => b \in applied'
  BY <1>6, OthersKept DEF RefsOK
<1>12. \A b \in Requests : pc'[b] \in Holding => Subject[b] \in applied'
  <2>1. ASSUME NEW b \in Requests \ {r}, pc'[b] \in Holding PROVE Subject[b] \in applied'
    BY <2>1, OthersKept DEF RefsOK
  <2>2. ASSUME pc'[r] \in Holding PROVE pc[r] \in Holding \/ Present(a)
    BY <2>2 DEF Step, CreateCompany, FindCompany, InsertProperty, Remove, StoreFiles,
       FindProperty, InsertMedia, Load, SaveLooks, SaveUpdates, SaveRestores,
       SaveDetaches, Fails, Goto, End, Reply, Break,
       Written, TypeOK, Holding
  <2> QED
    BY <1>0, <2>1, <2>2, OthersKept DEF RefsOK
<1> QED
  BY <1>8, <1>10, <1>11, <1>12 DEF RefsOK

-----------------------------------------------------------------------------
(* Answers.                                                                *)

\* The files of an upload that are listed are those it has passed, and while
\* there is one the property stays: the upload is not refused any more.
UploadsOK ==
    \A r \in Requests : Kind[r] \in Media =>
        /\ \A i \in 1..Count[r] : <<r, i>> \in listed <=> i < next[r]
        /\ answer[r] = "ok" => next[r] = Count[r] + 1
        /\ answer[r] = "refused" => next[r] = 1

OthersOK ==
    \A r \in Requests : Kind[r] \notin Media =>
        /\ answer[r] = "ok" => r \in applied
        /\ answer[r] = "refused" => r \notin applied

\* How a step changes what is listed.
LEMMA ListSteps ==
    ASSUME NEW r \in Requests, Step(r)
    PROVE  \/ UNCHANGED <<listed, next>>
           \/ /\ InsertMedia(r) /\ Present(Subject[r])
              /\ listed' = listed \cup {<<r, next[r]>>}
              /\ next' = [next EXCEPT ![r] = next[r] + 1]
BY DEF Step, CreateCompany, FindCompany, InsertProperty, Remove, StoreFiles,
       FindProperty, InsertMedia, Load, SaveLooks, SaveUpdates, SaveRestores,
       SaveDetaches, Fails, db, work, Forget

\* What a step tells its client.
LEMMA AnswerSteps ==
    ASSUME TypeOK, PlaceOK, NEW r \in Requests, Step(r)
    PROVE  /\ answer'[r] = "ok" =>
                r \in applied' \/ (InsertMedia(r) /\ Present(Subject[r]) /\ next[r] = Count[r])
           /\ answer'[r] = "refused" =>
                /\ applied' = applied /\ r \notin applied
                /\ listed' = listed /\ next' = next
                /\ Kind[r] \in Media => next[r] = 1 \/ ~Present(Subject[r])
<1> USE DEF Goto, Reply, End, Break, Forget, Written, TypeOK, PlaceOK, db, work
<1>1. CASE CreateCompany(r) \/ FindCompany(r) \/ InsertProperty(r) \/ Remove(r)
  BY <1>1 DEF CreateCompany, FindCompany, InsertProperty, Remove, MayStart, Media, IsProperty
<1>2. CASE StoreFiles(r)
  BY <1>2 DEF StoreFiles, MayStart
<1>3. CASE FindProperty(r)
  BY <1>3 DEF FindProperty
<1>4. CASE InsertMedia(r)
  BY <1>4 DEF InsertMedia
<1>5. CASE Load(r)
  BY <1>5 DEF Load, MayStart, Media
<1>6. CASE SaveLooks(r) \/ SaveUpdates(r)
  BY <1>6 DEF SaveLooks, SaveUpdates
<1>7. CASE SaveRestores(r) \/ SaveDetaches(r)
  BY <1>7 DEF SaveRestores, SaveDetaches
<1>8. CASE Fails(r)
  BY <1>8 DEF Fails
<1> QED
  BY <1>1, <1>2, <1>3, <1>4, <1>5, <1>6, <1>7, <1>8 DEF Step

LEMMA UploadsStep ==
    ASSUME TypeOK, PlaceOK, RefsOK, UploadsOK, NEW r \in Requests, Step(r)
    PROVE  UploadsOK'
<1> DEFINE Shown(q) == \A i \in 1..Count[q] : <<q, i>> \in listed <=> i < next[q]
<1>1. \A q \in Requests : Kind[q] \in Media => Shown(q)
  BY DEF UploadsOK
<1>2. ASSUME NEW q \in Requests, Kind[q] \in Media PROVE Shown(q)'
  <2>1. CASE UNCHANGED <<listed, next>>
    BY <1>1, <1>2, <2>1
  <2>2. CASE /\ InsertMedia(r)
             /\ listed' = listed \cup {<<r, next[r]>>}
             /\ next' = [next EXCEPT ![r] = next[r] + 1]
    <3>1. next[r] \in Nat /\ Count[q] \in Nat
      BY CatalogueConstants DEF TypeOK
    <3>2. CASE q = r
      <4>1. \A i : <<r, i>> \in listed' <=> <<r, i>> \in listed \/ i = next[r]
        BY <2>2
      <4>2. next'[r] = next[r] + 1
        BY <2>2 DEF TypeOK
      <4> QED
        BY <1>1, <1>2, <3>1, <3>2, <4>1, <4>2
    <3>3. CASE q # r
      <4>1. \A i : <<q, i>> \in listed' <=> <<q, i>> \in listed
        BY <2>2, <3>3
      <4>2. next'[q] = next[q]
        BY <2>2, <3>3 DEF TypeOK
      <4> QED
        BY <1>1, <1>2, <4>1, <4>2
    <3> QED
      BY <3>2, <3>3
  <2> QED
    BY <2>1, <2>2, ListSteps
<1>3. ASSUME NEW q \in Requests, Kind[q] \in Media
      PROVE  /\ answer'[q] = "ok" => next'[q] = Count[q] + 1
             /\ answer'[q] = "refused" => next'[q] = 1
  <2>1. CASE q # r
    BY <1>3, <2>1, OthersKept DEF UploadsOK
  <2>2. CASE q = r
    <3>1. ASSUME answer'[r] = "ok" PROVE next'[r] = Count[r] + 1
      <4>1. r \notin applied'
        BY <1>3, <2>2 DEF Step, CreateCompany, FindCompany, InsertProperty, Remove, StoreFiles,
          FindProperty, InsertMedia, Load, SaveLooks, SaveUpdates, SaveRestores,
          SaveDetaches, Fails, PlaceOK, Holding, Media,
          Exclusive, IsProperty, MayStart
      <4>2. InsertMedia(r) /\ Present(Subject[r]) /\ next[r] = Count[r]
        BY <3>1, <4>1, AnswerSteps
      <4> QED
        BY <4>2 DEF InsertMedia, TypeOK
    <3>2. ASSUME answer'[r] = "refused" PROVE next'[r] = 1
      <4>1. next'[r] = next[r] /\ (next[r] = 1 \/ ~Present(Subject[r]))
        BY <1>3, <2>2, <3>2, AnswerSteps
      <4>2. ASSUME next[r] # 1 PROVE Present(Subject[r])
        <5>1. next[r] \in 1..(Count[r] + 1) /\ Count[r] \in Nat \ {0}
          BY CatalogueConstants DEF TypeOK
        <5>2. <<r, 1>> \in listed
          BY <1>1, <1>3, <2>2, <4>2, <5>1
        <5> QED
          BY <5>2 DEF RefsOK
      <4> QED
        BY <4>1, <4>2
    <3> QED
      BY <2>2, <3>1, <3>2
  <2> QED
    BY <2>1, <2>2
<1> QED
  BY <1>2, <1>3 DEF UploadsOK

LEMMA OthersStep ==
    ASSUME TypeOK, PlaceOK, OthersOK, NEW r \in Requests, Step(r)
    PROVE  OthersOK'
<1>1. ASSUME NEW q \in Requests \ {r}, Kind[q] \notin Media
      PROVE  /\ answer'[q] = "ok" => q \in applied'
             /\ answer'[q] = "refused" => q \notin applied'
  BY <1>1, OthersKept DEF OthersOK
<1>2. ASSUME Kind[r] \notin Media
      PROVE  /\ answer'[r] = "ok" => r \in applied'
             /\ answer'[r] = "refused" => r \notin applied'
  BY <1>2, AnswerSteps DEF InsertMedia, PlaceOK
<1> QED
  BY <1>1, <1>2 DEF OthersOK

-----------------------------------------------------------------------------
(* The files behind what is shown.                                         *)

Stored(row) == row.logo \in Logos => Files(row.logo) \subseteq disk

DiskOK ==
    /\ listed \subseteq disk
    /\ \A a \in Requests : Present(a) => Stored(rows[a])
    /\ \A r \in Requests : pc[r] \in Holding => Stored(copy[r].row)

LEMMA DiskStep ==
    ASSUME TypeOK, PlaceOK, DiskOK, NEW r \in Requests, Step(r)
    PROVE  DiskOK'
<1> DEFINE a == Subject[r]
<1>0. a \in Requests /\ disk \subseteq disk'
  BY CatalogueConstants, OthersKept
<1>1. listed' \subseteq disk'
  <2>1. CASE InsertMedia(r)
    <3>1. next[r] \in 1..Count[r] /\ Files(r) \subseteq disk
      BY <2>1, CatalogueConstants DEF InsertMedia, PlaceOK, TypeOK
    <3>2. <<r, next[r]>> \in disk
      BY <3>1 DEF Files
    <3> QED
      BY <1>0, <2>1, <3>2 DEF DiskOK, InsertMedia
  <2> QED
    BY <1>0, <2>1, ListSteps DEF DiskOK
<1>2. ASSUME NEW row, Stored(row) PROVE Stored(row)'
  BY <1>0, <1>2 DEF Stored
<1>3. ASSUME NEW b \in Requests, Present(b)' PROVE Stored(rows[b])'
  <2>1. CASE rows'[b] = rows[b]
    BY <1>0, <1>3, <2>1 DEF DiskOK, Present, Stored
  <2>2. CASE /\ b = r /\ Kind[r] \in {"newCompany", "newProperty"}
             /\ rows' = [rows EXCEPT ![r] = NewRow(r)]
    <3>1. NewRow(r).logo \notin Logos
      BY <2>2, NewRowIsRow, CatalogueConstants DEF Logos
    <3> QED
      BY <2>2, <3>1 DEF TypeOK, Stored
  <2>3. CASE /\ b = a /\ pc[r] = "updating" /\ Present(a)
             /\ rows' = [rows EXCEPT ![a] = Updated(r)]
    <3>1. /\ rows'[b] = Updated(r)
          /\ Updated(r).logo \in {copy[r].row.logo, rows[a].logo}
      BY <1>0, <2>3, UpdatedIsRow DEF TypeOK, PlaceOK, Holding, Present
    <3>2. Stored(copy[r].row) /\ Stored(rows[a])
      BY <1>0, <2>3 DEF DiskOK, Holding
    <3> QED
      BY <1>0, <3>1, <3>2 DEF Stored
  <2>4. CASE b = a /\ pc[r] = "restoring" /\ rows' = [rows EXCEPT ![a] = copy[r].row]
    <3>1. rows'[b] = copy[r].row /\ Stored(copy[r].row)
      BY <1>0, <2>4 DEF TypeOK, DiskOK, Holding
    <3> QED
      BY <1>0, <3>1 DEF Stored
  <2>5. CASE b = a /\ rows' = [rows EXCEPT ![a] = NoRow]
    BY <1>3, <2>5 DEF TypeOK, Present
  <2> QED
    BY <1>0, <2>1, <2>2, <2>3, <2>4, <2>5, TableSteps DEF TypeOK
<1>4. ASSUME NEW q \in Requests, pc'[q] \in Holding PROVE Stored(copy[q].row)'
  <2>1. CASE q # r
    BY <1>0, <1>4, <2>1, OthersKept DEF DiskOK, Stored
  <2>2. CASE q = r /\ Load(r) /\ Present(a)
    <3>1. copy'[r].row = Edited(r, rows[a])
      BY <2>2 DEF Load, TypeOK, Object
    <3>2. rows[a] \in Row /\ Stored(rows[a])
      BY <1>0, <2>2 DEF TypeOK, Present, DiskOK
    <3>3. Kind[r] = "logo" => Files(r) \subseteq disk
      BY <2>2 DEF Load, PlaceOK
    <3> QED
      BY <1>0, <2>2, <3>1, <3>2, <3>3, EditedIsRow, CatalogueConstants DEF Stored, Logos
  <2>3. CASE q = r /\ SaveLooks(r)
    BY <1>0, <2>3 DEF SaveLooks, DiskOK, Holding, Stored
  <2> QED
    BY <1>4, <2>1, <2>2, <2>3 DEF Step, CreateCompany, FindCompany, InsertProperty, Remove,
       StoreFiles, FindProperty, InsertMedia, Load, SaveUpdates, SaveRestores,
       SaveDetaches, Fails, Goto, End, Reply, Break,
       Written, TypeOK, Holding
<1> QED
  BY <1>1, <1>3, <1>4 DEF DiskOK

-----------------------------------------------------------------------------
(* Saves of one row that do not overlap.                                   *)

SerialOK ==
    \A q, s \in Requests :
        /\ q # s /\ Kind[q] \in Exclusive /\ Kind[s] \in Exclusive /\ Subject[q] = Subject[s]
        /\ pc[q] \notin {"new", "done"}
        => pc[s] \in {"new", "done"}

\* A row that a save holds is as the save read it, or was removed meanwhile.
Held(r) ==
    LET a == Subject[r]
    IN  /\ \E old \in Row : copy[r].row = Edited(r, old)
        /\ Present(a) => copy[r].row = Edited(r, rows[a])
        /\ ~Present(a) => \E q \in applied : Kind[q] = "remove" /\ Subject[q] = a
        /\ pc[r] = "updating" /\ Present(a) =>
             dirty[r] = {k \in Columns : copy[r].row[k] # rows[a][k]}
        /\ pc[r] = "restoring" => ~Present(a)

HeldOK == \A r \in Requests : pc[r] \in Holding => Held(r)

LEMMA SerialStep ==
    ASSUME ~Overlap, TypeOK, PlaceOK, SerialOK, NEW r \in Requests, Step(r)
    PROVE  SerialOK'
<1>1. pc[r] = "new" => MayStart(r)
  BY DEF Step, CreateCompany, FindCompany, InsertProperty, Remove, StoreFiles,
       FindProperty, InsertMedia, Load, SaveLooks, SaveUpdates, SaveRestores,
       SaveDetaches, Fails
<1>2. \A q \in Requests \ {r} : pc'[q] = pc[q]
  BY OthersKept
<1>3. pc[r] # "done"
  BY OthersKept
<1>4. ASSUME NEW q \in Requests \ {r}, Kind[q] \in Exclusive, Kind[r] \in Exclusive,
             Subject[q] = Subject[r], pc[q] \notin {"new", "done"}
      PROVE  FALSE
  <2>1. CASE pc[r] = "new"
    BY <1>1, <1>4, <2>1 DEF MayStart
  <2>2. CASE pc[r] # "new"
    BY <1>3, <1>4, <2>2 DEF SerialOK
  <2> QED
    BY <2>1, <2>2
<1>5. SUFFICES ASSUME NEW q \in Requests, NEW s \in Requests, q # s,
                      Kind[q] \in Exclusive, Kind[s] \in Exclusive, Subject[q] = Subject[s],
                      pc'[q] \notin {"new", "done"}, pc'[s] \notin {"new", "done"}
               PROVE  FALSE
  BY DEF SerialOK
<1>6. CASE q = r
  BY <1>2, <1>4, <1>5, <1>6
<1>7. CASE s = r
  BY <1>2, <1>4, <1>5, <1>7
<1>8. CASE q # r /\ s # r
  BY <1>2, <1>5, <1>8 DEF SerialOK
<1> QED
  BY <1>6, <1>7, <1>8

LEMMA HeldStep ==
    ASSUME TypeOK, PlaceOK, RefsOK, SerialOK, HeldOK, NEW r \in Requests, Step(r)
    PROVE  HeldOK'
<1>1. ASSUME NEW s \in Requests \ {r}, pc'[s] \in Holding PROVE Held(s)'
  <2> DEFINE a == Subject[s]
  <2>0. /\ pc'[s] = pc[s] /\ copy'[s] = copy[s] /\ dirty'[s] = dirty[s]
        /\ applied \subseteq applied' /\ pc[r] # "done"
        /\ pc[s] \in Holding /\ Kind[s] \in Exclusive
        /\ a \in Requests /\ a \in applied /\ r \notin applied
        /\ Subject[r] \in Requests
    BY <1>1, OthersKept, CatalogueConstants DEF PlaceOK, RefsOK
  <2>1. Held(s)
    BY <2>0 DEF HeldOK
  <2>2. CASE rows'[a] = rows[a]
    BY <2>0, <2>1, <2>2 DEF Held, Present
  <2>3. CASE Remove(r) /\ Subject[r] = a /\ rows' = [rows EXCEPT ![Subject[r]] = NoRow]
             /\ r \in applied'
    <3>1. Kind[r] = "remove" /\ ~Present(a)'
      BY <2>0, <2>3 DEF Remove, Present, TypeOK
    <3> QED
      BY <2>0, <2>1, <2>3, <3>1 DEF Held
  <2>4. ASSUME pc[r] \in {"updating", "restoring"}, Subject[r] = a PROVE FALSE
    BY <2>0, <2>4 DEF SerialOK, PlaceOK, Holding
  <2>5. CASE rows' = [rows EXCEPT ![r] = NewRow(r)] \/ rows' = rows
    BY <2>0, <2>2, <2>5 DEF TypeOK
  <2> QED
    BY <2>0, <2>2, <2>3, <2>4, <2>5, TableSteps DEF TypeOK
<1>2. ASSUME pc'[r] \in Holding PROVE Held(r)'
  <2> DEFINE a == Subject[r]
  <2>1. CASE Load(r) /\ Present(a)
    <3>1. /\ copy'[r].row = Edited(r, rows[a]) /\ rows[a] \in Row
          /\ rows' = rows /\ pc'[r] = "saving"
      <4>1. copy'[r].row = Edited(r, rows[a]) /\ rows' = rows /\ pc'[r] = "saving"
        BY <2>1 DEF Load, TypeOK, Object, Goto, db
      <4>2. rows[a] \in Row
        BY <2>1, CatalogueConstants DEF TypeOK, Present
      <4> QED
        BY <4>1, <4>2
    <3> QED
      BY <2>1, <3>1 DEF Held, Present
  <2>2. CASE SaveLooks(r)
    <3>1. Held(r)
      BY <2>2 DEF SaveLooks, HeldOK, Holding
    <3>2. /\ copy' = copy /\ rows' = rows /\ applied' = applied
          /\ Present(a) => dirty'[r] = {k \in Columns : copy[r].row[k] # rows[a][k]}
          /\ pc'[r] = "restoring" => ~Present(a)
      BY <2>2 DEF SaveLooks, Goto, db, TypeOK
    <3> QED
      BY <3>1, <3>2 DEF Held, Present
  <2> QED
    BY <1>2, <2>1, <2>2 DEF Step, CreateCompany, FindCompany, InsertProperty, Remove,
       StoreFiles, FindProperty, InsertMedia, Load, SaveUpdates, SaveRestores,
       SaveDetaches, Fails, Goto, End, Reply, Break,
       Written, TypeOK, Holding
<1> QED
  BY <1>1, <1>2 DEF HeldOK

-----------------------------------------------------------------------------
(* The steps of the book.                                                  *)

LEMMA BookStep ==
    ASSUME TypeOK, PlaceOK, RefsOK, UploadsOK, HeldOK, NEW r \in Requests, Step(r)
    PROVE  Book!Next \/ UNCHANGED Book!vars
<1> DEFINE a == Subject[r]
<1>0. a \in Requests /\ pc[r] # "done" /\ r \notin applied
  BY OthersKept, CatalogueConstants DEF PlaceOK
<1>1. CASE UNCHANGED <<rows, listed, applied>>
  BY <1>1 DEF Book!vars
<1>2. CASE /\ Kind[r] \in {"newCompany", "newProperty"}
           /\ IsProperty(r) => Present(Parent[r])
           /\ rows' = [rows EXCEPT ![r] = NewRow(r)]
           /\ Written(r) /\ UNCHANGED listed
  <2>1. rows[r] = NoRow
    BY <1>0 DEF RefsOK, Present
  <2>2. NewRow(r) = Book!Effect(r, [k \in Columns |-> Null])
    BY <1>2 DEF NewRow, Over, Given, Book!Effect, Book!Columns, Columns
  <2> QED
    BY <1>0, <1>2, <2>1, <2>2 DEF Book!Next, Book!Apply, Book!Open, Written,
       IsProperty, Present, Columns, Book!Columns
<1>3. CASE Remove(r) /\ Present(a) /\ ~Referred(a)
  BY <1>0, <1>3 DEF Book!Next, Book!Apply, Book!Close, Remove, Written, Referred,
     IsProperty, Present
<1>4. CASE InsertMedia(r) /\ Present(a)
  <2>1. /\ Kind[r] \in Media /\ next[r] \in 1..Count[r] /\ Count[r] \in Nat
    <3>1. next[r] \in 1..(Count[r] + 1) /\ Count[r] \in Nat
      BY CatalogueConstants DEF TypeOK
    <3>2. Kind[r] \in Media /\ next[r] <= Count[r]
      BY <1>4 DEF InsertMedia, PlaceOK
    <3> QED
      BY <3>1, <3>2
  <2>2. \A j \in 1..Count[r] : <<r, j>> \in listed <=> j < next[r]
    BY <2>1 DEF UploadsOK
  <2>3. listed' = listed \cup {<<r, next[r]>>} /\ UNCHANGED <<rows, applied>>
    BY <1>4 DEF InsertMedia
  <2>4. Book!Show(r)
    BY <1>4, <2>1, <2>2, <2>3 DEF Book!Show, Media, Present
  <2> QED
    BY <2>4 DEF Book!Next
<1>5. ASSUME pc[r] \in {"updating", "restoring"}, NEW row \in Row
      PROVE  Edited(r, row) = Book!Effect(r, row)
  BY DEF Edited, Over, Row, Columns, Book!Effect, Book!Columns
<1>6. CASE SaveUpdates(r)
  <2>0. /\ Held(r) /\ copy[r].row \in Row /\ Kind[r] \in {"edit", "logo"}
        /\ pc[r] = "updating" /\ Written(r) /\ UNCHANGED listed
    BY <1>6 DEF SaveUpdates, HeldOK, PlaceOK, Holding, Exclusive
  <2>1. CASE Present(a)
    <3>1. rows[a] \in Row
      BY <1>0, <2>1 DEF TypeOK, Present
    <3>2. Updated(r) = copy[r].row
      BY <2>0, <2>1, <3>1 DEF Held, Updated, Row, Columns
    <3>3. rows' = [rows EXCEPT ![a] = Book!Effect(r, rows[a])]
      BY <1>5, <1>6, <2>0, <2>1, <3>1, <3>2 DEF SaveUpdates, Updated, Held
    <3>4. Book!Alter(r)
      BY <2>0, <2>1, <3>3 DEF Book!Alter, Present
    <3> QED
      BY <1>0, <2>0, <3>4 DEF Book!Next, Book!Apply, Written
  <2>2. CASE ~Present(a)
    <3>1. Book!Late(r)
      BY <1>6, <2>0, <2>2 DEF Book!Late, SaveUpdates, Held, Present
    <3> QED
      BY <1>0, <2>0, <3>1 DEF Book!Next, Book!Apply, Written
  <2> QED
    BY <2>1, <2>2
<1>7. CASE /\ SaveRestores(r) /\ Written(r) /\ ~Present(a)
           /\ IsProperty(a) => Present(Parent[a])
           /\ rows' = [rows EXCEPT ![a] = copy[r].row]
  <2>0. /\ Held(r) /\ Kind[r] \in {"edit", "logo"} /\ pc[r] = "restoring"
        /\ UNCHANGED listed
    BY <1>7 DEF SaveRestores, HeldOK, PlaceOK, Holding, Exclusive
  <2>1. PICK old \in Row : copy[r].row = Edited(r, old)
    BY <2>0 DEF Held
  <2>2. rows' = [rows EXCEPT ![a] = Book!Effect(r, old)]
    BY <1>5, <1>7, <2>0, <2>1
  <2>3. Book!Late(r)
    BY <1>7, <2>0, <2>2 DEF Book!Late, Held, Present, IsProperty, Row, Columns, Book!Columns
  <2> QED
    BY <1>0, <1>7, <2>3 DEF Book!Next, Book!Apply, Written
<1>9. \/ UNCHANGED <<rows, listed, applied>>
      \/ InsertMedia(r) /\ Present(a)
      \/ SaveUpdates(r)
      \/ SaveRestores(r) /\ Written(r) /\ ~Present(a) /\ (IsProperty(a) => Present(Parent[a]))
           /\ rows' = [rows EXCEPT ![a] = copy[r].row]
      \/ Remove(r) /\ Present(a) /\ ~Referred(a)
      \/ /\ Kind[r] \in {"newCompany", "newProperty"}
         /\ IsProperty(r) => Present(Parent[r])
         /\ rows' = [rows EXCEPT ![r] = NewRow(r)]
         /\ Written(r) /\ UNCHANGED listed
  BY DEF Step, CreateCompany, FindCompany, InsertProperty, Remove, StoreFiles,
       FindProperty, InsertMedia, Load, SaveLooks, SaveUpdates, SaveRestores,
       SaveDetaches, Fails, db, MayStart, IsProperty, PlaceOK
<1> QED
  BY <1>1, <1>2, <1>3, <1>4, <1>6, <1>7, <1>9

-----------------------------------------------------------------------------
(* Removals.                                                               *)

\* Who was removed had been made.
RemovedOK == \A q \in Requests :
                Kind[q] = "remove" /\ q \in applied => Subject[q] \in applied

LEMMA RemovedStep ==
    ASSUME TypeOK, PlaceOK, RefsOK, RemovedOK, NEW r \in Requests, Step(r)
    PROVE  RemovedOK'
<1>1. /\ applied \subseteq applied' /\ applied' \subseteq applied \cup {r}
  BY OthersKept
<1>2. ASSUME Kind[r] = "remove", r \in applied', r \notin applied
      PROVE  Present(Subject[r])
  <2>1. CASE Remove(r)
    BY <1>2, <2>1 DEF Remove
  <2>2. CASE ~Remove(r)
    BY <1>2, <2>2 DEF Step, CreateCompany, FindCompany, InsertProperty, StoreFiles,
       FindProperty, InsertMedia, Load, SaveLooks, SaveUpdates, SaveRestores,
       SaveDetaches, Fails, PlaceOK, Holding, Exclusive,
       IsProperty
  <2> QED
    BY <2>1, <2>2
<1>3. Subject[r] \in Requests
  BY CatalogueConstants
<1> QED
  BY <1>1, <1>2, <1>3 DEF RemovedOK, RefsOK

\* A row that is gone is made again by nobody: not by its creation, which is
\* over, nor by a save, which finds no row to hold.
LEMMA GoneStep ==
    ASSUME TypeOK, PlaceOK, NEW r \in Requests, Step(r),
           NEW a \in Requests, a \in applied, Gone(a)
    PROVE  Gone(a)'
<1>1. ~Present(a)'
  <2>1. CASE UNCHANGED rows
    BY <2>1 DEF Gone, Present
  <2>2. CASE /\ pc[r] \in {"new", "inserting"}
             /\ rows' = [rows EXCEPT ![r] = NewRow(r)]
    <3>1. a # r
      BY <2>2 DEF PlaceOK
    <3> QED
      BY <2>2, <3>1 DEF Gone, Present, TypeOK
  <2>3. CASE rows' = [rows EXCEPT ![Subject[r]] = NoRow]
    BY <2>3 DEF Gone, Present, TypeOK
  <2>4. CASE /\ pc[r] = "updating" /\ Present(Subject[r])
             /\ rows' = [rows EXCEPT ![Subject[r]] = Updated(r)]
    BY <2>4 DEF Gone, Present, TypeOK
  <2>5. CASE pc[r] = "restoring" /\ rows' = [rows EXCEPT ![Subject[r]] = copy[r].row]
    <3>1. a # Subject[r]
      BY <2>5 DEF Gone
    <3> QED
      BY <2>5, <3>1 DEF Gone, Present, TypeOK
  <2> QED
    BY <2>1, <2>2, <2>3, <2>4, <2>5, TableSteps
<1>2. Subject[r] = a => pc'[r] \notin {"saving", "restoring"}
  <2> SUFFICES ASSUME Subject[r] = a PROVE pc'[r] \notin {"saving", "restoring"}
    OBVIOUS
  <2>1. ~Present(Subject[r]) /\ pc[r] \notin {"saving", "restoring"}
    BY DEF Gone
  <2> USE DEF Goto, Reply, End, Break, Written, TypeOK
  <2>2. CASE CreateCompany(r) \/ FindCompany(r) \/ InsertProperty(r) \/ Remove(r)
    BY <2>2 DEF CreateCompany, FindCompany, InsertProperty, Remove, MayStart
  <2>3. CASE StoreFiles(r) \/ FindProperty(r) \/ InsertMedia(r)
    BY <2>3 DEF StoreFiles, FindProperty, InsertMedia
  <2>4. CASE Load(r)
    BY <2>1, <2>4 DEF Load
  <2>5. CASE SaveLooks(r) \/ SaveUpdates(r) \/ SaveRestores(r) \/ SaveDetaches(r)
    BY <2>1, <2>5 DEF SaveLooks, SaveUpdates, SaveRestores, SaveDetaches
  <2>6. CASE Fails(r)
    BY <2>6 DEF Fails
  <2> QED
    BY <2>2, <2>3, <2>4, <2>5, <2>6 DEF Step
<1> QED
  BY <1>1, <1>2, OthersKept DEF Gone

-----------------------------------------------------------------------------
(* The theorems.                                                           *)

Inv == TypeOK /\ PlaceOK /\ RefsOK /\ UploadsOK /\ OthersOK /\ DiskOK /\ RemovedOK

LEMMA InvInit == Init => Inv
<1> SUFFICES ASSUME Init PROVE Inv
  OBVIOUS
<1> USE CatalogueConstants DEF Init
<1>1. TypeOK
  <2>1. NoObject \in Objects
    BY DEF NoObject, Object, Objects
  <2>2. \A r \in Requests : next[r] \in 1..(Count[r] + 1)
    OBVIOUS
  <2> QED
    BY <2>1, <2>2 DEF TypeOK, Present
<1>2. PlaceOK
  BY DEF PlaceOK, Holding
<1>3. RefsOK
  BY DEF RefsOK, Present, Holding
<1>4. UploadsOK /\ OthersOK
  <2>1. \A r \in Requests : \A i \in 1..Count[r] : ~(i < 1)
    OBVIOUS
  <2> QED
    BY <2>1 DEF UploadsOK, OthersOK
<1>5. DiskOK
  BY DEF DiskOK, Present, Holding
<1>6. RemovedOK
  BY DEF RemovedOK
<1> QED
  BY <1>1, <1>2, <1>3, <1>4, <1>5, <1>6 DEF Inv

LEMMA InvStutters == ASSUME Inv, UNCHANGED vars PROVE Inv'
<1>1. TypeOK'
  BY DEF Inv, vars, TypeOK, Present
<1>2. PlaceOK'
  BY DEF Inv, vars, PlaceOK
<1>3. RefsOK'
  BY DEF Inv, vars, RefsOK, Present
<1>4. UploadsOK' /\ OthersOK'
  BY DEF Inv, vars, UploadsOK, OthersOK
<1>5. DiskOK'
  BY DEF Inv, vars, DiskOK, Present, Stored
<1>6. RemovedOK'
  BY DEF Inv, vars, RemovedOK
<1> QED
  BY <1>1, <1>2, <1>3, <1>4, <1>5, <1>6 DEF Inv

LEMMA InvNext == Inv /\ [Next]_vars => Inv'
<1> SUFFICES ASSUME Inv, [Next]_vars PROVE Inv'
  OBVIOUS
<1>1. ASSUME NEW r \in Requests, Step(r) PROVE Inv'
  BY <1>1, TypeStep, PlaceStep, RefsStep, UploadsStep, OthersStep, DiskStep,
     RemovedStep DEF Inv
<1> QED
  BY <1>1, NextSteps, InvStutters

LEMMA Invariance == Spec => []Inv
BY InvInit, InvNext, PTL DEF Spec

\* At every step of every request the tables, the objects in work and the
\* answers are of the kinds Catalogue declares; an upload never counts past
\* its files.
THEOREM CatalogueTypes == Spec => []TypeOK
<1>1. Inv => TypeOK
  BY DEF Inv
<1> QED
  BY <1>1, Invariance, PTL

\* However requests interleave and fail, what a client was told is what
\* happened: a successful upload has all its files listed, a refused one none.
THEOREM CatalogueAnswers == Spec => []AnsweredAsDone
<1>1. ASSUME Inv PROVE AnsweredAsDone
  <2>1. ASSUME NEW r \in Requests, Kind[r] \in Media
        PROVE  /\ answer[r] = "ok" => Files(r) \subseteq listed
               /\ answer[r] = "refused" => Files(r) \cap listed = {}
    <3>1. Count[r] \in Nat /\ Files(r) = {<<r, i>> : i \in 1..Count[r]}
      BY CatalogueConstants DEF Files
    <3> QED
      BY <1>1, <2>1, <3>1 DEF Inv, UploadsOK
  <2> QED
    BY <1>1, <2>1 DEF Inv, OthersOK, AnsweredAsDone
<1> QED
  BY <1>1, Invariance, PTL

\* Whatever is listed, and every logo that updateLogo left in a row, was stored
\* before.
THEOREM MediaAreServed == Spec => []MediaServed
<1>1. Inv => MediaServed
  BY DEF Inv, DiskOK, Stored, MediaServed
<1> QED
  BY <1>1, Invariance, PTL

\* However removals interleave with creations, uploads and saves that bring a
\* row back, a property in the table has its company, and an image or a video its
\* property.
References ==
    /\ \A a \in Requests : Present(a) /\ IsProperty(a) => Present(Parent[a])
    /\ \A f \in listed : Present(Subject[f[1]])

THEOREM ReferencesHold == Spec => []References
<1>1. Inv => References
  BY DEF Inv, RefsOK, References
<1> QED
  BY <1>1, Invariance, PTL

\* Only a save that read the row before its removal brings it back: once no
\* such save is left, a removed row never is in the table again.
THEOREM RemovalsAreFinal == Spec => GoneForGood
<1> DEFINE A == \A a \in Removed : Gone(a) => Gone(a)'
<1>1. Inv /\ [Next]_vars => [A]_vars
  <2> SUFFICES ASSUME Inv, Next, NEW a \in Removed, Gone(a) PROVE Gone(a)'
    OBVIOUS
  <2>1. a \in Requests /\ a \in applied
    <3>1. PICK q \in Requests : Kind[q] = "remove" /\ answer[q] = "ok" /\ a = Subject[q]
      BY DEF Removed
    <3>2. q \in applied
      BY <3>1 DEF Inv, OthersOK, Media
    <3> QED
      BY <3>1, <3>2, CatalogueConstants DEF Inv, RemovedOK
  <2>2. CASE UNCHANGED vars
    BY <2>2 DEF Gone, Present, vars
  <2>3. ASSUME NEW r \in Requests, Step(r) PROVE Gone(a)'
    BY <2>1, <2>3, GoneStep DEF Inv
  <2> QED
    BY <2>2, <2>3, NextSteps
<1> QED
  BY <1>1, Invariance, PTL DEF Spec, GoneForGood

\* What the run catalogue_overlap refutes in general holds for every row that
\* is removed but neither edited nor given a logo.
THEOREM RemovalsLastWithoutSaves ==
    ASSUME \A q, r \in Requests :
              Kind[q] = "remove" /\ Subject[r] = Subject[q] => Kind[r] \notin Exclusive
    PROVE  Spec => RemovedStaysRemoved
<1> DEFINE A == \A a \in Removed : Gone(a) => Gone(a)'
           B == \A a \in Removed : ~Present(a) => ~Present(a)'
<1>1. Inv /\ [A]_vars => [B]_vars
  <2> SUFFICES ASSUME Inv, A, NEW a \in Removed, ~Present(a) PROVE ~Present(a)'
    BY DEF Removed, Present, vars
  <2>1. \A r \in Requests : Subject[r] = a => pc[r] \notin {"saving", "restoring"}
    BY DEF Inv, PlaceOK, Removed, Holding
  <2> QED
    BY <2>1 DEF Gone
<1>2. Spec => [][A]_vars
  BY RemovalsAreFinal DEF GoneForGood
<1> QED
  BY <1>1, <1>2, Invariance, PTL DEF RemovedStaysRemoved

\* As long as saves of one row do not overlap, the service keeps the book: an
\* UPDATE or a restored row is the effect of its one request.
THEOREM SerialImplementsBook ==
    ASSUME ~Overlap
    PROVE  Spec => ImplementsBook
<1> DEFINE I == Inv /\ SerialOK /\ HeldOK
<1>1. Init => I
  BY InvInit DEF Init, SerialOK, HeldOK, Holding
<1>2. ASSUME I, [Next]_vars PROVE I' /\ (Book!Next \/ UNCHANGED Book!vars)
  <2>1. CASE UNCHANGED vars
    <3>1. Inv'
      BY <1>2, <2>1, InvStutters
    <3>2. SerialOK' /\ HeldOK'
      BY <1>2, <2>1 DEF vars, SerialOK, HeldOK, Held, Present
    <3> QED
      BY <2>1, <3>1, <3>2 DEF vars, Book!vars
  <2>2. ASSUME NEW r \in Requests, Step(r)
        PROVE  I' /\ (Book!Next \/ UNCHANGED Book!vars)
    <3>1. Inv'
      BY <1>2, InvNext
    <3>2. SerialOK' /\ HeldOK'
      BY <1>2, <2>2, SerialStep, HeldStep DEF Inv
    <3>3. Book!Next \/ UNCHANGED Book!vars
      BY <1>2, <2>2, BookStep DEF Inv
    <3> QED
      BY <3>1, <3>2, <3>3
  <2> QED
    BY <1>2, <2>1, <2>2, NextSteps
<1>3. Init => Book!Init
  BY DEF Init, Book!Init
<1> HIDE DEF I
<1>4. I /\ [Next]_vars => I' /\ [Book!Next]_(Book!vars)
  BY <1>2
<1>5. Spec => Book!Spec
  BY <1>1, <1>3, <1>4, PTL DEF Spec, Book!Spec
<1> QED
  BY <1>5 DEF ImplementsBook
================================================================================
