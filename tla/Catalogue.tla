------------------------------- MODULE Catalogue -------------------------------
(***************************************************************************)
(* Companies and properties of the NestJS service                          *)
(* (nest_service/src/properties, nest_service/src/companies): their rows,  *)
(* the images and videos that refer to a property, and the uploaded files  *)
(* on disk.                                                                *)
(*                                                                         *)
(* A row is called after the request that makes it, a file <<r, i>> after  *)
(* the upload that brings it.  Columns a form sets together are one.  The  *)
(* body of a creation or an update may bring any of them, a logo, too:     *)
(* main.ts sets no whitelist.  It does not bring a primary key or a        *)
(* relation; a companyId in an update has no effect, for TypeORM takes the *)
(* key of the company that findOne loaded.                                 *)
(* TypeORM's save reads the row again, and then                            *)
(*   - inserts the object, under its old id, when the row is gone;         *)
(*   - takes the images that the row has and the object has not for        *)
(*     removed, and sets their propertyId to NULL, which the column        *)
(*     forbids: the save fails;                                            *)
(*   - else updates the columns that differ.                               *)
(* Foreign keys refuse to delete what is referred to.  Nothing deletes an  *)
(* image, a video or a file.                                               *)
(***************************************************************************)
EXTENDS Naturals, FiniteSets

CONSTANTS Requests,  \* requests that may be made in a behaviour (a bound)
          Kind,      \* Kind[r]: the route it calls
          Subject,   \* Subject[r]: the row it is about (itself for a new one)
          Parent,    \* Parent[r]: the companyId a new property gives
          Body,      \* Body[r]: the columns that the body of r brings
          Count,     \* Count[r]: the number of files in upload r
          NoRow,     \* no row of that id
          Null,      \* nothing in a column
          Overlap,   \* may saves of one row overlap?
          MaxMade,   \* requests made in a behaviour (a bound)
          MaxFaults  \* failures and lost answers in a behaviour (a bound)

Kinds == {"newCompany", "newProperty", "edit", "remove", "logo", "images", "videos"}
Media == {"images", "videos"}

\* Without Overlap these requests about one row come one after another.
Exclusive == {"edit", "logo"}

IsProperty(a) == Kind[a] = "newProperty"

Files(r) == {<<r, i>> : i \in 1..Count[r]}
MediaFiles == UNION {Files(r) : r \in {q \in Requests : Kind[q] \in Media}}

\* Only a company has a logo.
Columns == {"info", "logo"}
Row == [Columns -> Requests \cup {Null}]

ASSUME CatalogueConstants ==
    /\ Kind \in [Requests -> Kinds]
    /\ Subject \in [Requests -> Requests]
    /\ \A r \in Requests :
         /\ Kind[Subject[r]] \in {"newCompany", "newProperty"}
         /\ Kind[r] \in {"newCompany", "newProperty"} => Subject[r] = r
         /\ Kind[r] \in Media => IsProperty(Subject[r])
         /\ Kind[r] = "logo" => ~IsProperty(Subject[r])
         /\ IsProperty(r) => Parent[r] \in Requests /\ Kind[Parent[r]] = "newCompany"
         /\ DOMAIN Body[r] \subseteq Columns
         /\ IsProperty(Subject[r]) => "logo" \notin DOMAIN Body[r]
         /\ Body[r] \in [DOMAIN Body[r] -> {r, Null}]
    /\ Count \in [Requests -> Nat \ {0}]
    /\ Null \notin Requests /\ NoRow \notin Row
    /\ Overlap \in BOOLEAN
    /\ MaxMade \in Nat /\ MaxFaults \in Nat

VARIABLES
    rows,     \* rows[a]: the row of companies or properties, or NoRow
    listed,   \* files with a row in property_images or property_videos
    disk,     \* files under uploads/
    pc,       \* how far each request is
    next,     \* next[r]: the file upload r is at
    copy,     \* copy[r]: the object r works on, with the relations it loaded
    dirty,    \* dirty[r]: the columns r's save found to differ
    answer,   \* what the client was told
    faults,   \* failures so far
    \* For the properties:
    applied   \* requests whose write went through

vars == <<rows, listed, disk, pc, next, copy, dirty, answer, faults, applied>>

Present(a) == rows[a] # NoRow

\* The relation of a property that findOne loads.  (Locations, tags, building
\* information and views are loaded too, but no route makes any.)
ImagesOf(a) == {f \in listed : Kind[f[1]] = "images" /\ Subject[f[1]] = a}

\* Rows that refer to a: the properties of a company, the media of a property.
Referred(a) == \/ \E b \in Requests : Present(b) /\ IsProperty(b) /\ Parent[b] = a
               \/ \E f \in listed : Subject[f[1]] = a

Object(row, images) == [row |-> row, images |-> images]
Objects == [row : Row \cup {NoRow}, images : SUBSET MediaFiles]
NoObject == Object(NoRow, {})

TypeOK ==
    /\ rows \in [Requests -> Row \cup {NoRow}]
    /\ \A a \in Requests : Present(a) => Subject[a] = a
    /\ listed \subseteq MediaFiles
    /\ disk \subseteq UNION {Files(r) : r \in Requests}
    /\ pc \in [Requests -> {"new", "inserting", "listing", "adding", "loading",
                            "saving", "restoring", "detaching", "updating", "done"}]
    /\ next \in [Requests -> Nat]
    /\ \A r \in Requests : next[r] \in 1..(Count[r] + 1)
    /\ copy \in [Requests -> Objects]
    /\ dirty \in [Requests -> SUBSET Columns]
    /\ answer \in [Requests -> {"none", "ok", "refused", "error"}]
    /\ faults \in 0..MaxFaults
    /\ applied \subseteq Requests

Init ==
    /\ rows = [a \in Requests |-> NoRow]
    /\ listed = {} /\ disk = {} /\ applied = {}
    /\ pc = [r \in Requests |-> "new"]
    /\ next = [r \in Requests |-> 1]
    /\ copy = [r \in Requests |-> NoObject]
    /\ dirty = [r \in Requests |-> {}]
    /\ answer = [r \in Requests |-> "none"]
    /\ faults = 0

db == <<rows, listed>>
work == <<next, copy, dirty>>

Goto(r, l) == pc' = [pc EXCEPT ![r] = l] /\ UNCHANGED <<answer, faults>>

\* The answer ends the handler and with it its object.
End(r, a) == /\ pc' = [pc EXCEPT ![r] = "done"]
             /\ answer' = [answer EXCEPT ![r] = a]

Reply(r, a) == End(r, a) /\ UNCHANGED faults

\* A failure of the database, the disk or the service.
Break(r) == faults < MaxFaults /\ faults' = faults + 1 /\ End(r, "error")

Forget(r) == /\ copy' = [copy EXCEPT ![r] = NoObject]
             /\ dirty' = [dirty EXCEPT ![r] = {}]
             /\ UNCHANGED next

\* A write that went through; the client may be told otherwise.
Written(r) == applied' = applied \cup {r} /\ (Reply(r, "ok") \/ Break(r))

MayStart(r) ==
    /\ pc[r] = "new"
    /\ Cardinality({q \in Requests : pc[q] # "new"}) < MaxMade
    /\ \/ Overlap \/ Kind[r] \notin Exclusive
       \/ \A q \in Requests \ {r} :
             Kind[q] \in Exclusive /\ Subject[q] = Subject[r] =>
                 pc[q] \in {"new", "done"}

\* repository.merge, or create.
Over(f, g) == [k \in DOMAIN g |-> IF k \in DOMAIN f THEN f[k] ELSE g[k]]

-----------------------------------------------------------------------------
(* Creation and removal.                                                   *)

NewRow(r) == Over(Body[r], [k \in Columns |-> Null])

CreateCompany(r) ==
    /\ MayStart(r) /\ Kind[r] = "newCompany"
    /\ rows' = [rows EXCEPT ![r] = NewRow(r)]
    /\ Written(r)
    /\ UNCHANGED <<listed, disk, work>>

FindCompany(r) ==
    /\ MayStart(r) /\ IsProperty(r)
    /\ IF Present(Parent[r]) THEN Goto(r, "inserting") ELSE Reply(r, "refused")
    /\ UNCHANGED <<db, disk, work, applied>>

\* The foreign key decides.
InsertProperty(r) ==
    /\ pc[r] = "inserting"
    /\ IF Present(Parent[r])
          THEN /\ rows' = [rows EXCEPT ![r] = NewRow(r)]
               /\ Written(r)
          ELSE Reply(r, "error") /\ UNCHANGED <<rows, applied>>
    /\ UNCHANGED <<listed, disk, work>>

Remove(r) ==
    /\ MayStart(r) /\ Kind[r] = "remove"
    /\ CASE ~Present(Subject[r]) -> Reply(r, "refused") /\ UNCHANGED <<rows, applied>>
         [] Referred(Subject[r]) -> Reply(r, "error") /\ UNCHANGED <<rows, applied>>
         [] OTHER -> /\ rows' = [rows EXCEPT ![Subject[r]] = NoRow]
                     /\ Written(r)
    /\ UNCHANGED <<listed, disk, work>>

-----------------------------------------------------------------------------
(* Uploads: multer stores every file before the handler runs.              *)

\* A mistake: the files stay in memory.
FilesNotStored(r) ==
    /\ MayStart(r) /\ Kind[r] \in Media \cup {"logo"}
    /\ Goto(r, IF Kind[r] = "logo" THEN "loading" ELSE "listing")
    /\ UNCHANGED <<db, disk, work, applied>>

StoreFiles(r) ==
    /\ MayStart(r) /\ Kind[r] \in Media \cup {"logo"}
    /\ disk' = disk \cup Files(r)
    /\ \/ Goto(r, IF Kind[r] = "logo" THEN "loading" ELSE "listing")
       \/ Kind[r] \in Media /\ Reply(r, "refused")   \* metadata is not JSON
    /\ UNCHANGED <<db, work, applied>>

\* addImage and addVideo look for the property for every file; addImage then
\* awaits the tags.
FindProperty(r) ==
    /\ pc[r] = "listing"
    /\ IF Present(Subject[r]) THEN Goto(r, "adding") ELSE Reply(r, "refused")
    /\ UNCHANGED <<db, disk, work, applied>>

\* A mistake: the bound of the loop is one too high.
OneFileTooMany(r) ==
    /\ pc[r] = "adding"
    /\ listed' = listed \cup {<<r, next[r]>>}
    /\ next' = [next EXCEPT ![r] = @ + 1]
    /\ \/ next[r] <= Count[r] /\ Goto(r, "listing")
       \/ next[r] > Count[r] /\ Reply(r, "ok")
    /\ UNCHANGED <<rows, disk, copy, dirty, applied>>

\* A mistake: the calls of the loop are not awaited.
AnswersEarly(r) ==
    /\ pc[r] = "adding" /\ Present(Subject[r])
    /\ listed' = listed \cup {<<r, next[r]>>}
    /\ next' = [next EXCEPT ![r] = @ + 1]
    /\ Reply(r, "ok")
    /\ UNCHANGED <<rows, disk, copy, dirty, applied>>

InsertMedia(r) ==
    /\ pc[r] = "adding"
    /\ IF ~Present(Subject[r])
          THEN Reply(r, "error") /\ UNCHANGED <<listed, next>>
          ELSE /\ listed' = listed \cup {<<r, next[r]>>}
               /\ next' = [next EXCEPT ![r] = @ + 1]
               /\ \/ next[r] < Count[r] /\ Goto(r, "listing")
                  \/ next[r] = Count[r] /\ Reply(r, "ok")
                  \/ Break(r)
    /\ UNCHANGED <<rows, disk, copy, dirty, applied>>

-----------------------------------------------------------------------------
(* update and updateLogo: findOne, edit, save.                             *)

\* What a request gives to the row it is about.
Given(r) == IF Kind[r] = "logo" THEN [logo |-> r] ELSE Body[r]

Edited(r, row) == Over(Given(r), row)

Load(r) ==
    LET a == Subject[r]
    IN  /\ (Kind[r] = "edit" /\ MayStart(r)) \/ pc[r] = "loading"
        /\ IF Present(a)
              THEN /\ Goto(r, "saving")
                   /\ copy' = [copy EXCEPT ![r] =
                                 Object(Edited(r, rows[a]), ImagesOf(a))]
              ELSE Reply(r, "refused") /\ UNCHANGED copy
        /\ UNCHANGED <<db, disk, next, dirty, applied>>

\* save, first half: the row as it is now against the object.
SaveLooks(r) ==
    LET a == Subject[r]
    IN  /\ pc[r] = "saving"
        /\ dirty' = [dirty EXCEPT ![r] =
              IF Present(a) THEN {k \in Columns : copy[r].row[k] # rows[a][k]} ELSE {}]
        /\ Goto(r, CASE ~Present(a) -> "restoring"
                     [] ~ImagesOf(a) \subseteq copy[r].images -> "detaching"
                     [] OTHER -> "updating")
        /\ UNCHANGED <<db, disk, next, copy, applied>>

\* A mistake: the row is inserted when the UPDATE finds none.
SaveUpserts(r) ==
    /\ pc[r] = "updating"
    /\ rows' = [rows EXCEPT ![Subject[r]] = copy[r].row]
    /\ Written(r) /\ Forget(r)
    /\ UNCHANGED <<listed, disk>>

\* save, second half.  An UPDATE of a row that is gone is no error.
SaveUpdates(r) ==
    LET a == Subject[r]
    IN  /\ pc[r] = "updating"
        /\ rows' = IF Present(a)
                     THEN [rows EXCEPT ![a] = [k \in Columns |->
                              IF k \in dirty[r] THEN copy[r].row[k] ELSE rows[a][k]]]
                     ELSE rows
        /\ Written(r) /\ Forget(r)
        /\ UNCHANGED <<listed, disk>>

SaveRestores(r) ==
    LET a == Subject[r]
    IN  /\ pc[r] = "restoring"
        /\ IF Present(a) \/ (IsProperty(a) /\ ~Present(Parent[a]))
              THEN Reply(r, "error") /\ UNCHANGED <<rows, applied>>
              ELSE rows' = [rows EXCEPT ![a] = copy[r].row] /\ Written(r)
        /\ Forget(r)
        /\ UNCHANGED <<listed, disk>>

\* A mistake: propertyId may be NULL.
SaveDropsImages(r) ==
    /\ pc[r] = "detaching"
    /\ listed' = listed \ (ImagesOf(Subject[r]) \ copy[r].images)
    /\ Reply(r, "ok") /\ Forget(r)
    /\ UNCHANGED <<rows, disk, applied>>

SaveDetaches(r) ==
    /\ pc[r] = "detaching"
    /\ Reply(r, "error") /\ Forget(r)
    /\ UNCHANGED <<db, disk, applied>>

-----------------------------------------------------------------------------
\* A statement or the file system fails, or the service goes down.
Fails(r) ==
    /\ pc[r] \notin {"new", "done"}
    /\ Break(r) /\ Forget(r)
    /\ UNCHANGED <<db, disk, applied>>

Save(r) == SaveLooks(r) \/ SaveUpdates(r) \/ SaveRestores(r) \/ SaveDetaches(r)

\* The routes.
CreateProperty(r) == FindCompany(r) \/ InsertProperty(r)

UploadImages(r) == /\ Kind[r] = "images"
                   /\ StoreFiles(r) \/ FindProperty(r) \/ InsertMedia(r)

UploadVideos(r) == /\ Kind[r] = "videos"
                   /\ StoreFiles(r) \/ FindProperty(r) \/ InsertMedia(r)

UploadLogo(r) == Kind[r] = "logo" /\ (StoreFiles(r) \/ Load(r) \/ Save(r))

Update(r) == Kind[r] = "edit" /\ (Load(r) \/ Save(r))

Next == \E r \in Requests :
    \/ CreateCompany(r) \/ CreateProperty(r) \/ Update(r) \/ Remove(r)
    \/ UploadImages(r) \/ UploadVideos(r) \/ UploadLogo(r) \/ Fails(r)

Spec == Init /\ [][Next]_vars

-----------------------------------------------------------------------------
(* Properties.                                                             *)

\* What a client was told is what happened.  In particular an upload answered
\* with success has all its files listed, and one that was refused, even at
\* its last file, has none: the first row keeps the property from being
\* removed.
AnsweredAsDone ==
    \A r \in Requests :
        IF Kind[r] \in Media
          THEN /\ answer[r] = "ok" => Files(r) \subseteq listed
               /\ answer[r] = "refused" => Files(r) \cap listed = {}
          ELSE /\ answer[r] = "ok" => r \in applied
               /\ answer[r] = "refused" => r \notin applied

Logos == {r \in Requests : Kind[r] = "logo"}

\* Every image and video that a client can be shown has its file, and so has
\* every logo that updateLogo left in a row: what testLogoUrl looks at for one.
MediaServed ==
    /\ listed \subseteq disk
    /\ \A a \in Requests : Present(a) /\ rows[a].logo \in Logos =>
                             Files(rows[a].logo) \subseteq disk

\* As long as saves of one row do not overlap, every request takes effect once
\* and in one step, changes only the columns it gives (a creation or an update
\* those of its body, an upload those of the logo), and never refers to what is
\* not there, however creations, uploads and removals interleave with it; only a
\* save that meets a removal may be lost or bring the row back.
Book == INSTANCE CatalogueBook WITH Gives <- [r \in Requests |-> Given(r)]
ImplementsBook == Book!Spec

Removed == {Subject[r] : r \in {q \in Requests : Kind[q] = "remove" /\ answer[q] = "ok"}}

\* What was removed, and reported so, does not come back.
RemovedStaysRemoved ==
    [][\A a \in Removed : ~Present(a) => ~Present(a)']_vars

\* A row that is gone and that no save still holds, or means to insert.
Gone(a) == ~Present(a) /\ \A r \in Requests :
                Subject[r] = a => pc[r] \notin {"saving", "restoring"}

\* Only a save that read the row before its removal brings it back.  Once those
\* are over the removal is final: whoever asks for the row is refused, and no
\* request makes it anew.
GoneForGood == [][\A a \in Removed : Gone(a) => Gone(a)']_vars
================================================================================
