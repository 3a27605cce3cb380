----------------------------- MODULE AccountsProofs -----------------------------
(***************************************************************************)
(* Proofs about Accounts for any number of accounts, requests and failures. *)
(***************************************************************************)
EXTENDS Accounts, TLAPS

\* A request between the look at its user and the end of its save.
Holding == {"checking", "saving", "writing"}

\* A step of one request, whatever method it belongs to.
Step(r) == \/ RefuseForm(r) \/ CheckContact(r) \/ InsertUser(r)
           \/ InsertRefused(r) \/ InsertProfile(r)
           \/ Load(r) \/ Refuse(r) \/ CheckPhone(r) \/ SaveLooks(r)
           \/ SaveWrites(r) \/ WritePhoto(r) \/ LinkPhoto(r)
           \/ Fails(r) \/ TokenExpires(r)

LEMMA NextSteps ==
    ASSUME [Next]_vars
    PROVE  UNCHANGED vars \/ \E r \in Requests : Step(r)
BY DEF Next, Step, Register, UpdateUser, Passwords, VerifyEmail, ReadEditSave,
       UploadUserPhoto

\* What a request works on where.
PlaceOK ==
    \A r \in Requests :
        /\ pc[r] \in {"hashing", "profiling"} => Kind[r] = "register"
        /\ pc[r] = "profiling" => r \in Rows \cap Profiled
        /\ pc[r] = "linking" =>
             Kind[r] = "photo" /\ Subject[r] \in Rows /\ r \in disk
        /\ pc[r] = "checking" => Kind[r] = "update"
        /\ pc[r] \in Holding =>
             /\ Kind[r] \notin {"register", "photo"} /\ Subject[r] \in Rows

\* The object a request holds: a row, but for a token taken out of it, which
\* the save does not write.
CopyOK ==
    \A r \in Requests : pc[r] \in Holding =>
        /\ copy[r] \in [Columns -> Properties]
        /\ copy[r].reset \in Requests \cup {Null, Undefined}
        /\ copy[r].photo \in Requests \cup {Null}
        /\ pc[r] = "writing" => \A k \in dirty[r] : copy[r][k] # Undefined

\* What a request may assign.
LEMMA Assignments ==
    ASSUME NEW r \in Requests
    PROVE  /\ DOMAIN Assigned(r) \subseteq Columns
           /\ \A k \in DOMAIN Assigned(r) :
                /\ Assigned(r)[k] \in Properties
                /\ Kind[r] # "reset" => Assigned(r)[k] # Undefined
                /\ k = "reset" => Assigned(r)[k] \in {r, Null, Undefined}
                /\ k = "photo" => Assigned(r)[k] \in {r, Null}
<1> USE AccountConstants DEF Columns, Properties
<1>1. CASE Kind[r] = "register"
  <2>1. Assigned(r) = NewRow(r)
    BY <1>1 DEF Assigned
  <2> QED
    BY <1>1, <2>1 DEF NewRow, Over
<1>2. CASE Kind[r] = "update"
  <2>1. Assigned(r) = Body[r]
    BY <1>2 DEF Assigned
  <2> QED
    BY <1>2, <2>1
<1>3. CASE Kind[r] = "change"
  BY <1>3 DEF Assigned
<1>4. CASE Kind[r] = "forgot"
  BY <1>4 DEF Assigned
<1>5. CASE Kind[r] = "reset"
  BY <1>5 DEF Assigned
<1>6. CASE Kind[r] = "verify"
  BY <1>6 DEF Assigned
<1>7. CASE Kind[r] = "photo"
  BY <1>7 DEF Assigned
<1> QED
  BY <1>1, <1>2, <1>3, <1>4, <1>5, <1>6, <1>7 DEF Kinds

LEMMA EditedFields ==
    ASSUME NEW r \in Requests, NEW row \in [Columns -> Values]
    PROVE  /\ Edited(r, row) \in [Columns -> Properties]
           /\ \A k \in Columns :
                Edited(r, row)[k] = IF k \in DOMAIN Assigned(r) THEN Assigned(r)[k] ELSE row[k]
BY Assignments DEF Edited, Over, Properties

LEMMA RowsAreRows == NoRow \notin [Columns -> Values]
<1>1. [Columns -> Values] \subseteq [Columns -> Properties]
  BY DEF Properties
<1> QED
  BY <1>1, AccountConstants

LEMMA NewRowIsRow ==
    ASSUME NEW r \in Requests, Kind[r] = "register"
    PROVE  NewRow(r) \in [Columns -> Values]
BY AccountConstants DEF NewRow, Over, Columns

LEMMA NewRowFields ==
    ASSUME NEW r \in Requests, Kind[r] = "register"
    PROVE  /\ NewRow(r) \in [Columns -> Values]
           /\ NewRow(r).email = Body[r].email /\ NewRow(r).phone = Body[r].phone
           /\ {NewRow(r).reset, NewRow(r).photo} \subseteq {r, Null}
BY NewRowIsRow, AccountConstants DEF NewRow, Over, Required

\* The row an UPDATE leaves is a row.
LEMMA WrittenFields ==
    ASSUME TypeOK, PlaceOK, CopyOK, NEW r \in Requests, pc[r] = "writing"
    PROVE  /\ Written(r) \in [Columns -> Values]
           /\ Written(r).reset \in Requests \cup {Null}
           /\ Written(r).photo \in {copy[r].photo, users[Subject[r]].photo}
           /\ Written(r).photo \in Requests \cup {Null}
<1> DEFINE a == Subject[r]
<1>1. a \in Rows /\ copy[r] \in [Columns -> Properties]
  BY DEF PlaceOK, CopyOK, Holding
<1>2. users[a] \in [Columns -> Values]
  BY <1>1 DEF TypeOK, Rows
<1>3. \A k \in Columns : \/ Written(r)[k] = copy[r][k] /\ copy[r][k] # Undefined
                         \/ Written(r)[k] = users[a][k]
  BY DEF Written, CopyOK, Holding
<1>4. Written(r) \in [Columns -> Values]
  BY <1>1, <1>2, <1>3 DEF Written, Properties
<1>5. {users[a].reset, users[a].photo} \subseteq Requests \cup {Null}
  BY <1>1 DEF TypeOK
<1>6. /\ copy[r].reset \in Requests \cup {Null, Undefined}
      /\ copy[r].photo \in Requests \cup {Null}
  BY DEF CopyOK, Holding
<1> QED
  BY <1>3, <1>4, <1>5, <1>6 DEF Columns

\* How a step changes the table.
LEMMA TableSteps ==
    ASSUME TypeOK, PlaceOK, NEW r \in Requests, Step(r)
    PROVE  \/ UNCHANGED users
           \/ /\ pc[r] = "hashing" /\ Collisions(r, Body[r].email, Body[r].phone) = {}
              /\ users' = [users EXCEPT ![r] = NewRow(r)]
           \/ /\ pc[r] = "writing"
              /\ Collisions(Subject[r], Written(r).email, Written(r).phone) = {}
              /\ users' = [users EXCEPT ![Subject[r]] = Written(r)]
           \/ /\ pc[r] = "linking"
              /\ users' = [users EXCEPT ![Subject[r]].photo = r]
BY DEF Step, RefuseForm, CheckContact, InsertUser, InsertRefused, InsertProfile,
       Load, Refuse, CheckPhone, SaveLooks, SaveWrites, WritePhoto, LinkPhoto,
       Fails, TokenExpires

RowsOK ==
    /\ users \in [Requests -> [Columns -> Values] \cup {NoRow}]
    /\ \A a \in Rows :
         /\ Kind[a] = "register"
         /\ {users[a].reset, users[a].photo} \subseteq Requests \cup {Null}

LEMMA RowsStep ==
    ASSUME TypeOK, PlaceOK, CopyOK, NEW r \in Requests, Step(r)
    PROVE  RowsOK' /\ Rows \subseteq Rows'
<1> USE AccountConstants, RowsAreRows
<1>0. RowsOK
  BY DEF RowsOK, TypeOK
<1>1. CASE UNCHANGED users
  BY <1>0, <1>1 DEF RowsOK, Rows
<1>2. CASE pc[r] = "hashing" /\ users' = [users EXCEPT ![r] = NewRow(r)]
  <2>1. Kind[r] = "register"
    BY <1>2 DEF PlaceOK
  <2>2. NewRow(r) \in [Columns -> Values]
    BY <2>1, NewRowIsRow
  <2>3. {NewRow(r).reset, NewRow(r).photo} \subseteq Requests \cup {Null}
    BY <2>1, NewRowFields
  <2> HIDE DEF NewRow
  <2> QED
    BY <1>0, <1>2, <2>1, <2>2, <2>3 DEF RowsOK, Rows
<1>3. CASE pc[r] = "writing" /\ users' = [users EXCEPT ![Subject[r]] = Written(r)]
  <2>1. Subject[r] \in Rows
    BY <1>3 DEF PlaceOK, Holding
  <2> QED
    BY <1>0, <1>3, <2>1, WrittenFields DEF RowsOK, Rows
<1>4. CASE pc[r] = "linking" /\ users' = [users EXCEPT ![Subject[r]].photo = r]
  <2> DEFINE a == Subject[r]
             new == [users[a] EXCEPT !.photo = r]
  <2>1. a \in Rows /\ users[a] \in [Columns -> Values]
    BY <1>4 DEF PlaceOK, TypeOK, Rows
  <2>2. users' = [users EXCEPT ![a] = new]
    BY <1>4
  <2>3. /\ new \in [Columns -> Values]
        /\ \A k \in Columns \ {"photo"} : new[k] = users[a][k]
        /\ new.photo = r
    BY <2>1, AccountConstants DEF Columns
  <2> HIDE DEF new
  <2>4. /\ Kind[a] = "register"
        /\ {new.reset, new.photo} \subseteq Requests \cup {Null}
    BY <1>0, <2>1, <2>3 DEF RowsOK, Columns
  <2> QED
    BY <1>0, <2>1, <2>2, <2>3, <2>4 DEF RowsOK, Rows
<1> QED
  BY <1>1, <1>2, <1>3, <1>4, TableSteps

LEMMA TypeStep ==
    ASSUME TypeOK, PlaceOK, CopyOK, NEW r \in Requests, Step(r)
    PROVE  TypeOK'
<1>1. RowsOK' /\ Rows \subseteq Rows'
  BY RowsStep
<1> DEFINE Rest ==
      /\ copy \in [Requests -> [Columns -> Properties] \cup {NoRow}]
      /\ {disk, expired, applied} \subseteq SUBSET Requests
      /\ pc \in [Requests -> {"new", "hashing", "profiling", "checking", "saving",
                              "writing", "linking", "done"}]
      /\ dirty \in [Requests -> SUBSET Columns]
      /\ answer \in [Requests -> {"none", "ok", "refused", "error"}]
      /\ faults \in 0..MaxFaults
<1>2. Rest
  BY DEF TypeOK
<1>3. profiles' \subseteq Rows \cap Profiled
  BY DEF Step, RefuseForm, CheckContact, InsertUser, InsertRefused, InsertProfile,
       Load, Refuse, CheckPhone, SaveLooks, SaveWrites, WritePhoto, LinkPhoto,
       Fails, TokenExpires, TypeOK, PlaceOK
<1>4. Rest'
  <2> USE AccountConstants DEF Goto, Reply, End, Break, Forget
  <2>1. CASE RefuseForm(r) \/ CheckContact(r) \/ InsertRefused(r) \/ InsertProfile(r)
             \/ Refuse(r)
    BY <1>2, <2>1 DEF RefuseForm, CheckContact, InsertRefused, InsertProfile, Refuse
  <2>2. CASE InsertUser(r) \/ LinkPhoto(r) \/ WritePhoto(r)
    BY <1>2, <2>2 DEF InsertUser, LinkPhoto, WritePhoto
  <2>3. CASE Load(r)
    <3>1. Edited(r, users[Subject[r]]) \in [Columns -> Properties]
      BY <2>3, EditedFields DEF Load, Finds, Rows, TypeOK
    <3> QED
      BY <1>2, <2>3, <3>1 DEF Load
  <2>4. CASE CheckPhone(r)
    BY <1>2, <2>4 DEF CheckPhone
  <2>5. CASE SaveLooks(r)
    BY <1>2, <2>5 DEF SaveLooks
  <2>6. CASE SaveWrites(r)
    <3>1. /\ disk' = disk /\ expired' = expired /\ applied' \in {applied, applied \cup {r}}
          /\ copy' = [copy EXCEPT ![r] = NoRow] /\ dirty' = [dirty EXCEPT ![r] = {}]
          /\ pc' = [pc EXCEPT ![r] = "done"]
          /\ \E a \in {"ok", "error"} : answer' = [answer EXCEPT ![r] = a]
          /\ faults' = faults \/ (faults < MaxFaults /\ faults' = faults + 1)
      BY <2>6 DEF SaveWrites
    <3> QED
      BY <1>2, <3>1
  <2>7. CASE Fails(r)
    BY <1>2, <2>7 DEF Fails
  <2>8. CASE TokenExpires(r)
    BY <1>2, <2>8 DEF TokenExpires
  <2> QED
    BY <2>1, <2>2, <2>3, <2>4, <2>5, <2>6, <2>7, <2>8 DEF Step
<1> QED
  BY <1>1, <1>3, <1>4 DEF RowsOK, TypeOK

LEMMA PlaceStep ==
    ASSUME TypeOK, PlaceOK, CopyOK, NEW r \in Requests, Step(r)
    PROVE  PlaceOK'
<1>0. Rows \subseteq Rows'
  BY RowsStep
<1> USE AccountConstants DEF PlaceOK, Goto, Reply, End, Break, Forget, Holding, TypeOK
<1>1. CASE RefuseForm(r) \/ CheckContact(r) \/ InsertRefused(r) \/ InsertProfile(r)
           \/ Refuse(r) \/ Fails(r)
  BY <1>0, <1>1 DEF RefuseForm, CheckContact, InsertRefused, InsertProfile, Refuse, Fails
<1>2. CASE InsertUser(r)
  <2>1. r \in Rows'
    <3>1. NewRow(r) \in [Columns -> Values]
      BY <1>2, NewRowIsRow DEF InsertUser
    <3> HIDE DEF NewRow
    <3> QED
      BY <1>2, <3>1, RowsAreRows DEF InsertUser, Rows
  <2> QED
    BY <1>0, <1>2, <2>1 DEF InsertUser
<1>3. CASE Load(r) \/ CheckPhone(r)
  BY <1>0, <1>3 DEF Load, CheckPhone, Finds
<1>4. CASE SaveLooks(r) \/ SaveWrites(r)
  BY <1>0, <1>4 DEF SaveLooks, SaveWrites
<1>5. CASE WritePhoto(r) \/ LinkPhoto(r)
  BY <1>0, <1>5 DEF WritePhoto, LinkPhoto, SignedIn, Guarded
<1>6. CASE TokenExpires(r)
  BY <1>0, <1>6 DEF TokenExpires
<1> QED
  BY <1>1, <1>2, <1>3, <1>4, <1>5, <1>6 DEF Step

\* Only the request that makes a step changes its object.
LEMMA OthersKept ==
    ASSUME TypeOK, NEW r \in Requests, Step(r), NEW q \in Requests \ {r}
    PROVE  /\ pc'[q] = pc[q] /\ copy'[q] = copy[q] /\ dirty'[q] = dirty[q]
           /\ answer'[q] = answer[q]
           /\ q \in applied' <=> q \in applied
BY DEF Step, RefuseForm, CheckContact, InsertUser, InsertRefused, InsertProfile,
       Load, Refuse, CheckPhone, SaveLooks, SaveWrites, WritePhoto, LinkPhoto,
       Fails, TokenExpires, Goto, Reply, End, Break, Forget, TypeOK

LEMMA CopyStep ==
    ASSUME TypeOK, PlaceOK, CopyOK, NEW r \in Requests, Step(r)
    PROVE  CopyOK'
<1> SUFFICES ASSUME NEW q \in Requests, pc'[q] \in Holding
             PROVE  /\ copy'[q] \in [Columns -> Properties]
                    /\ copy'[q].reset \in Requests \cup {Null, Undefined}
                    /\ copy'[q].photo \in Requests \cup {Null}
                    /\ pc'[q] = "writing" => \A k \in dirty'[q] : copy'[q][k] # Undefined
  BY DEF CopyOK
<1>1. CASE q # r
  BY <1>1, OthersKept DEF CopyOK
<1>2. CASE q = r /\ Load(r)
  <2> DEFINE a == Subject[r]
  <2>1. /\ Kind[r] \notin {"register", "photo"} /\ a \in Rows
        /\ users[a] \in [Columns -> Values]
    BY <1>2, AccountConstants DEF Load, Finds, TypeOK, Rows
  <2>2. copy'[r] = Edited(r, users[a]) /\ pc'[r] # "writing"
    BY <1>2 DEF Load, TypeOK, Goto
  <2>3. {users[a].reset, users[a].photo} \subseteq Requests \cup {Null}
    BY <2>1 DEF TypeOK
  <2>4. /\ Edited(r, users[a]).reset \in {r, Null, Undefined, users[a].reset}
        /\ Edited(r, users[a]).photo \in {r, Null, users[a].photo}
    BY <2>1, EditedFields, Assignments DEF Columns
  <2> QED
    BY <1>2, <2>1, <2>2, <2>3, <2>4, EditedFields
<1>3. CASE q = r /\ CheckPhone(r)
  BY <1>3 DEF CheckPhone, CopyOK, Holding, TypeOK, Goto, Reply, End, Forget
<1>4. CASE q = r /\ SaveLooks(r)
  BY <1>4 DEF SaveLooks, CopyOK, Holding, TypeOK, Goto
<1>5. CASE q = r /\ ~(Load(r) \/ CheckPhone(r) \/ SaveLooks(r) \/ TokenExpires(r))
  BY <1>5 DEF Step, RefuseForm, CheckContact, InsertUser, InsertRefused, InsertProfile,
       Refuse, SaveWrites, WritePhoto, LinkPhoto, Fails, Goto, Reply, End, Break,
       TypeOK, Holding
<1>6. CASE TokenExpires(r)
  BY <1>6 DEF TokenExpires, CopyOK
<1> QED
  BY <1>1, <1>2, <1>3, <1>4, <1>5, <1>6

\* What was answered is what was done, and what is not over was not yet done.
AnswersOK ==
    /\ \A r \in Requests :
         /\ pc[r] # "done" => answer[r] = "none"
         /\ pc[r] \in {"new", "hashing", "linking"} \cup Holding => r \notin applied
         /\ pc[r] = "profiling" => r \in applied
    /\ Rows \subseteq applied
    /\ AnsweredAsDone
    /\ ProfileComplete

LEMMA AnswersStep ==
    ASSUME TypeOK, PlaceOK, CopyOK, AnswersOK, NEW r \in Requests, Step(r)
    PROVE  AnswersOK'
<1>0. Rows \subseteq Rows' /\ TypeOK'
  BY RowsStep, TypeStep
<1>1. profiles' \subseteq Rows'
  BY <1>0 DEF TypeOK
<1>2. Rows' \subseteq applied'
  <2>1. CASE Rows' \subseteq Rows
    BY <2>1 DEF Step, RefuseForm, CheckContact, InsertUser, InsertRefused, InsertProfile,
         Load, Refuse, CheckPhone, SaveLooks, SaveWrites, WritePhoto, LinkPhoto,
         Fails, TokenExpires, AnswersOK
  <2>2. CASE InsertUser(r)
    BY <2>2 DEF InsertUser, Rows, TypeOK, AnswersOK
  <2>3. CASE SaveWrites(r) \/ LinkPhoto(r)
    BY <2>3 DEF SaveWrites, LinkPhoto, Rows, TypeOK, AnswersOK, PlaceOK, Holding
  <2>4. CASE UNCHANGED users
    BY <2>1, <2>4 DEF Rows
  <2> QED
    BY <2>2, <2>3, <2>4 DEF Step, RefuseForm, CheckContact, InsertRefused, InsertProfile,
         Load, Refuse, CheckPhone, SaveLooks, WritePhoto, Fails, TokenExpires
<1> DEFINE Said(q) ==
      /\ pc[q] # "done" => answer[q] = "none"
      /\ pc[q] \in {"new", "hashing", "linking"} \cup Holding => q \notin applied
      /\ pc[q] = "profiling" => q \in applied
      /\ answer[q] = "ok" => q \in applied
      /\ answer[q] = "refused" => q \notin applied
      /\ q \in Profiled /\ answer[q] = "ok" => q \in profiles
<1>3. \A q \in Requests : Said(q)
  BY DEF AnswersOK, AnsweredAsDone, ProfileComplete
<1>4. profiles \subseteq profiles'
  BY DEF Step, RefuseForm, CheckContact, InsertUser, InsertRefused, InsertProfile,
       Load, Refuse, CheckPhone, SaveLooks, SaveWrites, WritePhoto, LinkPhoto,
       Fails, TokenExpires
<1>5. ASSUME NEW q \in Requests \ {r} PROVE Said(q)'
  BY <1>3, <1>4, OthersKept
<1>6. Said(r)'
  <2> USE <1>3 DEF Goto, Reply, End, Break, TypeOK, Holding
  <2>1. CASE RefuseForm(r) \/ CheckContact(r) \/ InsertRefused(r) \/ Refuse(r) \/ Fails(r)
    BY <2>1 DEF RefuseForm, CheckContact, InsertRefused, Refuse, Fails, MayStart, Profiled
  <2>2. CASE InsertUser(r) \/ InsertProfile(r)
    BY <2>2 DEF InsertUser, InsertProfile
  <2>3. CASE Load(r) \/ CheckPhone(r) \/ SaveLooks(r) \/ SaveWrites(r)
    BY <2>3 DEF Load, CheckPhone, SaveLooks, SaveWrites, MayStart, PlaceOK, Profiled
  <2>4. CASE WritePhoto(r) \/ LinkPhoto(r)
    BY <2>4 DEF WritePhoto, LinkPhoto, MayStart, PlaceOK, Profiled
  <2>5. CASE TokenExpires(r)
    BY <2>5 DEF TokenExpires
  <2> QED
    BY <2>1, <2>2, <2>3, <2>4, <2>5 DEF Step
<1>7. \A q \in Requests : Said(q)'
  BY <1>5, <1>6
<1> QED
  BY <1>1, <1>2, <1>7 DEF AnswersOK, AnsweredAsDone, ProfileComplete, Profiled

\* A photo that was uploaded and that a row or an object names is there.
Served(p) == p # Null /\ Kind[p] = "photo" => p \in disk

PhotosOK ==
    /\ PhotoServed
    /\ \A r \in Requests : pc[r] \in Holding => Served(copy[r].photo)

LEMMA PhotosStep ==
    ASSUME TypeOK, PlaceOK, CopyOK, PhotosOK, NEW r \in Requests, Step(r)
    PROVE  PhotosOK'
<1>0. disk \subseteq disk'
  BY DEF Step, RefuseForm, CheckContact, InsertUser, InsertRefused, InsertProfile,
       Load, Refuse, CheckPhone, SaveLooks, SaveWrites, WritePhoto, LinkPhoto,
       Fails, TokenExpires
<1>1. PhotoServed'
  <2>1. CASE UNCHANGED users
    BY <1>0, <2>1 DEF PhotosOK, PhotoServed, Rows
  <2>2. CASE pc[r] = "hashing" /\ users' = [users EXCEPT ![r] = NewRow(r)]
    <3>1. Kind[r] = "register" /\ NewRow(r).photo \in {r, Null}
      BY <2>2, NewRowFields DEF PlaceOK
    <3> HIDE DEF NewRow
    <3> QED
      BY <1>0, <2>2, <3>1 DEF PhotosOK, PhotoServed, Rows, TypeOK
  <2>3. CASE pc[r] = "writing" /\ users' = [users EXCEPT ![Subject[r]] = Written(r)]
    <3>1. Subject[r] \in Rows
      BY <2>3 DEF PlaceOK, Holding
    <3>2. Served(Written(r).photo)
      BY <2>3, <3>1, WrittenFields DEF PhotosOK, PhotoServed, Served, Holding
    <3> QED
      BY <1>0, <2>3, <3>1, <3>2 DEF PhotosOK, PhotoServed, Served, Rows, TypeOK
  <2>4. CASE pc[r] = "linking" /\ users' = [users EXCEPT ![Subject[r]].photo = r]
    <3>1. Subject[r] \in Rows /\ r \in disk
      BY <2>4 DEF PlaceOK
    <3>2. \A a \in Requests : users'[a] # NoRow => users'[a].photo \in {users[a].photo, r}
      BY <2>4, <3>1 DEF TypeOK, Rows, Columns
    <3> QED
      BY <1>0, <2>4, <3>1, <3>2 DEF PhotosOK, PhotoServed, Rows, TypeOK
  <2> QED
    BY <2>1, <2>2, <2>3, <2>4, TableSteps
<1>2. ASSUME NEW q \in Requests, pc'[q] \in Holding,
             copy'[q].photo # Null, Kind[copy'[q].photo] = "photo"
      PROVE  copy'[q].photo \in disk'
  <2>1. CASE q # r
    BY <1>0, <1>2, <2>1, OthersKept DEF PhotosOK, Served
  <2>2. CASE q = r /\ Load(r)
    <3>1. /\ Kind[r] \notin {"register", "photo"} /\ Subject[r] \in Rows
          /\ users[Subject[r]] \in [Columns -> Values]
      BY <2>2, AccountConstants DEF Load, Finds, TypeOK, Rows
    <3>2. copy'[r].photo \in {r, Null, users[Subject[r]].photo}
      BY <2>2, <3>1, EditedFields, Assignments DEF Load, TypeOK, Columns
    <3> QED
      BY <1>0, <1>2, <2>2, <3>1, <3>2 DEF PhotosOK, PhotoServed
  <2>3. CASE q = r /\ ~Load(r)
    BY <1>0, <1>2, <2>3 DEF Step, RefuseForm, CheckContact, InsertUser, InsertRefused,
       InsertProfile, Refuse, CheckPhone, SaveLooks, SaveWrites, WritePhoto, LinkPhoto,
       Fails, TokenExpires, Goto, Reply, End, Break, TypeOK, Holding, PhotosOK, Served
  <2> QED
    BY <2>1, <2>2, <2>3
<1> QED
  BY <1>1, <1>2 DEF PhotosOK, Served

\* No two accounts share an address or a number.
DistinctOK == \A a \in Rows : Collisions(a, users[a].email, users[a].phone) = {}

LEMMA DistinctStep ==
    ASSUME TypeOK, PlaceOK, CopyOK, DistinctOK, NEW r \in Requests, Step(r)
    PROVE  DistinctOK'
<1> SUFFICES ASSUME NEW a \in Rows', NEW b \in Rows', a # b
             PROVE  users'[a].email # users'[b].email /\ users'[a].phone # users'[b].phone
  BY DEF DistinctOK, Collisions
<1>0. \A x, y \in Rows : x # y =>
        users[x].email # users[y].email /\ users[x].phone # users[y].phone
  BY DEF DistinctOK, Collisions
<1>1. CASE UNCHANGED users
  BY <1>0, <1>1 DEF Rows
<1> DEFINE New(c, email, phone) ==
      /\ Collisions(c, email, phone) = {}
      /\ \A x \in Requests \ {c} : users'[x] = users[x]
      /\ users'[c].email = email /\ users'[c].phone = phone
<1>2. ASSUME NEW c \in Requests, NEW email, NEW phone, New(c, email, phone)
      PROVE  users'[a].email # users'[b].email /\ users'[a].phone # users'[b].phone
  BY <1>0, <1>2 DEF Rows, Collisions
<1>3. CASE /\ pc[r] = "hashing" /\ Collisions(r, Body[r].email, Body[r].phone) = {}
           /\ users' = [users EXCEPT ![r] = NewRow(r)]
  <2>0. Kind[r] = "register"
    BY <1>3 DEF PlaceOK
  <2>1. New(r, Body[r].email, Body[r].phone)
    BY <1>3, <2>0, NewRowFields DEF TypeOK
  <2> HIDE DEF New
  <2> QED
    BY <1>2, <2>1
<1>4. CASE /\ pc[r] = "writing"
           /\ Collisions(Subject[r], Written(r).email, Written(r).phone) = {}
           /\ users' = [users EXCEPT ![Subject[r]] = Written(r)]
  <2>1. Subject[r] \in Requests
    BY AccountConstants
  <2>2. New(Subject[r], Written(r).email, Written(r).phone)
    BY <1>4, <2>1 DEF TypeOK
  <2> HIDE DEF New
  <2> QED
    BY <1>2, <2>1, <2>2
<1>5. CASE /\ pc[r] = "linking"
           /\ users' = [users EXCEPT ![Subject[r]].photo = r]
  <2>1. Subject[r] \in Rows
    BY <1>5 DEF PlaceOK
  <2>2. \A x \in Requests : /\ users'[x] # NoRow => users[x] # NoRow
                            /\ x \in Rows => /\ users'[x].email = users[x].email
                                             /\ users'[x].phone = users[x].phone
    BY <1>5, <2>1 DEF TypeOK, Rows, Columns
  <2> QED
    BY <1>0, <2>2 DEF Rows
<1> QED
  BY <1>1, <1>3, <1>4, <1>5, TableSteps

-----------------------------------------------------------------------------
(* Where the values come from, however requests overlap.                   *)

\* May column k of account a hold v, if the requests w have written or will?
Own(k, v, a, w) ==
    \E q \in w : Subject[q] = a /\ k \in DOMAIN Given(q) /\ v = Given(q)[k]

\* Of rows, and of the objects that are still to be saved.
OwnOK ==
    /\ \A a \in Rows : \A k \in Columns : Own(k, users[a][k], a, applied)
    /\ \A r \in Requests : pc[r] \in Holding =>
         /\ \A k \in Columns : copy[r][k] # Undefined =>
              Own(k, copy[r][k], Subject[r], applied \cup {r})
         /\ Kind[r] = "reset" => Own("reset", TokenOf[r], Subject[r], applied)
    /\ ResetByToken

LEMMA OwnGrows ==
    ASSUME NEW w, NEW x, w \subseteq x, NEW k, NEW v, NEW a, Own(k, v, a, w)
    PROVE  Own(k, v, a, x)
BY DEF Own

LEMMA AssignedOwn ==
    ASSUME NEW r \in Requests, NEW k \in DOMAIN Assigned(r), Assigned(r)[k] # Undefined,
           NEW w, r \in w
    PROVE  Own(k, Assigned(r)[k], Subject[r], w)
BY DEF Own, Given

LEMMA EditedOwn ==
    ASSUME NEW r \in Requests, NEW row \in [Columns -> Values], NEW w, NEW k \in Columns
    PROVE  \/ Edited(r, row)[k] = row[k]
           \/ Edited(r, row)[k] = Undefined
           \/ Own(k, Edited(r, row)[k], Subject[r], w \cup {r})
BY EditedFields, AssignedOwn

\* Who has written.
LEMMA AppliedSteps ==
    ASSUME NEW r \in Requests, Step(r)
    PROVE  /\ applied \subseteq applied' /\ applied' \subseteq applied \cup {r}
           /\ r \in applied' \ applied => pc[r] \in {"hashing", "writing", "linking"}
           /\ users' # users => r \in applied'
BY DEF Step, RefuseForm, CheckContact, InsertUser, InsertRefused, InsertProfile,
       Load, Refuse, CheckPhone, SaveLooks, SaveWrites, WritePhoto, LinkPhoto,
       Fails, TokenExpires

LEMMA OwnRowsStep ==
    ASSUME TypeOK, PlaceOK, CopyOK, OwnOK, NEW r \in Requests, Step(r),
           NEW a \in Rows', NEW k \in Columns
    PROVE  Own(k, users'[a][k], a, applied')
<1>1. applied \subseteq applied' /\ (users' # users => r \in applied')
  BY AppliedSteps
<1>2. CASE a \in Rows /\ users'[a][k] = users[a][k]
  BY <1>1, <1>2, OwnGrows DEF OwnOK
<1>3. CASE pc[r] = "hashing" /\ users' = [users EXCEPT ![r] = NewRow(r)]
  <2>1. CASE a # r
    BY <1>2, <1>3, <2>1 DEF Rows, TypeOK
  <2>2. CASE a = r
    <3>1. Kind[r] = "register" /\ Subject[r] = r
      BY <1>3, AccountConstants DEF PlaceOK
    <3>2. users'[r] = NewRow(r)
      BY <1>3 DEF TypeOK
    <3>3. CASE users' # users
      <4>1. r \in applied'
        BY <1>1, <3>3
      <4>2. /\ Assigned(r) = NewRow(r) /\ k \in DOMAIN Assigned(r)
            /\ Assigned(r)[k] # Undefined
        BY <3>1, NewRowIsRow, AccountConstants DEF Assigned
      <4> QED
        BY <2>2, <3>1, <3>2, <4>1, <4>2, AssignedOwn
    <3>4. CASE users' = users
      BY <1>2, <2>2, <3>4 DEF Rows
    <3> QED
      BY <3>3, <3>4
  <2> QED
    BY <2>1, <2>2
<1>4. CASE pc[r] = "writing" /\ users' = [users EXCEPT ![Subject[r]] = Written(r)]
  <2>0. Subject[r] \in Rows
    BY <1>4 DEF PlaceOK, Holding
  <2>1. CASE a # Subject[r] \/ users' = users
    BY <1>2, <1>4, <2>1 DEF Rows, TypeOK
  <2>2. CASE a = Subject[r] /\ users' # users
    <3>1. users'[a][k] = IF k \in dirty[r] THEN copy[r][k] ELSE users[a][k]
      BY <1>4, <2>0, <2>2 DEF Written, TypeOK, Rows
    <3>2. CASE k \notin dirty[r]
      BY <1>2, <2>0, <2>2, <3>1, <3>2
    <3>3. CASE k \in dirty[r]
      <4>1. copy[r][k] # Undefined
        BY <1>4, <3>3 DEF CopyOK, Holding
      <4>2. Own(k, copy[r][k], a, applied \cup {r})
        BY <1>4, <2>2, <4>1 DEF OwnOK, Holding
      <4>3. applied \cup {r} \subseteq applied'
        BY <1>1, <2>2
      <4>4. Own(k, copy[r][k], a, applied')
        BY <4>2, <4>3, OwnGrows
      <4> QED
        BY <3>1, <3>3, <4>4
    <3> QED
      BY <3>2, <3>3
  <2> QED
    BY <2>1, <2>2
<1>5. CASE pc[r] = "linking" /\ users' = [users EXCEPT ![Subject[r]].photo = r]
  <2>0. Subject[r] \in Rows /\ Kind[r] = "photo"
    BY <1>5 DEF PlaceOK
  <2>1. users[Subject[r]] \in [Columns -> Values]
    BY <2>0 DEF TypeOK, Rows
  <2>2. \/ a \in Rows /\ users'[a][k] = users[a][k]
        \/ a = Subject[r] /\ k = "photo" /\ users'[a][k] = r
    BY <1>5, <2>0, <2>1 DEF Rows, TypeOK
  <2>3. CASE a = Subject[r] /\ k = "photo" /\ users'[a][k] = r /\ users' # users
    <3>1. /\ r \in applied' /\ k \in DOMAIN Assigned(r)
          /\ Assigned(r)[k] = r /\ r # Undefined
      BY <1>1, <2>0, <2>3, AccountConstants DEF Assigned
    <3> QED
      BY <2>3, <3>1, AssignedOwn
  <2>4. CASE users' = users
    BY <1>2, <2>4 DEF Rows
  <2> QED
    BY <1>2, <2>2, <2>3, <2>4
<1>6. CASE UNCHANGED users
  BY <1>2, <1>6 DEF Rows
<1> QED
  BY <1>3, <1>4, <1>5, <1>6, TableSteps

LEMMA OwnStep ==
    ASSUME TypeOK, PlaceOK, CopyOK, OwnOK, NEW r \in Requests, Step(r)
    PROVE  OwnOK'
<1>1. /\ applied \subseteq applied' /\ applied' \subseteq applied \cup {r}
      /\ r \in applied' \ applied => pc[r] \in {"hashing", "writing", "linking"}
  BY AppliedSteps
<1>2. \A a \in Rows' : \A k \in Columns : Own(k, users'[a][k], a, applied')
  BY OwnRowsStep
<1> DEFINE Held(q) ==
      /\ \A k \in Columns : copy[q][k] # Undefined =>
           Own(k, copy[q][k], Subject[q], applied \cup {q})
      /\ Kind[q] = "reset" => Own("reset", TokenOf[q], Subject[q], applied)
<1>3. ASSUME NEW q \in Requests, pc[q] \in Holding, copy'[q] = copy[q]
      PROVE  Held(q)'
  <2>1. Held(q)
    BY <1>3 DEF OwnOK
  <2>2. applied \cup {q} \subseteq applied' \cup {q}
    BY <1>1
  <2>3. \A k \in Columns : copy'[q][k] # Undefined =>
          Own(k, copy'[q][k], Subject[q], applied' \cup {q})
    BY <1>3, <2>1, <2>2, OwnGrows
  <2>4. Kind[q] = "reset" => Own("reset", TokenOf[q], Subject[q], applied')
    BY <1>1, <2>1, OwnGrows
  <2> QED
    BY <2>3, <2>4 DEF Own
<1>4. ASSUME Load(r) PROVE Held(r)'
  <2>1. /\ Kind[r] \notin {"register", "photo"} /\ Subject[r] \in Rows
        /\ copy'[r] = Edited(r, users[Subject[r]]) /\ applied' = applied
        /\ Kind[r] = "reset" => users[Subject[r]].reset = TokenOf[r]
    BY <1>4, AccountConstants DEF Load, Finds, Has, TypeOK
  <2>2. users[Subject[r]] \in [Columns -> Values]
    BY <2>1 DEF TypeOK, Rows
  <2>3. ASSUME NEW k \in Columns, copy'[r][k] # Undefined
        PROVE  Own(k, copy'[r][k], Subject[r], applied' \cup {r})
    <3>1. Own(k, users[Subject[r]][k], Subject[r], applied)
      BY <2>1 DEF OwnOK
    <3>2. Own(k, users[Subject[r]][k], Subject[r], applied \cup {r})
      BY <3>1, OwnGrows
    <3> QED
      BY <2>1, <2>2, <2>3, <3>2, EditedOwn
  <2>4. Kind[r] = "reset" => Own("reset", TokenOf[r], Subject[r], applied')
    BY <2>1 DEF OwnOK, Columns
  <2> QED
    BY <2>3, <2>4 DEF Own
<1>5. ASSUME NEW q \in Requests, pc'[q] \in Holding PROVE Held(q)'
  <2>1. CASE q # r
    BY <1>3, <1>5, <2>1, OthersKept
  <2>2. CASE q = r /\ Load(r)
    BY <1>4, <2>2
  <2>3. CASE q = r /\ ~Load(r)
    <3>1. pc[r] \in Holding /\ copy'[r] = copy[r]
      BY <1>5, <2>3 DEF Step, RefuseForm, CheckContact, InsertUser, InsertRefused,
         InsertProfile, Refuse, CheckPhone, SaveLooks, SaveWrites, WritePhoto,
         LinkPhoto, Fails, TokenExpires, Goto, Reply, End, Break, TypeOK, Holding
    <3> QED
      BY <1>3, <2>3, <3>1
  <2> QED
    BY <2>1, <2>2, <2>3
<1>6. ResetByToken'
  <2> SUFFICES ASSUME NEW q \in applied', Kind[q] = "reset"
               PROVE  Own("reset", TokenOf[q], Subject[q], applied')
    BY DEF ResetByToken, Own
  <2>1. CASE q \in applied
    <3>1. Own("reset", TokenOf[q], Subject[q], applied)
      BY <2>1 DEF OwnOK, ResetByToken, Own
    <3> QED
      BY <1>1, <3>1, OwnGrows
  <2>2. CASE q \notin applied
    <3>1. q = r /\ pc[r] = "writing"
      BY <1>1, <2>2 DEF PlaceOK
    <3> QED
      BY <1>1, <3>1, OwnGrows DEF OwnOK, Holding
  <2> QED
    BY <2>1, <2>2
<1> HIDE DEF Held
<1>7. \A q \in Requests : pc'[q] \in Holding => Held(q)'
  BY <1>5
<1> QED
  BY <1>2, <1>6, <1>7 DEF OwnOK, Held, Own

-----------------------------------------------------------------------------
(* One request at a time.                                                  *)

\* Without overlap a request has its account to itself from its start to its
\* answer: the object it holds is the row with its edit.
Alone(r) == \A q \in Requests \ {r} : Subject[q] = Subject[r] => pc[q] \in {"new", "done"}

SerialOK ==
    \A r \in Requests :
        /\ pc[r] \notin {"new", "done"} => Alone(r)
        /\ pc[r] \in Holding =>
             /\ copy[r] = Edited(r, users[Subject[r]])
             /\ Has(r, users[Subject[r]])
        /\ pc[r] = "writing" =>
             dirty[r] = {k \in Columns : /\ copy[r][k] # Undefined
                                         /\ copy[r][k] # users[Subject[r]][k]}

LEMMA SerialStep ==
    ASSUME ~Overlap, TypeOK, PlaceOK, CopyOK, SerialOK, NEW r \in Requests, Step(r)
    PROVE  SerialOK'
<1>1. ASSUME NEW q \in Requests, pc'[q] \notin {"new", "done"}
      PROVE  Alone(q)'
  <2>1. pc[r] # "new" => \A x \in Requests : pc[x] \in {"new", "done"} => pc'[x] = pc[x]
    <3>1. pc[r] # "done" \/ pc' = pc
      BY DEF Step, RefuseForm, CheckContact, InsertUser, InsertRefused, InsertProfile,
         Load, Refuse, CheckPhone, SaveLooks, SaveWrites, WritePhoto, LinkPhoto,
         Fails, TokenExpires, MayStart
    <3> QED
      BY <3>1, OthersKept
  <2>2. pc[r] = "new" => pc' = pc \/ Alone(r)
    BY DEF Step, RefuseForm, CheckContact, InsertUser, InsertRefused, InsertProfile,
         Load, Refuse, CheckPhone, SaveLooks, SaveWrites, WritePhoto, LinkPhoto,
         Fails, TokenExpires, MayStart, Alone, Holding
  <2>3. CASE pc' = pc
    BY <1>1, <2>3 DEF SerialOK, Alone
  <2>4. CASE pc[r] # "new"
    BY <1>1, <2>1, <2>4, OthersKept DEF SerialOK, Alone
  <2>5. CASE pc[r] = "new" /\ Alone(r)
    <3>1. CASE q = r
      BY <2>5, <3>1, OthersKept DEF Alone
    <3>2. CASE q # r
      <4>1. pc[q] \notin {"new", "done"}
        BY <1>1, <3>2, OthersKept
      <4>2. Alone(q) /\ Subject[q] # Subject[r]
        BY <2>5, <3>2, <4>1 DEF SerialOK, Alone
      <4> QED
        BY <3>2, <4>2, OthersKept DEF Alone
    <3> QED
      BY <3>1, <3>2
  <2> QED
    BY <2>2, <2>3, <2>4, <2>5
\* The row of a request that holds one changes only with the request itself.
<1>2. ASSUME NEW q \in Requests, q # r, pc[q] \in Holding
      PROVE  users'[Subject[q]] = users[Subject[q]]
  <2>1. CASE UNCHANGED users
    BY <2>1
  <2>2. CASE pc[r] = "hashing" /\ users' = [users EXCEPT ![r] = NewRow(r)]
    <3>1. Kind[r] = "register"
      BY <2>2 DEF PlaceOK
    <3>2. Subject[r] = r /\ Subject[q] # r
      BY <1>2, <2>2, <3>1, AccountConstants DEF SerialOK, Alone, Holding
    <3> QED
      BY <2>2, <3>2, AccountConstants DEF TypeOK
  <2>3. CASE \/ pc[r] = "writing" /\ users' = [users EXCEPT ![Subject[r]] = Written(r)]
             \/ pc[r] = "linking" /\ users' = [users EXCEPT ![Subject[r]].photo = r]
    <3>1. Subject[q] # Subject[r]
      BY <1>2, <2>3 DEF SerialOK, Alone, Holding
    <3> QED
      BY <2>3, <3>1, AccountConstants DEF TypeOK
  <2> QED
    BY <2>1, <2>2, <2>3, TableSteps
<1> DEFINE Held(q) ==
      /\ pc[q] \in Holding =>
           /\ copy[q] = Edited(q, users[Subject[q]])
           /\ Has(q, users[Subject[q]])
      /\ pc[q] = "writing" =>
           dirty[q] = {k \in Columns : /\ copy[q][k] # Undefined
                                       /\ copy[q][k] # users[Subject[q]][k]}
<1>3. ASSUME NEW q \in Requests, q # r PROVE Held(q)'
  <2>1. /\ pc'[q] = pc[q] /\ copy'[q] = copy[q] /\ dirty'[q] = dirty[q]
        /\ pc[q] \in Holding => users'[Subject[q]] = users[Subject[q]]
    BY <1>2, <1>3, OthersKept
  <2>2. Held(q)
    BY DEF SerialOK
  <2>3. CASE pc[q] \in Holding
    <3>1. /\ Edited(q, users[Subject[q]])' = Edited(q, users[Subject[q]])
          /\ Has(q, users[Subject[q]])' = Has(q, users[Subject[q]])
      BY <2>1, <2>3 DEF Edited, Has
    <3> QED
      BY <2>1, <2>2, <2>3, <3>1
  <2>4. CASE pc[q] \notin Holding
    BY <2>1, <2>4 DEF Holding
  <2> QED
    BY <2>3, <2>4
<1>4. Held(r)'
  <2>1. CASE Load(r)
    <3>1. /\ copy'[r] = Edited(r, users[Subject[r]]) /\ users' = users
          /\ pc'[r] # "writing"
          /\ Has(r, users[Subject[r]])
      BY <2>1 DEF Load, Finds, Goto, TypeOK
    <3>2. /\ Edited(r, users[Subject[r]])' = Edited(r, users[Subject[r]])
          /\ Has(r, users[Subject[r]])' = Has(r, users[Subject[r]])
      BY <3>1 DEF Edited, Has
    <3> QED
      BY <3>1, <3>2
  <2>2. CASE CheckPhone(r) \/ SaveLooks(r)
    <3>1. pc'[r] \in Holding => pc[r] \in Holding /\ users' = users /\ copy'[r] = copy[r]
      BY <2>2 DEF CheckPhone, SaveLooks, Holding, Goto, Reply, End, TypeOK
    <3>2. pc'[r] = "writing" =>
            dirty'[r] = {k \in Columns : /\ copy[r][k] # Undefined
                                         /\ copy[r][k] # users[Subject[r]][k]}
      BY <2>2 DEF CheckPhone, SaveLooks, Goto, Reply, End, TypeOK
    <3>3. pc[r] \in Holding =>
             /\ copy[r] = Edited(r, users[Subject[r]])
             /\ Has(r, users[Subject[r]])
      BY DEF SerialOK
    <3>4. users' = users =>
             /\ Edited(r, users[Subject[r]])' = Edited(r, users[Subject[r]])
             /\ Has(r, users[Subject[r]])' = Has(r, users[Subject[r]])
      BY DEF Edited, Has
    <3> QED
      BY <3>1, <3>2, <3>3, <3>4 DEF Holding
  <2>3. CASE TokenExpires(r)
    <3>1. Held(r)
      BY DEF SerialOK
    <3>2. /\ pc' = pc /\ copy' = copy /\ dirty' = dirty /\ users' = users
      BY <2>3 DEF TokenExpires
    <3>3. /\ Edited(r, users[Subject[r]])' = Edited(r, users[Subject[r]])
          /\ Has(r, users[Subject[r]])' = Has(r, users[Subject[r]])
      BY <3>2 DEF Edited, Has
    <3> QED
      BY <3>1, <3>2, <3>3
  <2>4. CASE ~(Load(r) \/ CheckPhone(r) \/ SaveLooks(r) \/ TokenExpires(r))
    <3>1. pc'[r] \notin Holding
      BY <2>4 DEF Step, RefuseForm, CheckContact, InsertUser, InsertRefused, InsertProfile,
         Refuse, SaveWrites, WritePhoto, LinkPhoto, Fails, Goto, Reply, End, Break,
         TypeOK, Holding
    <3> QED
      BY <3>1 DEF Holding
  <2> QED
    BY <2>1, <2>2, <2>3, <2>4
<1> QED
  BY <1>1, <1>3, <1>4 DEF SerialOK

-----------------------------------------------------------------------------
(* The invariants, and AccountBook.                                        *)

AccountsInv == /\ TypeOK /\ PlaceOK /\ CopyOK /\ AnswersOK /\ PhotosOK
               /\ DistinctOK /\ OwnOK
               /\ ~Overlap => SerialOK

LEMMA AccountsInvariant == Spec => []AccountsInv
<1>1. Init => AccountsInv
  <2> SUFFICES ASSUME Init PROVE AccountsInv
    OBVIOUS
  <2> USE AccountConstants DEF Init
  <2>1. TypeOK
    BY DEF TypeOK, Rows
  <2>2. PlaceOK /\ CopyOK /\ SerialOK
    BY DEF PlaceOK, CopyOK, SerialOK, Alone, Holding
  <2>3. AnswersOK
    BY DEF AnswersOK, AnsweredAsDone, ProfileComplete, Rows, Profiled, Holding
  <2>4. PhotosOK /\ DistinctOK
    BY DEF PhotosOK, PhotoServed, DistinctOK, Rows, Holding
  <2>5. OwnOK
    BY DEF OwnOK, ResetByToken, Rows, Holding
  <2> QED
    BY <2>1, <2>2, <2>3, <2>4, <2>5 DEF AccountsInv
<1>2. AccountsInv /\ [Next]_vars => AccountsInv'
  <2> SUFFICES ASSUME AccountsInv, [Next]_vars PROVE AccountsInv'
    OBVIOUS
  <2>1. ASSUME NEW r \in Requests, Step(r) PROVE AccountsInv'
    BY <2>1, TypeStep, PlaceStep, CopyStep, AnswersStep, PhotosStep,
       DistinctStep, OwnStep, SerialStep DEF AccountsInv
  <2>2. CASE UNCHANGED vars
    <3> USE <2>2 DEF vars, AccountsInv
    <3>1. TypeOK'
      BY DEF TypeOK, Rows
    <3>2. PlaceOK' /\ CopyOK'
      BY DEF PlaceOK, CopyOK, Rows
    <3>3. AnswersOK'
      BY DEF AnswersOK, AnsweredAsDone, ProfileComplete, Rows
    <3>4. PhotosOK' /\ DistinctOK'
      BY DEF PhotosOK, PhotoServed, Served, DistinctOK, Rows, Collisions
    <3>5. ~Overlap => SerialOK'
      <4>1. \A r \in Requests :
              /\ Edited(r, users[Subject[r]])' = Edited(r, users[Subject[r]])
              /\ Has(r, users[Subject[r]])' = Has(r, users[Subject[r]])
        BY DEF Edited, Has
      <4> QED
        BY <4>1 DEF SerialOK, Alone
    <3>6. OwnOK'
      BY DEF OwnOK, ResetByToken, Own, Rows
    <3> QED
      BY <3>1, <3>2, <3>3, <3>4, <3>5, <3>6
  <2> QED
    BY <2>1, <2>2, NextSteps
<1> QED
  BY <1>1, <1>2, PTL DEF Spec

\* Every variable keeps its type; in particular every row is one: no UPDATE
\* leaves a column with a value it cannot have.
THEOREM AccountTypes == Spec => []TypeOK
<1>1. AccountsInv => TypeOK
  BY DEF AccountsInv
<1> QED
  BY <1>1, AccountsInvariant, PTL

\* What a client was told is what happened, for any number of clients whose
\* requests overlap in any way and fail at any point.
THEOREM AccountAnswers == Spec => []AnsweredAsDone
<1>1. AccountsInv => AnsweredAsDone
  BY DEF AccountsInv, AnswersOK
<1> QED
  BY <1>1, AccountsInvariant, PTL

\* Every developer or broker whose registration was answered with success has a
\* profile.
THEOREM ProfilesComplete == Spec => []ProfileComplete
<1>1. AccountsInv => ProfileComplete
  BY DEF AccountsInv, AnswersOK
<1> QED
  BY <1>1, AccountsInvariant, PTL

\* Every photo a row names is on disk, also when a save writes an older photo
\* back.
THEOREM PhotosServed == Spec => []PhotoServed
<1>1. AccountsInv => PhotoServed
  BY DEF AccountsInv, PhotosOK
<1> QED
  BY <1>1, AccountsInvariant, PTL

\* Two accounts never share an address or a number, whatever the queries before
\* the INSERT and the UPDATE have seen.
THEOREM ContactsDistinct == Spec => []DistinctOK
<1>1. AccountsInv => DistinctOK
  BY DEF AccountsInv
<1> QED
  BY <1>1, AccountsInvariant, PTL

\* However requests about an account overlap, and whatever a save writes back, no
\* column ever holds what a refused request, one about another account or one that
\* gives nothing to this column brought.
THEOREM ValuesAreOwn == Spec => []OwnValues
<1>1. AccountsInv => OwnValues
  <2> SUFFICES ASSUME AccountsInv, NEW a \in Rows
               PROVE  \A k \in Columns : Own(k, users[a][k], a, applied)
    BY DEF OwnValues, Own
  <2> QED
    BY DEF AccountsInv, OwnOK
<1> QED
  BY <1>1, AccountsInvariant, PTL

\* A password is reset only with a token that forgotPassword, or a body, gave to that
\* account, also when a save has brought back an older one.
THEOREM ResetsAreByToken == Spec => []ResetByToken
<1>1. AccountsInv => ResetByToken
  BY DEF AccountsInv, OwnOK
<1> QED
  BY <1>1, AccountsInvariant, PTL

\* Without overlap an update of the profile changes only the columns that its body
\* brings.
THEOREM UpdatesSetTheirBody ==
    ASSUME ~Overlap PROVE Spec => UpdateSetsItsBody
<1> DEFINE A == \A r \in Requests :
                  Kind[r] = "update" /\ SaveWrites(r) =>
                      \A k \in Columns \ DOMAIN Body[r] :
                          users'[Subject[r]][k] = users[Subject[r]][k]
<1>1. AccountsInv => [A]_vars
  <2> SUFFICES ASSUME AccountsInv, NEW r \in Requests,
                      Kind[r] = "update", SaveWrites(r),
                      NEW k \in Columns \ DOMAIN Body[r]
               PROVE  users'[Subject[r]][k] = users[Subject[r]][k]
    BY Zenon
  <2>1. /\ pc[r] = "writing" /\ Subject[r] \in Rows
        /\ users[Subject[r]] \in [Columns -> Values]
        /\ copy[r] = Edited(r, users[Subject[r]])
    BY DEF SaveWrites, AccountsInv, PlaceOK, SerialOK, Holding, TypeOK, Rows
  <2>2. copy[r][k] = users[Subject[r]][k]
    <3>1. Assigned(r) = Body[r]
      BY DEF Assigned
    <3> QED
      BY <2>1, <3>1, EditedFields
  <2>3. Written(r)[k] = users[Subject[r]][k]
    BY <2>2 DEF Written
  <2>4. users' = users \/ users' = [users EXCEPT ![Subject[r]] = Written(r)]
    BY DEF SaveWrites
  <2> QED
    BY <2>1, <2>3, <2>4 DEF AccountsInv, TypeOK, Rows
<1> QED
  BY <1>1, AccountsInvariant, PTL DEF Spec, UpdateSetsItsBody

\* Without overlap, what an UPDATE leaves is the row with the request's effect.
LEMMA WrittenIsEffect ==
    ASSUME TypeOK, PlaceOK, CopyOK, SerialOK, NEW r \in Requests, pc[r] = "writing"
    PROVE  Written(r) = Book!Effect(r, users[Subject[r]])
<1> DEFINE row == users[Subject[r]]
<1>1. row \in [Columns -> Values]
  BY DEF TypeOK, PlaceOK, Holding, Rows
<1>2. Written(r) = [k \in Columns |-> IF Edited(r, row)[k] # Undefined
                                      THEN Edited(r, row)[k] ELSE row[k]]
  BY DEF Written, SerialOK, Holding
<1> HIDE DEF row
<1>3. \A k \in Columns : row[k] # Undefined
  BY <1>1, AccountConstants
<1>4. Book!Effect(r, row) = [k \in Columns |-> IF k \in DOMAIN Given(r) THEN Given(r)[k]
                                              ELSE row[k]]
  BY <1>1 DEF Book!Effect
<1>5. \A k \in Columns : (IF Edited(r, row)[k] # Undefined THEN Edited(r, row)[k] ELSE row[k])
                       = (IF k \in DOMAIN Given(r) THEN Given(r)[k] ELSE row[k])
  BY <1>1, <1>3, EditedFields DEF Given
<1> QED
  BY <1>2, <1>4, <1>5 DEF row

LEMMA DistinctBook == ASSUME DistinctOK' PROVE Book!Distinct(users')
BY DEF DistinctOK, Book!Distinct, Collisions, Rows

LEMMA InsertIsOpen ==
    ASSUME TypeOK, PlaceOK, AnswersOK, DistinctOK', NEW r \in Requests, InsertUser(r)
    PROVE  Book!Apply(r)
<1>1. Kind[r] = "register" /\ r \notin applied /\ users[r] = NoRow
  BY DEF InsertUser, PlaceOK, AnswersOK, Rows
<1>2. Book!Distinct(users')
  BY DistinctBook
<1>3. Given(r) = NewRow(r)
  <2>1. Assigned(r) = NewRow(r) /\ NewRow(r) \in [Columns -> Values]
    BY <1>1, NewRowIsRow DEF Assigned
  <2>2. \A k \in Columns : NewRow(r)[k] # Undefined
    BY <2>1, AccountConstants
  <2> QED
    BY <2>1, <2>2 DEF Given
<1>4. Book!Open(r)
  BY <1>1, <1>3 DEF InsertUser, Book!Open
<1> QED
  BY <1>1, <1>2, <1>4 DEF Book!Apply, InsertUser

LEMMA WriteIsAlter ==
    ASSUME TypeOK, PlaceOK, CopyOK, AnswersOK, SerialOK, DistinctOK',
           NEW r \in Requests, SaveWrites(r)
    PROVE  Book!Apply(r) \/ UNCHANGED Book!vars
<1> DEFINE a == Subject[r]
<1>1. /\ Kind[r] # "register" /\ r \notin applied /\ a \in Rows
      /\ Has(r, users[a]) /\ pc[r] = "writing"
  BY DEF SaveWrites, PlaceOK, AnswersOK, SerialOK, Holding
<1>2. Written(r) = Book!Effect(r, users[a])
  BY <1>1, WrittenIsEffect
<1>3. CASE users' = [users EXCEPT ![a] = Written(r)] /\ applied' = applied \cup {r}
  <2>1. users' = [users EXCEPT ![a] = Book!Effect(r, users[a])]
    BY <1>2, <1>3
  <2>2. Book!Alter(r)
    BY <1>1, <2>1 DEF Book!Alter, Has, Rows
  <2>3. Book!Distinct(users')
    BY DistinctBook
  <2> QED
    BY <1>1, <1>3, <2>2, <2>3 DEF Book!Apply
<1>4. CASE UNCHANGED <<users, applied>>
  BY <1>4 DEF Book!vars
<1> QED
  BY <1>3, <1>4 DEF SaveWrites

LEMMA LinkIsAlter ==
    ASSUME TypeOK, PlaceOK, AnswersOK, DistinctOK', NEW r \in Requests, LinkPhoto(r)
    PROVE  Book!Apply(r)
<1> DEFINE a == Subject[r]
<1>1. Kind[r] = "photo" /\ r \notin applied /\ a \in Rows
  BY DEF LinkPhoto, PlaceOK, AnswersOK
<1>2. Book!Effect(r, users[a]) = [users[a] EXCEPT !.photo = r]
  <2>1. Given(r) = [photo |-> r]
    BY <1>1, AccountConstants DEF Given, Assigned
  <2> QED
    BY <1>1, <2>1 DEF Book!Effect
<1>3. users' = [users EXCEPT ![a] = Book!Effect(r, users[a])]
  BY <1>2 DEF LinkPhoto
<1>4. Book!Alter(r)
  BY <1>1, <1>3 DEF Book!Alter, Rows
<1>5. Book!Distinct(users')
  BY DistinctBook
<1> QED
  BY <1>1, <1>4, <1>5 DEF Book!Apply, LinkPhoto

\* For any number of accounts and clients: while clients wait for an answer
\* before they ask again about the same account, the reads, awaits and writes of
\* the handlers amount to one step each, which changes the columns it gives.
THEOREM SerialImplementsBook ==
    ASSUME ~Overlap PROVE Spec => ImplementsBook
<1>1. Init => Book!Init
  BY DEF Init, Book!Init
<1>2. AccountsInv /\ AccountsInv' /\ [Next]_vars => [Book!Next]_(Book!vars)
  <2> SUFFICES ASSUME AccountsInv, AccountsInv', [Next]_vars
               PROVE  [Book!Next]_(Book!vars)
    OBVIOUS
  <2>1. /\ TypeOK /\ PlaceOK /\ CopyOK /\ AnswersOK /\ SerialOK
        /\ DistinctOK'
    BY DEF AccountsInv
  <2>2. ASSUME NEW r \in Requests, Step(r)
        PROVE  Book!Apply(r) \/ UNCHANGED Book!vars
    <3>1. InsertUser(r) => Book!Apply(r)
      BY <2>1, InsertIsOpen
    <3>2. SaveWrites(r) => Book!Apply(r) \/ UNCHANGED Book!vars
      BY <2>1, WriteIsAlter
    <3>3. LinkPhoto(r) => Book!Apply(r)
      BY <2>1, LinkIsAlter
    <3>4. ~(InsertUser(r) \/ SaveWrites(r) \/ LinkPhoto(r)) => UNCHANGED Book!vars
      BY <2>2 DEF Step, RefuseForm, CheckContact, InsertRefused, InsertProfile,
         Load, Refuse, CheckPhone, SaveLooks, WritePhoto, Fails, TokenExpires, Book!vars
    <3> QED
      BY <3>1, <3>2, <3>3, <3>4
  <2>3. UNCHANGED vars => UNCHANGED Book!vars
    BY DEF vars, Book!vars
  <2> QED
    BY <2>2, <2>3, NextSteps DEF Book!Next
<1> QED
  BY <1>1, <1>2, AccountsInvariant, PTL DEF Spec, ImplementsBook, Book!Spec
================================================================================
