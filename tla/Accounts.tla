------------------------------- MODULE Accounts -------------------------------
(***************************************************************************)
(* Requests to the accounts of the NestJS service                          *)
(* (nest_service/src/auth/auth.service.ts), by several clients at once.    *)
(*                                                                         *)
(* A request reads a user, awaits (a password hash, another query), edits  *)
(* the object it read and saves it.  TypeORM's save reads the row again,   *)
(* compares it with the object column by column, and updates the columns   *)
(* that differ, whichever of the two is older.  A property of the object   *)
(* that is undefined takes no part in this.                                *)
(*                                                                         *)
(* The validation of a form looks at the columns the form is for and lets  *)
(* others pass (main.ts sets no whitelist), and register and updateUser    *)
(* lay all they were given over their object: a body may bring any column. *)
(* Columns that are used together are one, and a body has all or none of   *)
(* them.  A body does not bring a primary key.                             *)
(*                                                                         *)
(* Tokens, passwords, names and photos are called after the request that   *)
(* made them.  Login and searches only read.                               *)
(***************************************************************************)
EXTENDS Naturals, FiniteSets

CONSTANTS Requests,  \* requests that may be made in a behaviour (a bound)
          Kind,      \* Kind[r]: the method it calls
          Subject,   \* Subject[r]: the registration of the account it is about
          Body,      \* Body[r]: the columns that the body of r brings
          TokenOf,   \* TokenOf[r]: the token that reset r gives
          RoleOf,    \* RoleOf[r]: the role registration r asks for
          Complete,  \* registrations that give an address, a contact and a licence
          Values,    \* what a column can hold
          NoRow,     \* no row of that id
          Null,      \* resetPasswordToken or avatarFileName is NULL
          Undefined, \* a property that was set to undefined
          Overlap,   \* may requests about one account overlap?
          MaxMade,   \* requests made in a behaviour (a bound)
          MaxFaults  \* failures and lost answers in a behaviour (a bound)

Kinds == {"register", "update", "change", "forgot", "reset", "verify", "photo"}

\* Requests whose form is checked before the handler looks at anything.
Checked == Kinds \ {"verify"}

\* Requests that a JWT must come with.
Guarded == {"update", "change", "photo"}

Roles == {"buyer", "developer", "broker"}

\* Registrations that want a profile, too.
Profiled == {r \in Requests : Kind[r] = "register" /\ RoleOf[r] \in Roles \ {"buyer"}}

Columns == {"email", "phone", "password", "status", "reset", "photo", "names"}

\* What a property of an object can hold.
Properties == Values \cup {Undefined}

\* What DTOs require: a registration's contact and names, a forgot's address.
Required(r) == CASE Kind[r] = "register" -> {"email", "phone", "names"}
                 [] Kind[r] = "forgot"   -> {"email"}
                 [] OTHER                -> {}

ASSUME AccountConstants ==
    /\ Kind \in [Requests -> Kinds]
    /\ Subject \in [Requests -> Requests]
    /\ Requests \cup {Null, "pending", "active"} \subseteq Values
    /\ \A r \in Requests :
         /\ Kind[Subject[r]] = "register"
         /\ Kind[r] = "register" => Subject[r] = r /\ RoleOf[r] \in Roles
         /\ Kind[r] = "reset" => TokenOf[r] \in Requests
         /\ DOMAIN Body[r] \subseteq Columns /\ Required(r) \subseteq DOMAIN Body[r]
         /\ Body[r] \in [DOMAIN Body[r] -> Values]
         /\ \A k \in DOMAIN Body[r] \cap {"reset", "photo"} : Body[r][k] \in {r, Null}
    /\ Null \notin Requests /\ Undefined \notin Values
    /\ NoRow \notin [Columns -> Properties]
    /\ Overlap \in BOOLEAN
    /\ MaxMade \in Nat /\ MaxFaults \in Nat

VARIABLES
    users,     \* users[a]: the row registration a made, or NoRow
    profiles,  \* registrations with a developer or broker profile
    disk,      \* photos under uploads/users
    expired,   \* reset tokens whose time is over
    pc,        \* how far each request is
    copy,      \* copy[r]: the object r works on
    dirty,     \* dirty[r]: the columns r's save found to differ
    answer,    \* what the client was told
    faults,    \* failures so far
    \* For the properties:
    applied    \* requests that wrote

vars == <<users, profiles, disk, expired, pc, copy, dirty, answer, faults, applied>>

Rows == {a \in Requests : users[a] # NoRow}

TypeOK ==
    /\ users \in [Requests -> [Columns -> Values] \cup {NoRow}]
    /\ copy \in [Requests -> [Columns -> Properties] \cup {NoRow}]
    /\ \A a \in Rows : /\ Kind[a] = "register"
                       /\ {users[a].reset, users[a].photo} \subseteq Requests \cup {Null}
    /\ profiles \subseteq Rows \cap Profiled
    /\ {disk, expired, applied} \subseteq SUBSET Requests
    /\ pc \in [Requests -> {"new", "hashing", "profiling", "checking", "saving",
                            "writing", "linking", "done"}]
    /\ dirty \in [Requests -> SUBSET Columns]
    /\ answer \in [Requests -> {"none", "ok", "refused", "error"}]
    /\ faults \in 0..MaxFaults

Init ==
    /\ users = [a \in Requests |-> NoRow]
    /\ profiles = {}
    /\ disk = {} /\ expired = {}
    /\ pc = [r \in Requests |-> "new"]
    /\ copy = [r \in Requests |-> NoRow]
    /\ dirty = [r \in Requests |-> {}]
    /\ answer = [r \in Requests |-> "none"]
    /\ faults = 0
    /\ applied = {}

Goto(r, l) == pc' = [pc EXCEPT ![r] = l] /\ UNCHANGED <<answer, faults>>

\* The answer ends the handler and with it its object.
End(r, a) == /\ pc' = [pc EXCEPT ![r] = "done"]
             /\ answer' = [answer EXCEPT ![r] = a]

Reply(r, a) == End(r, a) /\ UNCHANGED faults

\* A failure of the database, the disk or the service.
Break(r) == faults < MaxFaults /\ faults' = faults + 1 /\ End(r, "error")

Forget(r) == /\ copy' = [copy EXCEPT ![r] = NoRow]
             /\ dirty' = [dirty EXCEPT ![r] = {}]

\* Without Overlap, a client waits for an answer before it asks again about the
\* same account.
MayStart(r) ==
    /\ pc[r] = "new"
    /\ Cardinality({q \in Requests : pc[q] # "new"}) < MaxMade
    /\ Overlap \/ \A q \in Requests \ {r} :
                    Subject[q] = Subject[r] => pc[q] \in {"new", "done"}

\* The rows, other than a's, that a unique column would collide with.
Collisions(a, email, phone) ==
    {b \in Rows \ {a} : users[b].email = email \/ users[b].phone = phone}

-----------------------------------------------------------------------------
(* Forms: the DTOs, the guard of uploaded photos and validatePassword.     *)

RefuseForm(r) ==
    /\ MayStart(r) /\ Kind[r] \in Checked
    /\ Reply(r, "refused")
    /\ UNCHANGED <<users, profiles, disk, expired, copy, dirty, applied>>

\* Object.assign, or the spread of an object literal.
Over(f, g) == [k \in DOMAIN g |-> IF k \in DOMAIN f THEN f[k] ELSE g[k]]

-----------------------------------------------------------------------------
(* register.                                                               *)

\* The query for the e-mail or the number, then bcrypt.hash.
CheckContact(r) ==
    /\ MayStart(r) /\ Kind[r] = "register"
    /\ IF Collisions(r, Body[r].email, Body[r].phone) # {}
          THEN Reply(r, "refused")
          ELSE Goto(r, "hashing")
    /\ UNCHANGED <<users, profiles, disk, expired, copy, dirty, applied>>

\* The rest of the form comes last and decides.
NewRow(r) ==
    Over(Body[r], [email |-> Null, phone |-> Null, password |-> r, status |-> "pending",
                   reset |-> Null, photo |-> Null, names |-> Null])

\* A mistake: register answers without waiting for the profile.
InsertUserOnly(r) ==
    /\ pc[r] = "hashing"
    /\ Collisions(r, Body[r].email, Body[r].phone) = {}
    /\ users' = [users EXCEPT ![r] = NewRow(r)]
    /\ applied' = applied \cup {r}
    /\ Reply(r, "ok") \/ Break(r)
    /\ UNCHANGED <<profiles, disk, expired, copy, dirty>>

\* The INSERT.  The unique columns decide who was first; the row may be there
\* though the answer of the database is lost.
InsertUser(r) ==
    /\ pc[r] = "hashing"
    /\ Collisions(r, Body[r].email, Body[r].phone) = {}
    /\ users' = [users EXCEPT ![r] = NewRow(r)]
    /\ applied' = applied \cup {r}
    /\ \/ r \in Profiled /\ Goto(r, "profiling")
       \/ r \notin Profiled /\ Reply(r, "ok")
       \/ Break(r)
    /\ UNCHANGED <<profiles, disk, expired, copy, dirty>>

InsertRefused(r) ==
    /\ pc[r] = "hashing"
    /\ Collisions(r, Body[r].email, Body[r].phone) # {}
    /\ Reply(r, "error")
    /\ UNCHANGED <<users, profiles, disk, expired, copy, dirty, applied>>

\* A broker's profile has columns that its form need not give.
ProfileAccepted(r) == RoleOf[r] = "broker" => r \in Complete

\* The second INSERT of a developer or a broker: no transaction joins it to the
\* first.
InsertProfile(r) ==
    /\ pc[r] = "profiling"
    /\ \/ /\ ProfileAccepted(r)
          /\ profiles' = profiles \cup {r}
          /\ Reply(r, "ok") \/ Break(r)
       \/ ~ProfileAccepted(r) /\ Reply(r, "error") /\ UNCHANGED profiles
    /\ UNCHANGED <<users, disk, expired, copy, dirty, applied>>

-----------------------------------------------------------------------------
(* The requests that read a user, edit the object and save it.             *)

\* The guard looks up the user a JWT names.
SignedIn(r) == Kind[r] \in Guarded => Subject[r] \in Rows

\* A mistake: the reset finds the user without the token.
HasAnyToken(r, row) == Kind[r] = "forgot" => row.email = Body[r].email

\* The row forgotPassword or resetPassword asks for.  A verification may find any:
\* whoever was told the token finds the row that has it, and a body without
\* token the first row, for TypeORM leaves an undefined condition out.
Has(r, row) == /\ Kind[r] = "forgot" => row.email = Body[r].email
               /\ Kind[r] = "reset" => row.reset = TokenOf[r]

\* Does the query of request r find the user a?
Finds(r, a) ==
    /\ a \in Rows /\ Has(r, users[a])
    /\ Kind[r] \in Guarded => a = Subject[r]
    /\ Kind[r] = "reset" => TokenOf[r] \notin expired

\* What a request assigns to its object, or gives to its UPDATE.
Assigned(r) ==
    CASE Kind[r] = "register" -> NewRow(r)
      [] Kind[r] = "update"   -> Body[r]
      [] Kind[r] = "change"   -> [password |-> r]
      [] Kind[r] = "forgot"   -> [reset |-> r]
      [] Kind[r] = "reset"    -> [password |-> r, reset |-> Undefined]
      [] Kind[r] = "verify"   -> [status |-> "active"]
      [] Kind[r] = "photo"    -> [photo |-> r]

Edited(r, row) == Over(Assigned(r), row)

Load(r) ==
    /\ MayStart(r) /\ Kind[r] \notin {"register", "photo"} /\ Finds(r, Subject[r])
    /\ copy' = [copy EXCEPT ![r] = Edited(r, users[Subject[r]])]
    /\ Goto(r, IF Kind[r] = "update" /\ "phone" \in DOMAIN Body[r] THEN "checking"
               ELSE "saving")
    /\ UNCHANGED <<users, profiles, disk, expired, dirty, applied>>

\* The current password of a change, or the token of a verification, is wrong.
Refuse(r) ==
    /\ MayStart(r) /\ Kind[r] # "register"
    /\ (\A a \in Requests : ~Finds(r, a)) \/ Kind[r] \in {"change", "verify"}
    /\ Reply(r, "refused")
    /\ UNCHANGED <<users, profiles, disk, expired, copy, dirty, applied>>

\* updateUser asks whether the number is another user's.
CheckPhone(r) ==
    /\ pc[r] = "checking"
    /\ IF \E b \in Rows \ {Subject[r]} : users[b].phone = Body[r].phone
          THEN Reply(r, "refused") /\ Forget(r)
          ELSE Goto(r, "saving") /\ UNCHANGED <<copy, dirty>>
    /\ UNCHANGED <<users, profiles, disk, expired, applied>>

\* A mistake: a property that is undefined is written.
UndefinedIsWritten(r) ==
    /\ pc[r] = "saving"
    /\ dirty' = [dirty EXCEPT ![r] =
                   {k \in Columns : copy[r][k] # users[Subject[r]][k]}]
    /\ Goto(r, "writing")
    /\ UNCHANGED <<users, profiles, disk, expired, copy, applied>>

\* save, first half: the row as it is now against the object.
SaveLooks(r) ==
    /\ pc[r] = "saving"
    /\ dirty' = [dirty EXCEPT ![r] =
                   {k \in Columns : /\ copy[r][k] # Undefined
                                    /\ copy[r][k] # users[Subject[r]][k]}]
    /\ Goto(r, "writing")
    /\ UNCHANGED <<users, profiles, disk, expired, copy, applied>>

\* The row as the UPDATE of r leaves it.
Written(r) == [k \in Columns |-> IF k \in dirty[r] THEN copy[r][k]
                                 ELSE users[Subject[r]][k]]

\* A mistake: the violated unique column is swallowed.
CollisionIgnored(r) ==
    /\ pc[r] = "writing"
    /\ IF Collisions(Subject[r], Written(r).email, Written(r).phone) # {}
          THEN Reply(r, "ok") /\ UNCHANGED <<users, applied>>
          ELSE /\ users' = [users EXCEPT ![Subject[r]] = Written(r)]
               /\ applied' = applied \cup {r}
               /\ Reply(r, "ok") \/ Break(r)
    /\ Forget(r)
    /\ UNCHANGED <<profiles, disk, expired>>

\* save, second half: the columns that differed get the object's values.
SaveWrites(r) ==
    /\ pc[r] = "writing"
    /\ IF Collisions(Subject[r], Written(r).email, Written(r).phone) # {}
          THEN Reply(r, "error") /\ UNCHANGED <<users, applied>>
          ELSE /\ users' = [users EXCEPT ![Subject[r]] = Written(r)]
               /\ applied' = applied \cup {r}
               /\ Reply(r, "ok") \/ Break(r)
    /\ Forget(r)
    /\ UNCHANGED <<profiles, disk, expired>>

-----------------------------------------------------------------------------
(* uploadUserPhoto: the file, under a name of its own, and then the two    *)
(* avatar columns, and only these.                                         *)

\* A mistake: the row is updated while the file is being written.
LinksAtOnce(r) ==
    /\ MayStart(r) /\ Kind[r] = "photo" /\ SignedIn(r)
    /\ Goto(r, "linking")
    /\ UNCHANGED <<users, profiles, disk, expired, copy, dirty, applied>>

WritePhoto(r) ==
    /\ MayStart(r) /\ Kind[r] = "photo" /\ SignedIn(r)
    /\ disk' = disk \cup {r}
    /\ Goto(r, "linking")
    /\ UNCHANGED <<users, profiles, expired, copy, dirty, applied>>

LinkPhoto(r) ==
    /\ pc[r] = "linking"
    /\ users' = [users EXCEPT ![Subject[r]].photo = r]
    /\ applied' = applied \cup {r}
    /\ Reply(r, "ok") \/ Break(r)
    /\ UNCHANGED <<profiles, disk, expired, copy, dirty>>

-----------------------------------------------------------------------------
\* A statement, a hash or the file system fails, or the service goes down.
Fails(r) ==
    /\ pc[r] # "done" /\ (pc[r] = "new" => MayStart(r))
    /\ Break(r) /\ Forget(r)
    /\ UNCHANGED <<users, profiles, disk, expired, applied>>

\* The hour of a token, or the time a body gave it, is over.
TokenExpires(f) ==
    /\ f \in applied \ expired /\ "reset" \in DOMAIN Assigned(f)
    /\ Assigned(f).reset = f
    /\ expired' = expired \cup {f}
    /\ UNCHANGED <<users, profiles, disk, pc, copy, dirty, answer, faults, applied>>

Register(r) ==
    CheckContact(r) \/ InsertUser(r) \/ InsertRefused(r) \/ InsertProfile(r)

ReadEditSave(r) == Load(r) \/ Refuse(r) \/ SaveLooks(r) \/ SaveWrites(r)

UpdateUser(r) == Kind[r] = "update" /\ (ReadEditSave(r) \/ CheckPhone(r))

\* changePassword, forgotPassword, resetPassword
Passwords(r) == Kind[r] \in {"change", "forgot", "reset"} /\ ReadEditSave(r)

VerifyEmail(r) == Kind[r] = "verify" /\ ReadEditSave(r)

UploadUserPhoto(r) == WritePhoto(r) \/ LinkPhoto(r)

Next == \E r \in Requests :
    \/ RefuseForm(r) \/ Register(r) \/ UpdateUser(r) \/ Passwords(r)
    \/ VerifyEmail(r) \/ UploadUserPhoto(r) \/ Fails(r) \/ TokenExpires(r)

Spec == Init /\ [][Next]_vars
-----------------------------------------------------------------------------
(* Properties.                                                             *)

\* What a client was told is what happened: a request answered with success
\* was written, and one that was refused was not.  (The answers of register,
\* of the three password methods, of updateUser and of uploadUserPhoto.)
AnsweredAsDone ==
    \A r \in Requests : /\ answer[r] = "ok" => r \in applied
                        /\ answer[r] = "refused" => r \notin applied

\* A developer or broker who was registered successfully has a profile, and
\* nobody has one who has no account: the two INSERTs of register are not one
\* transaction.
ProfileComplete ==
    /\ \A r \in Profiled : answer[r] = "ok" => r \in profiles
    /\ profiles \subseteq Rows

\* Every photo that uploadUserPhoto left in a row can be served by getUserPhoto.
PhotoServed ==
    \A a \in Rows : /\ users[a].photo # Null /\ Kind[users[a].photo] = "photo"
                    => users[a].photo \in disk

\* A profile update sets what its body brings and nothing else: no step of
\* updateUser changes a password, a token, a photo or a status it was not given.
UpdateSetsItsBody ==
    [][\A r \in Requests :
          Kind[r] = "update" /\ SaveWrites(r) =>
              \A k \in Columns \ DOMAIN Body[r] :
                  users'[Subject[r]][k] = users[Subject[r]][k]]_vars

\* What request r leaves in the columns that it is for.
Given(r) == [k \in {c \in DOMAIN Assigned(r) : Assigned(r)[c] # Undefined} |-> Assigned(r)[k]]

\* However requests overlap and whatever old values a save writes back, each
\* column of an account holds what a request about this account that was written
\* gave to this column.
OwnValues ==
    \A a \in Rows, k \in Columns : \E q \in applied :
        /\ Subject[q] = a /\ k \in DOMAIN Given(q)
        /\ users[a][k] = Given(q)[k]

\* A password is reset only with a token that was given to the same account before,
\* by forgotPassword or in a body.
ResetByToken ==
    \A r \in applied : Kind[r] = "reset" => \E q \in applied :
        /\ Subject[q] = Subject[r] /\ "reset" \in DOMAIN Given(q)
        /\ Given(q).reset = TokenOf[r]

Book == INSTANCE AccountBook WITH book <- users, Gives <- [r \in Requests |-> Given(r)]

\* As long as the requests about one account do not overlap, each of them takes
\* effect once, in one step, changes only the columns it gives (an update those
\* that its body brings), and a reset only with the token that the row has then;
\* requests about different accounts may overlap in any way, also when they want
\* the same address or number.
ImplementsBook == Book!Spec
================================================================================
