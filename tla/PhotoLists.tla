----------------------------- MODULE PhotoLists -----------------------------
(***************************************************************************)
(* The pictures of a hotel: a category's photos, the gallery and the logo. *)
(* The list is a column of a row, the picture an object of the storage, so *)
(* every handler walks through separate steps - read the list, put the     *)
(* object, write the list, delete what was dropped - and may stop between  *)
(* any two.  A new category and its first photos come from one form of the *)
(* browser, which sends them one by one and keeps what it could not send.  *)
(***************************************************************************)
EXTENDS FiniteSets, Functions, Naturals, SequencesExt

CONSTANTS
  Categories, \* categories that may be made
  Gallery,
  Logo,
  Photos,     \* objects of the storage, each of a name of its own
  Files,      \* files picked in the form of a new category
  Requests,   \* requests that can be on their way at once
  Nil

ASSUME PhotosAssumption == Nil \notin Photos

\* Who has a list of pictures.
Keepers == Categories \cup {Gallery, Logo}

VARIABLES
  made,   \* categories there are
  listed, \* the list of each owner
  stored, \* objects in the storage
  taken,  \* names given out: none is used again
  req,    \* request -> what it does and what it has read
  form,   \* the form of a new category
  raced   \* owners whose list was written by a request that had not seen the last write

photoVars == <<made, listed, stored, taken, req, form, raced>>

(***************************************************************************)
(* The handlers, as the steps they take.                                   *)
(***************************************************************************)
Brings == {"addPhoto", "addGalleryPhoto", "uploadLogo"} \* handlers that store a picture
Drawn == {"setPhotos", "setGallery"}                     \* the list comes from a screen
Removes == Drawn \cup {"removePhoto", "removeLogo"}

\* As if the object were deleted before the list forgot it.
SlipSteps(op) ==
  CASE op = "addPhoto"        -> <<"read", "put", "persist">>
    [] op = "addGalleryPhoto" -> <<"put", "read", "persist">>
    [] op = "uploadLogo"      -> <<"read", "drop", "put", "persist">>
    [] op = "updateSettings"  -> <<"persist">>
    [] op \in Removes         -> <<"read", "drop", "persist">>

Steps(op) ==
  CASE op = "addPhoto"        -> <<"read", "put", "persist">>
    [] op = "addGalleryPhoto" -> <<"put", "read", "persist">>
    [] op = "uploadLogo"      -> <<"read", "put", "persist", "drop">>
    [] op = "updateSettings"  -> <<"persist">>
    [] op \in Removes         -> <<"read", "persist", "drop">>

ServedBy(o) ==
  IF o = Gallery THEN {"addGalleryPhoto", "setGallery"}
  ELSE IF o = Logo THEN {"uploadLogo", "removeLogo", "updateSettings"}
  ELSE {"addPhoto", "removePhoto", "setPhotos"}

\* A list without a picture; none is listed twice.
Less(l, p) == IF p \in Range(l) THEN RemoveAt(l, CHOOSE i \in DOMAIN l : l[i] = p) ELSE l

\* What a handler writes, given the list it has read.
NextList(q) ==
  CASE q.op \in {"addPhoto", "addGalleryPhoto"} -> Append(q.seen, q.photo)
    [] q.op = "removePhoto" -> Less(q.seen, q.photo)
    [] q.op = "uploadLogo"  -> <<q.photo>>
    [] q.op = "removeLogo"  -> <<>>
    [] q.op \in Drawn \cup {"updateSettings"} -> q.sent

Dropped(q) == Range(q.seen) \ Range(NextList(q))

NewRequest(op, o, p, l) ==
  [op |-> op, owner |-> o, photo |-> p, sent |-> l, seen |-> <<>>, at |-> 1, fresh |-> TRUE]
Does(r, step) == req[r] # Nil /\ Steps(req[r].op)[req[r].at] = step
Advanced(q) == IF q.at = Len(Steps(q.op)) THEN Nil ELSE [q EXCEPT !.at = @ + 1]
Free(r) == req[r] = Nil

Blank == [open |-> FALSE, created |-> Nil, staged |-> {}, saving |-> Nil, first |-> FALSE,
          mine |-> {}, unheard |-> FALSE, rebuilt |-> FALSE]

PhotosInit ==
  /\ made \in {{}} \cup {{c} : c \in Categories}
  /\ listed = [o \in Keepers |-> <<>>]
  /\ stored = {} /\ taken = {} /\ raced = {}
  /\ req = [r \in Requests |-> Nil]
  /\ form = Blank

\* The lists a screen can make of the one it shows: one picture fewer, or a new cover.
Arrangements(l) ==
  {Less(l, p) : p \in Range(l)} \cup {<<p>> \o Less(l, p) : p \in Range(l)}

Send(r) == \E o \in made \cup {Gallery, Logo} : \E op \in ServedBy(o) :
  /\ Free(r)
  /\ \/ op \in Brings /\ \E p \in Photos \ taken :
          req' = [req EXCEPT ![r] = NewRequest(op, o, p, <<>>)] /\ taken' = taken \cup {p}
     \/ op = "removePhoto" /\ \E p \in Range(listed[o]) :
          req' = [req EXCEPT ![r] = NewRequest(op, o, p, <<>>)] /\ UNCHANGED taken
     \/ op \in Drawn /\ \E l \in Arrangements(listed[o]) :
          req' = [req EXCEPT ![r] = NewRequest(op, o, Nil, l)] /\ UNCHANGED taken
     \* The page of settings sends the logo it opened with.
     \/ op = "updateSettings" /\ listed[o] # <<>> /\ UNCHANGED taken
          /\ req' = [req EXCEPT ![r] = NewRequest(op, o, Nil, listed[o])]
     \/ op = "removeLogo" /\ req' = [req EXCEPT ![r] = NewRequest(op, o, Nil, <<>>)] /\ UNCHANGED taken
  /\ UNCHANGED <<made, listed, stored, form, raced>>

\* A list drawn on a screen is as old as the screen; the other handlers count from here.
ReadList(r) ==
  /\ Does(r, "read")
  /\ LET q == req[r]
         seen == listed[q.owner]
     IN IF q.op = "removePhoto" /\ q.photo \notin Range(seen)
        THEN req' = [req EXCEPT ![r] = Nil]
        ELSE req' = [req EXCEPT ![r] =
               [Advanced(q) EXCEPT !.seen = seen, !.fresh = IF q.op \in Drawn THEN @ ELSE TRUE]]
  /\ UNCHANGED <<made, listed, stored, taken, form, raced>>

PutImage(r) ==
  /\ Does(r, "put")
  /\ stored' = stored \cup {req[r].photo}
  /\ req' = [req EXCEPT ![r] = Advanced(@)]
  /\ UNCHANGED <<made, listed, taken, form, raced>>

\* The form hears that its photo is in, and goes on to the next file.
Uploaded ==
  [form EXCEPT !.staged = @ \ {form.saving.file},
               !.saving.left = @ \ {form.saving.file}, !.saving.by = Nil]
GaveUp == [form EXCEPT !.saving = Nil]
SentByForm(r) == form.saving # Nil /\ form.saving.by = r

PersistPhotos(r) ==
  /\ Does(r, "persist")
  /\ LET o == req[r].owner IN
     /\ listed' = [listed EXCEPT ![o] = NextList(req[r])]
     /\ raced' = IF req[r].fresh THEN raced ELSE raced \cup {o}
     /\ req' = [q \in Requests |->
          IF q = r THEN Advanced(req[q])
          ELSE IF req[q] # Nil /\ req[q].owner = o THEN [req[q] EXCEPT !.fresh = FALSE]
          ELSE req[q]]
  /\ form' = IF SentByForm(r) THEN Uploaded ELSE form
  /\ UNCHANGED <<made, stored, taken>>

\* Best effort: an object the storage failed to delete stays.
DropObjects(r) ==
  /\ Does(r, "drop")
  /\ \E gone \in SUBSET Dropped(req[r]) : stored' = stored \ gone
  /\ req' = [req EXCEPT ![r] = Advanced(@)]
  /\ UNCHANGED <<made, listed, taken, form, raced>>

\* The storage refuses, the connection to the database breaks or the process stops.
Fail(r) ==
  /\ ~Free(r)
  /\ req' = [req EXCEPT ![r] = Nil]
  /\ form' = IF SentByForm(r) THEN GaveUp ELSE form
  /\ UNCHANGED <<made, listed, stored, taken, raced>>

(***************************************************************************)
(* The form of a new category.  `saving' is the handler at work: it holds  *)
(* the files it started with and the request it waits for.                 *)
(***************************************************************************)
OpenForm ==
  /\ ~form.open /\ form.saving = Nil
  /\ form' = [Blank EXCEPT !.open = TRUE, !.first = made = {}]
  /\ UNCHANGED <<made, listed, stored, taken, req, raced>>

Stage(f) ==
  /\ form.open /\ form.saving = Nil
  /\ f \notin form.staged
  /\ form' = [form EXCEPT !.staged = @ \cup {f}]
  /\ UNCHANGED <<made, listed, stored, taken, req, raced>>

Submit ==
  /\ form.open /\ form.saving = Nil
  /\ form' = [form EXCEPT !.saving =
       [category |-> form.created, left |-> form.staged, file |-> Nil, by |-> Nil]]
  /\ UNCHANGED <<made, listed, stored, taken, req, raced>>

Remembered(c) == [form EXCEPT !.saving.category = c, !.created = c, !.mine = @ \cup {c}]

\* The category is made once; the answer may be lost on its way back.
CreateCategory ==
  /\ form.saving # Nil /\ form.saving.category = Nil
  /\ \E c \in Categories \ made :
       /\ made' = made \cup {c}
       /\ \/ form' = IF form.open THEN Remembered(c) ELSE [form EXCEPT !.saving.category = c]
          \/ form' = [form EXCEPT !.saving = Nil, !.mine = @ \cup {c}, !.unheard = TRUE]
  /\ UNCHANGED <<listed, stored, taken, req, raced>>

\* The empty page gives way to the page of categories, which builds the form anew.
RebuildForm ==
  /\ form.open /\ form.first /\ made # {}
  /\ form' = [Blank EXCEPT !.open = TRUE, !.saving = form.saving, !.mine = form.mine, !.rebuilt = TRUE]
  /\ UNCHANGED <<made, listed, stored, taken, req, raced>>

UploadStaged(r) ==
  /\ form.saving # Nil /\ form.saving.category # Nil /\ form.saving.by = Nil
  /\ Free(r)
  /\ \E f \in form.saving.left, p \in Photos \ taken :
       /\ req' = [req EXCEPT ![r] = NewRequest("addPhoto", form.saving.category, p, <<>>)]
       /\ form' = [form EXCEPT !.saving.file = f, !.saving.by = r]
       /\ taken' = taken \cup {p}
  /\ UNCHANGED <<made, listed, stored, raced>>

\* No answer in time: the form stops, the request may still go through.
UploadUnheard ==
  /\ form.saving # Nil /\ form.saving.by # Nil
  /\ form' = GaveUp
  /\ UNCHANGED <<made, listed, stored, taken, req, raced>>

\* The server refuses the category (its code is taken, say), or cannot be reached.
Refused ==
  /\ form.saving # Nil /\ form.saving.category = Nil
  /\ form' = GaveUp
  /\ UNCHANGED <<made, listed, stored, taken, req, raced>>

SavedAll ==
  /\ form.saving # Nil /\ form.saving.category # Nil /\ form.saving.by = Nil
  /\ form.saving.left = {}
  /\ form' = Blank
  /\ UNCHANGED <<made, listed, stored, taken, req, raced>>

CloseForm ==
  /\ form.open /\ form.saving = Nil
  /\ form' = Blank
  /\ UNCHANGED <<made, listed, stored, taken, req, raced>>

\* One step of a handler at work.
RequestStep(r) == ReadList(r) \/ PutImage(r) \/ PersistPhotos(r) \/ DropObjects(r) \/ Fail(r)
ListStep == \E r \in Requests : Send(r) \/ RequestStep(r)
FormStep ==
  \/ \E r \in Requests : UploadStaged(r) \/ RequestStep(r)
  \/ \E f \in Files : Stage(f)
  \/ OpenForm \/ Submit \/ CreateCategory \/ RebuildForm \/ UploadUnheard \/ Refused \/ SavedAll \/ CloseForm
PhotosNext == ListStep \/ FormStep
PhotosSpec == PhotosInit /\ [][PhotosNext]_photoVars

(***************************************************************************)
(* Properties.                                                             *)
(***************************************************************************)
\* Wherever a handler stops, a list that no outdated request has overwritten
\* names only pictures the storage has: a guest and the partner's slider are
\* never given a link to nothing, though objects nobody lists may remain.
PhotosExist == \A o \in Keepers \ raced : Range(listed[o]) \subseteq stored

\* However often its photos fail to upload and the form is sent again, one
\* form makes one category - unless the answer to its making was lost, or the
\* page rebuilt the form because the category was the hotel's first.
FormMakesOneCategory == form.open /\ ~form.unheard /\ ~form.rebuilt => Cardinality(form.mine) <= 1
=============================================================================
