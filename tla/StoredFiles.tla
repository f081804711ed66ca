------------------------------ MODULE StoredFiles ------------------------------
(***************************************************************************)
(* The files behind letters and countries.  The blobstore keeps a file     *)
(* under a key it makes up, then calls the application back; a handler of  *)
(* FileUpload loads the letter or country the form named, sets one of its  *)
(* properties to the key, and puts the whole entity.  When the site moved  *)
(* to another application its blobs were copied and got new keys;          *)
(* MigrationServlet goes through the letters of the last ninety days and   *)
(* replaces the old keys.  Nothing uses a transaction and nothing deletes  *)
(* a blob.                                                                 *)
(*                                                                         *)
(* What the other handlers do to a letter is LetterDatastore's subject;    *)
(* here they put back the keys they have read (a deleted letter stays, as  *)
(* one marked deleted).  The one Templates entity is left out.             *)
(***************************************************************************)
EXTENDS Naturals, FiniteSets

CONSTANTS
  Letters,        \* ids of letters
  Countries,      \* ids of countries
  Recent,         \* the letters no older than ninety days
  OldKeys,        \* blob keys of the application the site moved from
  NewKeys,        \* blob keys of this application
  OldFiles,       \* the files that came with the move, named by their old keys
  Moved,          \* __BlobMigration__: for keys that were copied, the new one
  Slots,          \* requests that may run at the same time
  MaxOverlaps,    \* bound on the requests that begin while another runs
  Nil,            \* not set, or not there yet
  Gone            \* there no more

Things == Letters \cup Countries
Keys == OldKeys \cup NewKeys

\* doCountryUpload knows a fourth kind of file, "background", which no page
\* sends: its form is commented out (admin_country_index.erb:103).
LetterKinds  == {"scan", "translation"}
CountryKinds == {"note", "template", "noun"}
Kinds == LetterKinds \cup CountryKinds

KindsOf(t) == IF t \in Letters THEN LetterKinds ELSE CountryKinds

\* A file, told from others by the key it was first stored under.
File == [kind : Kinds, of : Things, name : Keys]

\* The properties of an entity that hold keys, but for background_url, which
\* only a file of the kind left out would fill.
Fields == { "upload_file_url", "return_file_url",
            "note_url", "template_url", "noun_url" }

Entity == [Fields -> Keys \cup {Nil}]
Blank == [f \in Fields |-> Nil]

ASSUME FilesAssumption ==
  /\ Letters \cap Countries = {}
  /\ OldKeys \cap NewKeys = {}
  /\ OldFiles \subseteq {f \in File : f.kind \in KindsOf(f.of) /\ f.name \in OldKeys}
  /\ \A f, g \in OldFiles : f.name = g.name => f = g
  /\ \A f, g \in OldFiles : f.of = g.of /\ f.kind = g.kind => f = g
  /\ DOMAIN Moved \subseteq OldKeys
  /\ \A k \in DOMAIN Moved : Moved[k] \in NewKeys
  /\ \A j, k \in DOMAIN Moved : Moved[j] = Moved[k] => j = k
  /\ MaxOverlaps \in Nat
  /\ {Nil, Gone} \cap (Keys \cup File \cup Entity) = {}
  /\ Nil \notin [Kinds -> File \cup {Nil}] /\ Gone \notin [Kinds -> File \cup {Nil}]
  /\ Nil # Gone

VARIABLES
  blob,           \* the file under each key, or Nil
  thing,          \* the Letters and Countries entities, Nil or Gone
  req,            \* the request in each slot, or Nil
  filed,          \* history: the files that have been put in an entity
  migrated,       \* history: a migration has run to its end
  overlaps        \* history: requests that began while another ran

vars == <<blob, thing, req, filed, migrated, overlaps>>

\* The property each handler sets.
Field(kind) ==
  CASE kind = "scan"        -> "upload_file_url"
    [] kind = "translation" -> "return_file_url"
    [] kind = "note"        -> "note_url"
    [] kind = "template"    -> "template_url"
    [] kind = "noun"        -> "noun_url"

IsThere(r) == r \notin {Nil, Gone}
Exists(t) == IsThere(thing[t])

\* getMigratedBlobKey, and the key kept when there is no new one.
NewKey(k) == IF k \in DOMAIN Moved THEN Moved[k] ELSE k

\* Mutated form of Migrated: only the scan.
MigratedScan(r) == [r EXCEPT !["upload_file_url"] = NewKey(@)]

\* Mutated form of Migrated: an entity of the two keys is put, and no more.
MigratedAnew(r) == [f \in {"upload_file_url", "return_file_url"} |-> NewKey(r[f])]

\* Mutated form of Migrated: the translation is given the key of the scan.
MigratedCrossed(r) ==
  [r EXCEPT !["upload_file_url"] = NewKey(@),
            !["return_file_url"] = IF @ \in DOMAIN Moved
                                     THEN NewKey(r["upload_file_url"]) ELSE @]

\* MigrationServlet, for one letter.
Migrated(r) ==
  [r EXCEPT !["upload_file_url"] = NewKey(@),
            !["return_file_url"] = NewKey(@)]
-----------------------------------------------------------------------------
(***************************************************************************)
(* A request: the files or entities it works on, and what it has read.     *)
(***************************************************************************)
Request ==
  [ op    : Kinds \cup {"delete", "other", "migrate"},
    of    : Things \cup {Nil},                \* what the form names
    key   : Keys \cup {Nil},                  \* what has been uploaded
    found : [Things -> Entity \cup {Nil}],    \* what it has read, not yet put
    at    : {"called", "loaded"} ]

Nothing == [t \in Things |-> Nil]
Only(t) == [Nothing EXCEPT ![t] = thing[t]]

\* Slot s is free for a request, alone or while others run.
Free(s) ==
  /\ req[s] = Nil
  /\ IF \A u \in Slots : req[u] = Nil
       THEN UNCHANGED overlaps
       ELSE overlaps < MaxOverlaps /\ overlaps' = overlaps + 1

Begins(s, q) == Free(s) /\ req' = [req EXCEPT ![s] = q]

Ends(s) == req' = [req EXCEPT ![s] = Nil]

At(s, ops, place) == req[s] # Nil /\ req[s].op \in ops /\ req[s].at = place

\* What the entities look like when the site opens.
OldEntity(t) ==
  [f \in Fields |->
     IF \E g \in OldFiles : g.of = t /\ Field(g.kind) = f
       THEN (CHOOSE g \in OldFiles : g.of = t /\ Field(g.kind) = f).name
       ELSE Nil]

\* Letters and countries are as the old application left them, with files
\* under old keys; those that were copied are under their new keys as well.
Init ==
  /\ thing = [t \in Things |-> IF \E f \in OldFiles : f.of = t
                                 THEN OldEntity(t) ELSE Nil]
  /\ blob = [k \in Keys |->
       IF \E f \in OldFiles : k = f.name \/ k = NewKey(f.name)
         THEN CHOOSE f \in OldFiles : k = f.name \/ k = NewKey(f.name)
         ELSE Nil]
  /\ req = [s \in Slots |-> Nil]
  /\ filed = OldFiles
  /\ migrated = FALSE
  /\ overlaps = 0
-----------------------------------------------------------------------------
(***************************************************************************)
(* Uploads.                                                                *)
(***************************************************************************)
\* The blobstore has stored a file sent with the form for kind of t (for a
\* scan, the letter it will make) under a fresh key, and calls back.
BlobStored(s, kind, t, k) ==
  /\ k \in NewKeys
  /\ \A j \in DOMAIN Moved : k # Moved[j]
  /\ blob[k] = Nil
  /\ kind \in KindsOf(t)
  /\ IF kind = "scan"
       THEN thing[t] = Nil /\ \A u \in Slots : ~ (At(u, {"scan"}, "called") /\ req[u].of = t)
       ELSE thing[t] # Nil
  /\ blob' = [blob EXCEPT ![k] = [kind |-> kind, of |-> t, name |-> k]]
  /\ Begins(s, [op |-> kind, of |-> t, key |-> k, found |-> Nothing, at |-> "called"])
  /\ UNCHANGED <<thing, filed, migrated>>

\* doFileUpload: a new letter.
NewLetter(s) ==
  /\ At(s, {"scan"}, "called")
  /\ LET t == req[s].of  k == req[s].key
     IN  /\ thing' = [thing EXCEPT ![t] = [Blank EXCEPT ![Field("scan")] = k]]
         /\ filed' = filed \cup {blob[k]}
  /\ Ends(s)
  /\ UNCHANGED <<blob, migrated, overlaps>>

\* doReturnFileUpload and doCountryUpload: the entity is loaded; there is an
\* exception if it is not there, and the file stays without a place.
LoadsForUpload(s) ==
  /\ At(s, Kinds \ {"scan"}, "called")
  /\ IF Exists(req[s].of)
       THEN req' = [req EXCEPT ![s].found = Only(req[s].of), ![s].at = "loaded"]
       ELSE Ends(s)
  /\ UNCHANGED <<blob, thing, filed, migrated, overlaps>>

\* Mutated form of UploadPuts: only the property is put, on what is there.
UploadPutsOnlyIt(s) ==
  /\ At(s, Kinds \ {"scan"}, "loaded")
  /\ LET t == req[s].of  k == req[s].key
     IN  /\ thing' = [thing EXCEPT ![t] = [Blank EXCEPT ![Field(req[s].op)] = k]]
         /\ filed' = filed \cup {blob[k]}
  /\ Ends(s)
  /\ UNCHANGED <<blob, migrated, overlaps>>

\* The entity is put as it was loaded, with the key.
UploadPuts(s) ==
  /\ At(s, Kinds \ {"scan"}, "loaded")
  /\ LET t == req[s].of  k == req[s].key
     IN  /\ thing' = [thing EXCEPT ![t] = [req[s].found[t] EXCEPT ![Field(req[s].op)] = k]]
         /\ filed' = filed \cup {blob[k]}
  /\ Ends(s)
  /\ UNCHANGED <<blob, migrated, overlaps>>
-----------------------------------------------------------------------------
(***************************************************************************)
(* Countries, and the other handlers.                                      *)
(***************************************************************************)
CreateCountry(s, t) ==
  /\ t \in Countries
  /\ thing[t] = Nil
  /\ Free(s)
  /\ thing' = [thing EXCEPT ![t] = Blank]
  /\ UNCHANGED <<blob, req, filed, migrated>>

\* delete_country, or a handler of letters that leaves the keys alone, has
\* loaded t.
Loads(s, op, t) ==
  /\ op = IF t \in Countries THEN "delete" ELSE "other"
  /\ Exists(t)
  /\ Begins(s, [op |-> op, of |-> t, key |-> Nil, found |-> Only(t), at |-> "loaded"])
  /\ UNCHANGED <<blob, thing, filed, migrated>>

Destroys(s) ==
  /\ At(s, {"delete"}, "loaded")
  /\ thing' = [thing EXCEPT ![req[s].of] = Gone]
  /\ Ends(s)
  /\ UNCHANGED <<blob, filed, migrated, overlaps>>

OtherPuts(s) ==
  /\ At(s, {"other"}, "loaded")
  /\ thing' = [thing EXCEPT ![req[s].of] = req[s].found[req[s].of]]
  /\ Ends(s)
  /\ UNCHANGED <<blob, filed, migrated, overlaps>>
-----------------------------------------------------------------------------
(***************************************************************************)
(* The migration.                                                          *)
(***************************************************************************)
\* findByCreatedDate.
Migrate(s) ==
  /\ Begins(s, [op |-> "migrate", of |-> Nil, key |-> Nil, at |-> "loaded",
                found |-> [t \in Things |->
                             IF t \in Letters \cap Recent /\ Exists(t)
                               THEN thing[t] ELSE Nil]])
  /\ UNCHANGED <<blob, thing, filed, migrated>>

\* One letter; JDO puts an object only if a property of it was set.
MigrateLetter(s, t) ==
  /\ At(s, {"migrate"}, "loaded")
  /\ LET r == req[s].found[t]
     IN  /\ r # Nil
         /\ thing' = IF Migrated(r) = r THEN thing
                     ELSE [thing EXCEPT ![t] = Migrated(r)]
         /\ req' = [req EXCEPT ![s].found[t] = Nil]
  /\ UNCHANGED <<blob, filed, migrated, overlaps>>

MigrateEnds(s) ==
  /\ At(s, {"migrate"}, "loaded")
  /\ req[s].found = Nothing
  /\ migrated' = TRUE
  /\ Ends(s)
  /\ UNCHANGED <<blob, thing, filed, overlaps>>

\* Any request may stop where it is: an exception, a timeout, a restart.
Abort(s) ==
  /\ req[s] # Nil
  /\ Ends(s)
  /\ UNCHANGED <<blob, thing, filed, migrated, overlaps>>

Step(s) ==
  \/ \E kind \in Kinds, t \in Things, k \in Keys : BlobStored(s, kind, t, k)
  \/ NewLetter(s)
  \/ LoadsForUpload(s)
  \/ UploadPuts(s)
  \/ \E t \in Things : CreateCountry(s, t)
  \/ \E op \in {"delete", "other"}, t \in Things : Loads(s, op, t)
  \/ Destroys(s)
  \/ OtherPuts(s)
  \/ Migrate(s)
  \/ \E t \in Things : MigrateLetter(s, t)
  \/ MigrateEnds(s)
  \/ Abort(s)

Next == \E s \in Slots : Step(s)

Spec == Init /\ [][Next]_vars
-----------------------------------------------------------------------------
(***************************************************************************)
(* Properties.                                                             *)
(***************************************************************************)
\* Entities hold keys, and a request what it has read of them.
TypeOK ==
  /\ blob \in [Keys -> File \cup {Nil}]
  /\ thing \in [Things -> Entity \cup {Nil, Gone}]
  /\ req \in [Slots -> Request \cup {Nil}]
  /\ filed \subseteq File
  /\ migrated \in BOOLEAN
  /\ overlaps \in 0 .. MaxOverlaps

\* What an entity names is a file of it, and of that kind.
KeepsItsMeaning(t, r) ==
  \A kind \in Kinds :
    r[Field(kind)] # Nil =>
      /\ blob[r[Field(kind)]] # Nil
      /\ blob[r[Field(kind)]].kind = kind
      /\ blob[r[Field(kind)]].of = t

\* However uploads, migrations, deletions and the other handlers interleave,
\* and wherever they stop, a link on a page never opens a file that was
\* uploaded for another letter or country or as another kind of file, nor
\* one that was never stored (FileUpload, MigrationServlet).
FilesKeepTheirMeaning == \A t \in Things : Exists(t) => KeepsItsMeaning(t, thing[t])

\* After one whole migration that nothing overlapped, no recent letter is
\* left with a key of the old application that has a new one
\* (MigrationServlet.doGet, the letters uploaded and translated since
\* included).
MigrationLeavesNone ==
  migrated /\ overlaps = 0 =>
    \A t \in Letters \cap Recent : Exists(t) =>
      \A f \in Fields : thing[t][f] \notin DOMAIN Moved

\* The files of t, whatever keys they are under.
FilesOf(t) ==
  IF Exists(t)
    THEN [kind \in Kinds |-> IF thing[t][Field(kind)] = Nil THEN Nil
                             ELSE blob[thing[t][Field(kind)]]]
    ELSE thing[t]

shelf == [t \in Things |-> FilesOf(t)]

Shelf == INSTANCE FileShelf WITH Names <- Keys

\* As long as no two requests overlap, every step puts one file, never put
\* before, in its own place, makes or removes one letter or country, or
\* moves nothing; in particular a migration moves nothing, and nothing comes
\* back (FileUpload, MigrationServlet, delete_country).
ShelfUnlessRaced == [][overlaps' = 0 => Shelf!Next \/ UNCHANGED shelf]_vars
=============================================================================
