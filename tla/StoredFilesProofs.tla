--------------------------- MODULE StoredFilesProofs ---------------------------
(***************************************************************************)
(* Proofs about StoredFiles, for any letters, countries, keys and number   *)
(* of requests.  FilesInv strengthens FilesKeepTheirMeaning: what requests *)
(* have read keeps its meaning as well, the file a request brings is the   *)
(* one it was sent with, and a copied blob is the same under both keys.    *)
(***************************************************************************)
EXTENDS StoredFiles, TLAPS

\* What holds of a request: what it has read keeps its meaning, the file it
\* brings is the one it was sent with, and it has read what it will put.
Sound(q) ==
  /\ q \in Request
  /\ \A t \in Things : q.found[t] # Nil => KeepsItsMeaning(t, q.found[t])
  /\ q.op \in Kinds =>
       /\ q.key \in Keys
       /\ q.of \in Things
       /\ blob[q.key] # Nil
       /\ blob[q.key].kind = q.op
       /\ blob[q.key].of = q.of
       /\ blob[q.key].name = q.key
       /\ (q.at = "loaded" => q.found[q.of] # Nil)
  /\ q.op \in {"delete", "other"} => q.of \in Things /\ q.found[q.of] # Nil

RequestsAreSound == \A s \in Slots : req[s] # Nil => Sound(req[s])

CopiesAreEqual == \A k \in DOMAIN Moved : blob[Moved[k]] = blob[k]

FilesInv ==
  /\ TypeOK
  /\ FilesKeepTheirMeaning
  /\ RequestsAreSound
  /\ CopiesAreEqual

LEMMA FieldsOfKinds ==
  /\ \A kind \in Kinds : Field(kind) \in Fields
  /\ \A j, k \in Kinds : Field(j) = Field(k) => j = k
  /\ \A f \in Fields : \E kind \in Kinds : f = Field(kind)
BY DEF Kinds, LetterKinds, CountryKinds, Field, Fields

LEMMA NewKeyIsKey == \A k \in Keys \cup {Nil} : NewKey(k) \in Keys \cup {Nil}
BY FilesAssumption DEF NewKey, Keys

\* A blob is written once, so what has its meaning keeps it.
LEMMA MeaningStays ==
  ASSUME blob \in [Keys -> File \cup {Nil}],
         NEW k \in Keys, blob[k] = Nil, NEW g \in File,
         blob' = [blob EXCEPT ![k] = g],
         NEW t \in Things, NEW r \in Entity, KeepsItsMeaning(t, r)
  PROVE  KeepsItsMeaning(t, r)'
BY FieldsOfKinds, FilesAssumption DEF KeepsItsMeaning, Entity

\* An entity of the migrated keys means what it did.
LEMMA MigratedKeepsMeaning ==
  ASSUME CopiesAreEqual, NEW t, NEW r \in Entity, KeepsItsMeaning(t, r)
  PROVE  /\ Migrated(r) \in Entity
         /\ KeepsItsMeaning(t, Migrated(r))
<1>1. Migrated(r) \in Entity
  BY NewKeyIsKey DEF Migrated, Entity, Fields
<1>2. \A f \in Fields : \/ Migrated(r)[f] = r[f]
                        \/ r[f] \in DOMAIN Moved /\ Migrated(r)[f] = Moved[r[f]]
  BY DEF Migrated, Entity, Fields, NewKey
<1>3. \A k \in DOMAIN Moved : k # Nil
  BY FilesAssumption DEF Keys
<1>4. KeepsItsMeaning(t, Migrated(r))
  <2>1. SUFFICES ASSUME NEW kind \in Kinds, Migrated(r)[Field(kind)] # Nil
                 PROVE  /\ blob[Migrated(r)[Field(kind)]] # Nil
                        /\ blob[Migrated(r)[Field(kind)]].kind = kind
                        /\ blob[Migrated(r)[Field(kind)]].of = t
    BY DEF KeepsItsMeaning
  <2>2. Field(kind) \in Fields
    BY FieldsOfKinds
  <2>3. CASE Migrated(r)[Field(kind)] = r[Field(kind)]
    BY <2>1, <2>3 DEF KeepsItsMeaning
  <2>4. CASE r[Field(kind)] \in DOMAIN Moved /\ Migrated(r)[Field(kind)] = Moved[r[Field(kind)]]
    BY <2>4, <1>3 DEF KeepsItsMeaning, CopiesAreEqual
  <2>5. QED
    BY <1>2, <2>2, <2>3, <2>4
<1>5. QED
  BY <1>1, <1>4

LEMMA InitFiles == Init => FilesInv
<1>1. SUFFICES ASSUME Init PROVE FilesInv
  OBVIOUS
<1>2. \A k \in Keys, f, g \in OldFiles :
        (k = f.name \/ k = NewKey(f.name)) /\ (k = g.name \/ k = NewKey(g.name)) => f = g
  BY FilesAssumption DEF NewKey, Keys
<1>3. \A f \in OldFiles : f \in File /\ f.name \in Keys /\ f.name \in OldKeys /\ f.kind \in Kinds /\ f.of \in Things
  BY FilesAssumption DEF File, Keys
<1>4. blob \in [Keys -> File \cup {Nil}]
  <2>1. \A k \in Keys : blob[k] \in File \cup {Nil}
    BY <1>1, <1>3 DEF Init
  <2>2. QED
    BY <1>1, <2>1 DEF Init
<1>5. \A f \in OldFiles : blob[f.name] = f /\ blob[NewKey(f.name)] = f
  <2>1. SUFFICES ASSUME NEW f \in OldFiles, NEW k \in Keys, k = f.name \/ k = NewKey(f.name)
                 PROVE  blob[k] = f
    BY <1>3, FilesAssumption DEF NewKey, Keys
  <2>2. blob[k] = CHOOSE g \in OldFiles : k = g.name \/ k = NewKey(g.name)
    BY <1>1, <2>1 DEF Init
  <2>3. QED
    BY <1>2, <2>1, <2>2
<1>6. \A t \in Things : OldEntity(t) \in Entity
  <2>1. SUFFICES ASSUME NEW t \in Things, NEW f \in Fields
                 PROVE  OldEntity(t)[f] \in Keys \cup {Nil}
    BY DEF Entity, OldEntity
  <2>2. QED
    BY <1>3 DEF OldEntity
<1>7. thing \in [Things -> Entity \cup {Nil, Gone}]
  BY <1>1, <1>6 DEF Init
<1>8. TypeOK
  <2>1. req \in [Slots -> Request \cup {Nil}]
    BY <1>1 DEF Init
  <2>2. overlaps \in 0 .. MaxOverlaps
    BY <1>1, FilesAssumption DEF Init
  <2>3. QED
    BY <1>1, <1>3, <1>4, <1>7, <2>1, <2>2 DEF Init, TypeOK
<1>9. FilesKeepTheirMeaning
  <2>1. SUFFICES ASSUME NEW t \in Things, Exists(t), NEW kind \in Kinds,
                        thing[t][Field(kind)] # Nil
                 PROVE  LET k == thing[t][Field(kind)]
                        IN  blob[k] # Nil /\ blob[k].kind = kind /\ blob[k].of = t
    BY DEF FilesKeepTheirMeaning, KeepsItsMeaning
  <2>2. thing[t] = OldEntity(t)
    BY <1>1, <2>1 DEF Init, Exists, IsThere
  <2>3. PICK g \in OldFiles : /\ g.of = t /\ Field(g.kind) = Field(kind)
                              /\ thing[t][Field(kind)] = g.name
    BY <2>1, <2>2, FieldsOfKinds DEF OldEntity
  <2>4. g.kind = kind
    BY <2>3, <1>3, FieldsOfKinds
  <2>5. blob[g.name] = g
    BY <1>5
  <2>6. g # Nil
    BY <1>3, FilesAssumption
  <2>7. QED
    BY <2>3, <2>4, <2>5, <2>6
<1>10. CopiesAreEqual
  <2>1. SUFFICES ASSUME NEW k \in DOMAIN Moved PROVE blob[Moved[k]] = blob[k]
    BY DEF CopiesAreEqual
  <2>2. k \in Keys /\ Moved[k] \in Keys /\ Moved[k] = NewKey(k)
    BY FilesAssumption DEF Keys, NewKey
  <2>3. CASE \E f \in OldFiles : f.name = k
    BY <2>2, <2>3, <1>5
  <2>4. CASE ~ \E f \in OldFiles : f.name = k
    <3>1. \A f \in OldFiles : k # f.name /\ k # NewKey(f.name)
      BY <2>4, <1>3, FilesAssumption DEF NewKey
    <3>2. \A f \in OldFiles : Moved[k] # f.name /\ Moved[k] # NewKey(f.name)
      BY <2>4, <1>3, FilesAssumption DEF NewKey
    <3>3. QED
      BY <1>1, <2>2, <3>1, <3>2 DEF Init
  <2>5. QED
    BY <2>3, <2>4
<1>11. RequestsAreSound
  BY <1>1 DEF Init, RequestsAreSound
<1>12. QED
  BY <1>8, <1>9, <1>10, <1>11 DEF FilesInv

-----------------------------------------------------------------------------
\* What an action leaves alone keeps the parts of the invariant about it.
LEMMA ThingsKept ==
  ASSUME FilesInv, UNCHANGED <<blob, thing>>
  PROVE  FilesKeepTheirMeaning' /\ CopiesAreEqual'
BY DEF FilesInv, FilesKeepTheirMeaning, KeepsItsMeaning, Exists, IsThere, CopiesAreEqual

LEMMA FreeType ==
  ASSUME TypeOK, NEW s \in Slots, Free(s)
  PROVE  overlaps' \in 0 .. MaxOverlaps
BY FilesAssumption DEF TypeOK, Free

LEMMA SlotSet ==
  ASSUME TypeOK, RequestsAreSound, UNCHANGED blob,
         NEW s \in Slots, NEW q, req' = [req EXCEPT ![s] = q],
         q = Nil \/ Sound(q)
  PROVE  /\ req' \in [Slots -> Request \cup {Nil}]
         /\ RequestsAreSound'
<1>1. req' \in [Slots -> Request \cup {Nil}]
  BY DEF TypeOK, Sound
<1>2. \A u \in Slots : req'[u] # Nil => Sound(req'[u])
  BY DEF RequestsAreSound, TypeOK
<1>3. \A r : Sound(r) => Sound(r)'
  BY DEF Sound, KeepsItsMeaning
<1>4. QED
  BY <1>1, <1>2, <1>3 DEF RequestsAreSound

LEMMA SlotEnds ==
  ASSUME TypeOK, RequestsAreSound, UNCHANGED blob, NEW s \in Slots, Ends(s)
  PROVE  /\ req' \in [Slots -> Request \cup {Nil}]
         /\ RequestsAreSound'
BY SlotSet DEF Ends

\* An entity that keeps its meaning is put.
LEMMA ThingSet ==
  ASSUME TypeOK, FilesKeepTheirMeaning, CopiesAreEqual, UNCHANGED blob,
         NEW t \in Things, NEW r \in Entity \cup {Nil, Gone},
         IsThere(r) => KeepsItsMeaning(t, r),
         thing' = [thing EXCEPT ![t] = r]
  PROVE  /\ thing' \in [Things -> Entity \cup {Nil, Gone}]
         /\ FilesKeepTheirMeaning'
         /\ CopiesAreEqual'
BY DEF TypeOK, FilesKeepTheirMeaning, KeepsItsMeaning, Exists, IsThere, CopiesAreEqual

LEMMA OnlyOne ==
  ASSUME TypeOK, FilesKeepTheirMeaning, NEW t \in Things, Exists(t)
  PROVE  /\ Only(t) \in [Things -> Entity \cup {Nil}]
         /\ Only(t)[t] # Nil
         /\ \A u \in Things : Only(t)[u] # Nil => KeepsItsMeaning(u, Only(t)[u])
BY DEF TypeOK, FilesKeepTheirMeaning, Exists, IsThere, Only, Nothing

LEMMA BlobStoredFiles ==
  ASSUME FilesInv, NEW s \in Slots, NEW kind \in Kinds, NEW t \in Things,
         NEW k \in Keys, BlobStored(s, kind, t, k)
  PROVE  FilesInv'
<1> DEFINE g == [kind |-> kind, of |-> t, name |-> k]
           q == [op |-> kind, of |-> t, key |-> k, found |-> Nothing, at |-> "called"]
<1>1. /\ g \in File
      /\ g # Nil
      /\ blob[k] = Nil
      /\ blob' = [blob EXCEPT ![k] = g]
      /\ req' = [req EXCEPT ![s] = q]
      /\ UNCHANGED <<thing, filed, migrated>>
      /\ Free(s)
  BY FilesAssumption DEF BlobStored, Begins, File
<1>2. q \in Request
  BY DEF Request, Nothing
<1>3. /\ blob' \in [Keys -> File \cup {Nil}]
      /\ blob'[k] = g
      /\ \A j \in Keys : blob[j] # Nil => blob'[j] = blob[j]
  BY <1>1 DEF FilesInv, TypeOK
<1>4. TypeOK'
  BY <1>1, <1>2, <1>3, FreeType DEF FilesInv, TypeOK
<1>5. \A u \in Things, r \in Entity : KeepsItsMeaning(u, r) => KeepsItsMeaning(u, r)'
  BY <1>1, MeaningStays DEF FilesInv, TypeOK
<1>6. FilesKeepTheirMeaning'
  BY <1>1, <1>5 DEF FilesInv, TypeOK, FilesKeepTheirMeaning, Exists, IsThere
<1>7. RequestsAreSound'
  <2>1. SUFFICES ASSUME NEW u \in Slots, NEW r, r = req'[u], r # Nil PROVE Sound(r)'
    BY DEF RequestsAreSound
  <2>2. CASE u = s
    <3>1. r = q
      BY <1>1, <2>1, <2>2 DEF FilesInv, TypeOK
    <3>2. Sound(q)'
      BY <1>1, <1>2, <1>3 DEF Sound, Nothing, Kinds, LetterKinds, CountryKinds
    <3>3. QED
      BY <3>1, <3>2
  <2>3. CASE u # s
    <3>1. r \in Request /\ Sound(r)
      BY <1>1, <2>1, <2>3 DEF FilesInv, TypeOK, RequestsAreSound
    <3>2. \A v \in Things : r.found[v] # Nil => r.found[v] \in Entity
      BY <3>1 DEF Request
    <3>3. QED
      BY <1>3, <1>5, <3>1, <3>2 DEF Sound
  <2>4. QED
    BY <2>2, <2>3
<1>8. CopiesAreEqual'
  <2>1. \A j \in DOMAIN Moved : j # k /\ Moved[j] # k /\ j \in Keys /\ Moved[j] \in Keys
    BY FilesAssumption DEF BlobStored, Keys
  <2>2. QED
    BY <1>1, <2>1 DEF FilesInv, TypeOK, CopiesAreEqual
<1>9. QED
  BY <1>4, <1>6, <1>7, <1>8 DEF FilesInv

\* The steps that leave blobs and entities alone but change one slot.
LEMMA OnlySlotChanges ==
  ASSUME FilesInv, NEW s \in Slots, NEW q, q = Nil \/ Sound(q),
         req' = [req EXCEPT ![s] = q], UNCHANGED <<blob, thing, filed>>,
         migrated' \in BOOLEAN, overlaps' \in 0 .. MaxOverlaps
  PROVE  FilesInv'
BY ThingsKept, SlotSet DEF FilesInv, TypeOK

\* The steps that put or remove one entity and end the request.
LEMMA PutAndEnd ==
  ASSUME FilesInv, NEW s \in Slots, NEW t \in Things,
         NEW r \in Entity \cup {Nil, Gone}, IsThere(r) => KeepsItsMeaning(t, r),
         thing' = [thing EXCEPT ![t] = r], Ends(s),
         UNCHANGED <<blob, migrated, overlaps>>, filed' \subseteq File
  PROVE  FilesInv'
BY ThingSet, SlotEnds DEF FilesInv, TypeOK

LEMMA BlankIsEntity == Blank \in Entity
BY DEF Blank, Entity

\* Setting the property of a kind to a file of that kind.
LEMMA FieldSet ==
  ASSUME NEW t, NEW r \in Entity, KeepsItsMeaning(t, r),
         NEW kind \in Kinds, NEW k \in Keys,
         blob[k] # Nil, blob[k].kind = kind, blob[k].of = t
  PROVE  /\ [r EXCEPT ![Field(kind)] = k] \in Entity
         /\ KeepsItsMeaning(t, [r EXCEPT ![Field(kind)] = k])
BY FieldsOfKinds DEF KeepsItsMeaning, Entity

LEMMA NewLetterFiles ==
  ASSUME FilesInv, NEW s \in Slots, NewLetter(s)
  PROVE  FilesInv'
<1> DEFINE t == req[s].of
           k == req[s].key
           r == [Blank EXCEPT ![Field("scan")] = k]
<1>1. Sound(req[s]) /\ req[s].op = "scan" /\ "scan" \in Kinds
  BY DEF FilesInv, RequestsAreSound, NewLetter, At, Kinds, LetterKinds
<1>2. t \in Things /\ k \in Keys /\ blob[k] # Nil /\ blob[k].kind = "scan" /\ blob[k].of = t
  BY <1>1 DEF Sound
<1>3. KeepsItsMeaning(t, Blank)
  BY FieldsOfKinds DEF KeepsItsMeaning, Blank
<1>4. r \in Entity /\ KeepsItsMeaning(t, r)
  BY <1>1, <1>2, <1>3, BlankIsEntity, FieldSet
<1>5. filed' \subseteq File
  BY <1>2 DEF NewLetter, FilesInv, TypeOK
<1>6. thing' = [thing EXCEPT ![t] = r] /\ Ends(s) /\ UNCHANGED <<blob, migrated, overlaps>>
  BY DEF NewLetter
<1> HIDE DEF t, r
<1>7. QED
  BY <1>2, <1>4, <1>5, <1>6, PutAndEnd

LEMMA LoadsForUploadFiles ==
  ASSUME FilesInv, NEW s \in Slots, LoadsForUpload(s)
  PROVE  FilesInv'
<1> DEFINE t == req[s].of
           q == [req[s] EXCEPT !.found = Only(t), !.at = "loaded"]
<1>1. Sound(req[s]) /\ req[s] \in Request /\ req[s].op \in Kinds /\ t \in Things
  BY DEF FilesInv, RequestsAreSound, LoadsForUpload, At, Sound
<1>2. UNCHANGED <<blob, thing, filed, migrated, overlaps>>
  BY DEF LoadsForUpload
<1>3. migrated' \in BOOLEAN /\ overlaps' \in 0 .. MaxOverlaps
  BY <1>2 DEF FilesInv, TypeOK
<1>4. CASE Exists(t)
  <2>1. /\ Only(t) \in [Things -> Entity \cup {Nil}]
        /\ Only(t)[t] # Nil
        /\ \A u \in Things : Only(t)[u] # Nil => KeepsItsMeaning(u, Only(t)[u])
    BY <1>1, <1>4, OnlyOne DEF FilesInv
  <2>2. /\ q \in Request /\ q.op = req[s].op /\ q.of = t /\ q.key = req[s].key
        /\ q.found = Only(t) /\ q.at = "loaded"
    BY <1>1, <2>1 DEF Request
  <2>3. Sound(q)
    BY <1>1, <2>1, <2>2 DEF Sound, Kinds, LetterKinds, CountryKinds
  <2>4. req' = [req EXCEPT ![s] = q]
    BY <1>4 DEF LoadsForUpload, FilesInv, TypeOK
  <2> HIDE DEF q
  <2>5. QED
    BY <1>2, <1>3, <2>3, <2>4, OnlySlotChanges
<1>5. CASE ~ Exists(t)
  BY <1>2, <1>3, <1>5, OnlySlotChanges DEF LoadsForUpload, Ends
<1>6. QED
  BY <1>4, <1>5

LEMMA UploadPutsFiles ==
  ASSUME FilesInv, NEW s \in Slots, UploadPuts(s)
  PROVE  FilesInv'
<1> DEFINE t == req[s].of
           k == req[s].key
           r == [req[s].found[t] EXCEPT ![Field(req[s].op)] = k]
<1>1. Sound(req[s]) /\ req[s] \in Request /\ req[s].op \in Kinds /\ req[s].at = "loaded"
  BY DEF FilesInv, RequestsAreSound, UploadPuts, At, Sound
<1>2. /\ t \in Things /\ k \in Keys
      /\ blob[k] # Nil /\ blob[k].kind = req[s].op /\ blob[k].of = t
      /\ req[s].found[t] # Nil /\ KeepsItsMeaning(t, req[s].found[t])
  BY <1>1 DEF Sound
<1>3. req[s].found[t] \in Entity
  BY <1>1, <1>2 DEF Request
<1>4. r \in Entity /\ KeepsItsMeaning(t, r)
  BY <1>1, <1>2, <1>3, FieldSet
<1>5. filed' \subseteq File
  BY <1>2 DEF UploadPuts, FilesInv, TypeOK
<1>6. thing' = [thing EXCEPT ![t] = r] /\ Ends(s) /\ UNCHANGED <<blob, migrated, overlaps>>
  BY DEF UploadPuts
<1> HIDE DEF t, r
<1>7. QED
  BY <1>2, <1>4, <1>5, <1>6, PutAndEnd

LEMMA CreateCountryFiles ==
  ASSUME FilesInv, NEW s \in Slots, NEW t \in Things, CreateCountry(s, t)
  PROVE  FilesInv'
<1>1. KeepsItsMeaning(t, Blank)
  BY FieldsOfKinds DEF KeepsItsMeaning, Blank
<1>2. thing' \in [Things -> Entity \cup {Nil, Gone}] /\ FilesKeepTheirMeaning' /\ CopiesAreEqual'
  BY <1>1, BlankIsEntity, ThingSet DEF FilesInv, CreateCountry
<1>3. TypeOK'
  BY <1>2, FreeType DEF FilesInv, TypeOK, CreateCountry
<1>4. RequestsAreSound'
  <2>1. \A q : Sound(q) => Sound(q)'
    BY DEF Sound, KeepsItsMeaning, CreateCountry
  <2>2. QED
    BY <2>1 DEF FilesInv, RequestsAreSound, CreateCountry
<1>5. QED
  BY <1>2, <1>3, <1>4 DEF FilesInv

LEMMA LoadsFiles ==
  ASSUME FilesInv, NEW s \in Slots, NEW op \in {"delete", "other"},
         NEW t \in Things, Loads(s, op, t)
  PROVE  FilesInv'
<1> DEFINE q == [op |-> op, of |-> t, key |-> Nil, found |-> Only(t), at |-> "loaded"]
<1>1. /\ Only(t) \in [Things -> Entity \cup {Nil}]
      /\ Only(t)[t] # Nil
      /\ \A u \in Things : Only(t)[u] # Nil => KeepsItsMeaning(u, Only(t)[u])
  BY OnlyOne DEF FilesInv, Loads
<1>2. q \in Request
  BY <1>1 DEF Request
<1>3. Sound(q)
  BY <1>1, <1>2 DEF Sound, Kinds, LetterKinds, CountryKinds
<1>4. /\ req' = [req EXCEPT ![s] = q]
      /\ UNCHANGED <<blob, thing, filed, migrated>>
      /\ overlaps' \in 0 .. MaxOverlaps /\ migrated' \in BOOLEAN
  BY FreeType DEF Loads, Begins, FilesInv, TypeOK
<1> HIDE DEF q
<1>5. QED
  BY <1>3, <1>4, OnlySlotChanges

LEMMA DestroysFiles ==
  ASSUME FilesInv, NEW s \in Slots, Destroys(s)
  PROVE  FilesInv'
<1>1. req[s].of \in Things
  BY DEF FilesInv, RequestsAreSound, Sound, Destroys, At
<1>2. filed' \subseteq File /\ ~ IsThere(Gone)
  BY DEF Destroys, FilesInv, TypeOK, IsThere
<1>3. QED
  BY <1>1, <1>2, PutAndEnd DEF Destroys

LEMMA OtherPutsFiles ==
  ASSUME FilesInv, NEW s \in Slots, OtherPuts(s)
  PROVE  FilesInv'
<1>1. Sound(req[s]) /\ req[s] \in Request /\ req[s].op = "other"
  BY DEF FilesInv, RequestsAreSound, Sound, OtherPuts, At
<1>2. /\ req[s].of \in Things
      /\ req[s].found[req[s].of] \in Entity
      /\ KeepsItsMeaning(req[s].of, req[s].found[req[s].of])
  BY <1>1 DEF Sound, Request
<1>3. filed' \subseteq File
  BY DEF OtherPuts, FilesInv, TypeOK
<1>4. QED
  BY <1>2, <1>3, PutAndEnd DEF OtherPuts

LEMMA MigrateFiles ==
  ASSUME FilesInv, NEW s \in Slots, Migrate(s)
  PROVE  FilesInv'
<1> DEFINE found == [t \in Things |-> IF t \in Letters \cap Recent /\ Exists(t)
                                        THEN thing[t] ELSE Nil]
           q == [op |-> "migrate", of |-> Nil, key |-> Nil, at |-> "loaded",
                 found |-> found]
<1>1. \A t \in Things : Exists(t) => thing[t] \in Entity /\ KeepsItsMeaning(t, thing[t])
  BY DEF FilesInv, TypeOK, FilesKeepTheirMeaning, Exists, IsThere
<1>2. q \in Request
  BY <1>1 DEF Request
<1>3. Sound(q)
  BY <1>1, <1>2 DEF Sound, Kinds, LetterKinds, CountryKinds
<1>4. /\ req' = [req EXCEPT ![s] = q]
      /\ UNCHANGED <<blob, thing, filed, migrated>>
      /\ overlaps' \in 0 .. MaxOverlaps /\ migrated' \in BOOLEAN
  BY FreeType DEF Migrate, Begins, FilesInv, TypeOK
<1> HIDE DEF q
<1>5. QED
  BY <1>3, <1>4, OnlySlotChanges

LEMMA MigrateLetterFiles ==
  ASSUME FilesInv, NEW s \in Slots, NEW t \in Things, MigrateLetter(s, t)
  PROVE  FilesInv'
<1> DEFINE r == req[s].found[t]
           q == [req[s] EXCEPT !.found[t] = Nil]
<1>1. Sound(req[s]) /\ req[s] \in Request /\ req[s].op = "migrate" /\ r # Nil
  BY DEF FilesInv, RequestsAreSound, Sound, MigrateLetter, At
<1>2. r \in Entity /\ KeepsItsMeaning(t, r)
  BY <1>1 DEF Sound, Request
<1>3. Migrated(r) \in Entity /\ KeepsItsMeaning(t, Migrated(r))
  BY <1>2, MigratedKeepsMeaning DEF FilesInv
<1>4. UNCHANGED <<blob, filed, migrated, overlaps>>
  BY DEF MigrateLetter
<1>5. /\ thing' \in [Things -> Entity \cup {Nil, Gone}]
      /\ FilesKeepTheirMeaning'
      /\ CopiesAreEqual'
  <2>1. CASE Migrated(r) = r
    BY <2>1, <1>4, ThingsKept DEF MigrateLetter, FilesInv, TypeOK
  <2>2. CASE Migrated(r) # r
    <3>1. thing' = [thing EXCEPT ![t] = Migrated(r)]
      BY <2>2 DEF MigrateLetter
    <3> HIDE DEF r
    <3>2. QED
      BY <3>1, <1>3, <1>4, ThingSet DEF FilesInv
  <2>3. QED
    BY <2>1, <2>2
<1>6. Sound(q)
  <2>1. /\ q \in Request /\ q.op = "migrate"
        /\ \A u \in Things : q.found[u] # Nil => q.found[u] = req[s].found[u]
    BY <1>1 DEF Request
  <2>2. QED
    BY <1>1, <2>1 DEF Sound, Kinds, LetterKinds, CountryKinds
<1>7. req' = [req EXCEPT ![s] = q]
  BY DEF MigrateLetter, FilesInv, TypeOK
<1> HIDE DEF q
<1>8. req' \in [Slots -> Request \cup {Nil}] /\ RequestsAreSound'
  BY <1>4, <1>6, <1>7, SlotSet DEF FilesInv
<1>9. QED
  BY <1>4, <1>5, <1>8 DEF FilesInv, TypeOK

\* The invariant holds in every state, whatever interleaves.
THEOREM FilesInvariant == Spec => []FilesInv
<1>1. FilesInv /\ [Next]_vars => FilesInv'
  <2>1. SUFFICES ASSUME FilesInv, [Next]_vars PROVE FilesInv'
    OBVIOUS
  <2>2. CASE UNCHANGED vars
    <3>1. \A q : Sound(q) => Sound(q)'
      BY <2>2 DEF vars, Sound, KeepsItsMeaning
    <3>2. RequestsAreSound'
      BY <2>1, <2>2, <3>1 DEF vars, FilesInv, RequestsAreSound
    <3>3. TypeOK'
      BY <2>1, <2>2 DEF vars, FilesInv, TypeOK
    <3>4. QED
      BY <2>1, <2>2, <3>2, <3>3, ThingsKept DEF vars, FilesInv
  <2>3. ASSUME NEW s \in Slots, Step(s) PROVE FilesInv'
    <3>1. CASE \E kind \in Kinds, t \in Things, k \in Keys : BlobStored(s, kind, t, k)
      BY <2>1, <3>1, BlobStoredFiles
    <3>2. CASE NewLetter(s)
      BY <2>1, <3>2, NewLetterFiles
    <3>3. CASE LoadsForUpload(s)
      BY <2>1, <3>3, LoadsForUploadFiles
    <3>4. CASE UploadPuts(s)
      BY <2>1, <3>4, UploadPutsFiles
    <3>5. CASE \E t \in Things : CreateCountry(s, t)
      BY <2>1, <3>5, CreateCountryFiles
    <3>6. CASE \E op \in {"delete", "other"}, t \in Things : Loads(s, op, t)
      BY <2>1, <3>6, LoadsFiles
    <3>7. CASE Destroys(s)
      BY <2>1, <3>7, DestroysFiles
    <3>8. CASE OtherPuts(s)
      BY <2>1, <3>8, OtherPutsFiles
    <3>9. CASE Migrate(s)
      BY <2>1, <3>9, MigrateFiles
    <3>10. CASE \E t \in Things : MigrateLetter(s, t)
      BY <2>1, <3>10, MigrateLetterFiles
    <3>11. CASE MigrateEnds(s)
      BY <2>1, <3>11, OnlySlotChanges DEF MigrateEnds, Ends, FilesInv, TypeOK
    <3>12. CASE Abort(s)
      BY <2>1, <3>12, OnlySlotChanges DEF Abort, Ends, FilesInv, TypeOK
    <3>13. QED
      BY <2>3, <3>1, <3>2, <3>3, <3>4, <3>5, <3>6, <3>7, <3>8, <3>9, <3>10, <3>11, <3>12
         DEF Step
  <2>4. QED
    BY <2>1, <2>2, <2>3 DEF Next
<1>2. QED
  BY InitFiles, <1>1, PTL DEF Spec

\* Entities hold keys, and requests what they have read of them.
THEOREM FilesType == Spec => []TypeOK
<1>1. FilesInv => TypeOK
  BY DEF FilesInv
<1>2. QED
  BY FilesInvariant, <1>1, PTL

\* However uploads, migrations, deletions and the other handlers interleave,
\* a link never opens a file of another letter or country or kind.
THEOREM LinksOpenTheirFiles == Spec => []FilesKeepTheirMeaning
<1>1. FilesInv => FilesKeepTheirMeaning
  BY DEF FilesInv
<1>2. QED
  BY FilesInvariant, <1>1, PTL

-----------------------------------------------------------------------------
(***************************************************************************)
(* Requests that do not overlap.                                           *)
(***************************************************************************)
\* A blob is of a kind its letter or country has.
KindsFit == \A k \in Keys : blob[k] # Nil => blob[k].kind \in KindsOf(blob[k].of)

\* What has been put somewhere is under the key that names it.
FiledAreStored == \A f \in filed : blob[f.name] = f

ReadIsCurrent(q) == \A t \in Things : q.found[t] # Nil => thing[t] = q.found[t]

UploadIsNew(q) ==
  q.op \in Kinds =>
    /\ q.key \in NewKeys
    /\ blob[q.key] = [kind |-> q.op, of |-> q.of, name |-> q.key]
    /\ blob[q.key] \notin filed
    /\ q.op = "scan" => thing[q.of] = Nil

Clean(t) == \A f \in Fields : thing[t][f] \notin DOMAIN Moved

MigratesTheRest(q) ==
  q.op = "migrate" =>
    \A t \in Letters \cap Recent : Exists(t) /\ q.found[t] = Nil => Clean(t)

Alone ==
  /\ \A s, u \in Slots : req[s] # Nil /\ req[u] # Nil => s = u
  /\ \A s \in Slots : req[s] # Nil =>
       ReadIsCurrent(req[s]) /\ UploadIsNew(req[s]) /\ MigratesTheRest(req[s])
  /\ migrated => \A t \in Letters \cap Recent : Exists(t) => Clean(t)

AloneInv ==
  /\ KindsFit
  /\ FiledAreStored
  /\ overlaps = 0 => Alone

LEMMA BeginsAlone ==
  ASSUME TypeOK, NEW s \in Slots, Free(s), overlaps' = 0
  PROVE  overlaps = 0 /\ \A u \in Slots : req[u] = Nil
BY FilesAssumption DEF TypeOK, Free

LEMMA NotGone ==
  ASSUME NEW r \in Entity
  PROVE  r # Nil /\ r # Gone /\ IsThere(r)
BY FilesAssumption DEF IsThere

\* The one request goes on or ends, with entities and files as they are.
LEMMA AloneGoesOn ==
  ASSUME FilesInv, AloneInv, NEW s \in Slots, NEW q, req' = [req EXCEPT ![s] = q],
         req[s] # Nil \/ \A u \in Slots : req[u] = Nil,
         overlaps' = 0 => overlaps = 0,
         UNCHANGED <<blob, thing, filed, migrated>>,
         overlaps = 0 => \/ q = Nil
                         \/ ReadIsCurrent(q) /\ UploadIsNew(q) /\ MigratesTheRest(q)
  PROVE  AloneInv'
<1>1. KindsFit' /\ FiledAreStored'
  BY DEF AloneInv, KindsFit, FiledAreStored
<1>2. ASSUME overlaps' = 0 PROVE Alone'
  <2>1. Alone
    BY <1>2 DEF AloneInv
  <2>2. \A r : /\ ReadIsCurrent(r) => ReadIsCurrent(r)'
               /\ UploadIsNew(r) => UploadIsNew(r)'
               /\ MigratesTheRest(r) => MigratesTheRest(r)'
    BY DEF ReadIsCurrent, UploadIsNew, MigratesTheRest, Exists, Clean
  <2>3. \A u \in Slots : req'[u] = IF u = s THEN q ELSE req[u]
    BY DEF FilesInv, TypeOK
  <2>4. \A u \in Slots : u # s => req'[u] = Nil
    BY <2>1, <2>3 DEF Alone
  <2>5. \A u \in Slots : req'[u] # Nil => u = s /\ req'[u] = q
    BY <2>3, <2>4
  <2>6. q # Nil => (ReadIsCurrent(q) /\ UploadIsNew(q) /\ MigratesTheRest(q))'
    BY <1>2, <2>2
  <2>7. \A t : Exists(t)' = Exists(t) /\ Clean(t)' = Clean(t)
    BY DEF Exists, Clean
  <2>8. \A u \in Slots : \A r : r = req'[u] /\ r # Nil =>
          (ReadIsCurrent(r) /\ UploadIsNew(r) /\ MigratesTheRest(r))'
    BY <2>5, <2>6
  <2>9. \A u, v \in Slots : req'[u] # Nil /\ req'[v] # Nil => u = v
    BY <2>5
  <2>10. migrated' => \A t \in Letters \cap Recent : Exists(t)' => Clean(t)'
    BY <2>1, <2>7 DEF Alone
  <2>11. QED
    BY <2>8, <2>9, <2>10 DEF Alone
<1>3. QED
  BY <1>1, <1>2 DEF AloneInv

\* A request begins, with entities and files as they are.
LEMMA AloneBegins ==
  ASSUME FilesInv, AloneInv, NEW s \in Slots, NEW q, req' = [req EXCEPT ![s] = q],
         overlaps' = 0 => overlaps = 0 /\ \A u \in Slots : req[u] = Nil,
         UNCHANGED <<blob, thing, filed, migrated>>,
         ReadIsCurrent(q) /\ UploadIsNew(q) /\ MigratesTheRest(q)
  PROVE  AloneInv'
<1>1. CASE \A u \in Slots : req[u] = Nil
  BY <1>1, AloneGoesOn
<1>2. CASE overlaps' # 0
  BY <1>2 DEF AloneInv, KindsFit, FiledAreStored
<1>3. QED
  BY <1>1, <1>2

LEMMA InitAlone == Init => AloneInv
<1>1. SUFFICES ASSUME Init PROVE AloneInv
  OBVIOUS
<1>2. \A k \in Keys, f, g \in OldFiles :
        (k = f.name \/ k = NewKey(f.name)) /\ (k = g.name \/ k = NewKey(g.name)) => f = g
  BY FilesAssumption DEF NewKey, Keys
<1>3. \A f \in OldFiles : f \in File /\ f.name \in Keys /\ f.kind \in KindsOf(f.of)
  BY FilesAssumption DEF File, Keys
<1>4. KindsFit
  BY <1>1, <1>3 DEF Init, KindsFit
<1>5. FiledAreStored
  <2>1. SUFFICES ASSUME NEW f \in OldFiles PROVE blob[f.name] = f
    BY <1>1 DEF Init, FiledAreStored
  <2>2. blob[f.name] = CHOOSE g \in OldFiles : f.name = g.name \/ f.name = NewKey(g.name)
    BY <1>1, <1>3 DEF Init
  <2>3. QED
    BY <1>2, <1>3, <2>2
<1>6. Alone
  BY <1>1 DEF Init, Alone
<1>7. QED
  BY <1>4, <1>5, <1>6 DEF AloneInv

LEMMA BlobStoredAlone ==
  ASSUME FilesInv, AloneInv, NEW s \in Slots, NEW kind \in Kinds, NEW t \in Things,
         NEW k \in Keys, BlobStored(s, kind, t, k)
  PROVE  AloneInv'
<1> DEFINE g == [kind |-> kind, of |-> t, name |-> k]
           q == [op |-> kind, of |-> t, key |-> k, found |-> Nothing, at |-> "called"]
<1>1. /\ g \in File /\ g # Nil /\ k \in NewKeys
      /\ blob[k] = Nil
      /\ kind \in KindsOf(t)
      /\ kind = "scan" => thing[t] = Nil
      /\ blob' = [blob EXCEPT ![k] = g]
      /\ req' = [req EXCEPT ![s] = q]
      /\ UNCHANGED <<thing, filed, migrated>>
      /\ Free(s)
  BY FilesAssumption DEF BlobStored, Begins, File
<1>2. \A j \in Keys : blob'[j] = IF j = k THEN g ELSE blob[j]
  BY <1>1 DEF FilesInv, TypeOK
<1>3. KindsFit'
  BY <1>1, <1>2 DEF AloneInv, KindsFit
<1>4. \A f \in filed : f \in File /\ f.name \in Keys /\ f # Nil
  BY FilesAssumption DEF FilesInv, TypeOK, File
<1>5. \A f \in filed : f.name # k
  BY <1>1, <1>4 DEF AloneInv, FiledAreStored
<1>6. FiledAreStored'
  BY <1>1, <1>2, <1>4, <1>5 DEF AloneInv, FiledAreStored
<1>7. ASSUME overlaps' = 0 PROVE Alone'
  <2>1. Alone /\ \A u \in Slots : req[u] = Nil
    BY <1>1, <1>7, BeginsAlone DEF FilesInv, AloneInv
  <2>2. \A u \in Slots : req'[u] # Nil => u = s /\ req'[u] = q
    BY <1>1, <2>1 DEF FilesInv, TypeOK
  <2>3. (ReadIsCurrent(q) /\ UploadIsNew(q) /\ MigratesTheRest(q))'
    BY <1>1, <1>2, <1>5 DEF ReadIsCurrent, UploadIsNew, MigratesTheRest, Nothing,
       Kinds, LetterKinds, CountryKinds
  <2>4. \A u : Exists(u)' = Exists(u) /\ Clean(u)' = Clean(u)
    BY <1>1 DEF Exists, Clean
  <2>5. \A u \in Slots : \A r : r = req'[u] /\ r # Nil =>
          (ReadIsCurrent(r) /\ UploadIsNew(r) /\ MigratesTheRest(r))'
    BY <2>2, <2>3
  <2>6. \A u, v \in Slots : req'[u] # Nil /\ req'[v] # Nil => u = v
    BY <2>2
  <2>7. migrated' => \A u \in Letters \cap Recent : Exists(u)' => Clean(u)'
    BY <1>1, <2>1, <2>4 DEF Alone
  <2>8. QED
    BY <2>5, <2>6, <2>7 DEF Alone
<1>8. QED
  BY <1>3, <1>6, <1>7 DEF AloneInv

\* The one request puts or removes an entity and ends.
LEMMA AlonePuts ==
  ASSUME FilesInv, AloneInv, NEW s \in Slots, req[s] # Nil, NEW t \in Things,
         NEW r \in Entity \cup {Nil, Gone}, thing' = [thing EXCEPT ![t] = r],
         Ends(s), UNCHANGED <<blob, migrated, overlaps>>,
         FiledAreStored',
         overlaps = 0 /\ migrated /\ t \in Letters \cap Recent /\ IsThere(r) =>
           \A f \in Fields : r[f] \notin DOMAIN Moved
  PROVE  AloneInv'
<1>1. KindsFit'
  BY DEF AloneInv, KindsFit
<1>2. ASSUME overlaps' = 0 PROVE Alone'
  <2>1. Alone /\ overlaps = 0
    BY <1>2 DEF AloneInv
  <2>2. \A u \in Slots : req'[u] = Nil
    BY <2>1 DEF Alone, Ends, FilesInv, TypeOK
  <2>3. \A u \in Things : thing'[u] = IF u = t THEN r ELSE thing[u]
    BY DEF FilesInv, TypeOK
  <2>4. ASSUME NEW u \in Letters \cap Recent, migrated, Exists(u)' PROVE Clean(u)'
    BY <2>1, <2>3, <2>4 DEF Alone, Exists, IsThere, Clean, Things
  <2>5. QED
    BY <2>2, <2>4 DEF Alone
<1>3. QED
  BY <1>1, <1>2 DEF AloneInv

LEMMA UploadOf ==
  ASSUME FilesInv, AloneInv, NEW s \in Slots, req[s] # Nil, req[s].op \in Kinds
  PROVE  /\ req[s].key \in Keys
         /\ req[s].of \in Things
         /\ blob[req[s].key] # Nil
         /\ blob[req[s].key] \in File
         /\ blob[req[s].key].kind = req[s].op
         /\ blob[req[s].key].of = req[s].of
         /\ blob[req[s].key].name = req[s].key
         /\ overlaps = 0 => req[s].key \in NewKeys
BY DEF FilesInv, RequestsAreSound, Sound, TypeOK, AloneInv, Alone, UploadIsNew

LEMMA NewLetterAlone ==
  ASSUME FilesInv, AloneInv, NEW s \in Slots, NewLetter(s)
  PROVE  AloneInv'
<1> DEFINE t == req[s].of
           k == req[s].key
           r == [Blank EXCEPT ![Field("scan")] = k]
<1>1. req[s] # Nil /\ req[s].op = "scan" /\ req[s].op \in Kinds
  BY DEF NewLetter, At, Kinds, LetterKinds
<1>2. FiledAreStored'
  BY <1>1, UploadOf DEF NewLetter, AloneInv, FiledAreStored
<1>3. r \in Entity
  BY <1>1, UploadOf, BlankIsEntity, FieldsOfKinds DEF Entity
<1>4. overlaps = 0 => \A f \in Fields : r[f] \notin DOMAIN Moved
  BY <1>1, UploadOf, FilesAssumption, FieldsOfKinds DEF Blank, Keys
<1>5. /\ thing' = [thing EXCEPT ![t] = r] /\ Ends(s)
      /\ UNCHANGED <<blob, migrated, overlaps>> /\ t \in Things
  BY <1>1, UploadOf DEF NewLetter
<1> HIDE DEF t, r
<1>6. QED
  BY <1>1, <1>2, <1>3, <1>4, <1>5, AlonePuts

LEMMA LoadsForUploadAlone ==
  ASSUME FilesInv, AloneInv, NEW s \in Slots, LoadsForUpload(s)
  PROVE  AloneInv'
<1> DEFINE t == req[s].of
           q == [req[s] EXCEPT !.found = Only(t), !.at = "loaded"]
<1>1. req[s] # Nil /\ req[s] \in Request /\ req[s].op \in Kinds \ {"scan"}
  BY DEF LoadsForUpload, At, FilesInv, TypeOK
<1>2. UNCHANGED <<blob, thing, filed, migrated, overlaps>>
  BY DEF LoadsForUpload
<1>3. CASE Exists(t)
  <2>1. /\ q.op = req[s].op /\ q.of = t /\ q.key = req[s].key
        /\ q.found = Only(t)
    BY <1>1 DEF Request
  <2>2. ReadIsCurrent(q)
    BY <2>1 DEF ReadIsCurrent, Only, Nothing
  <2>3. overlaps = 0 => UploadIsNew(q)
    BY <1>1, <2>1 DEF AloneInv, Alone, UploadIsNew
  <2>4. MigratesTheRest(q)
    BY <1>1, <2>1 DEF MigratesTheRest, Kinds, LetterKinds, CountryKinds
  <2>5. req' = [req EXCEPT ![s] = q]
    BY <1>3 DEF LoadsForUpload, FilesInv, TypeOK
  <2> HIDE DEF q
  <2>6. QED
    BY <1>1, <1>2, <2>2, <2>3, <2>4, <2>5, AloneGoesOn
<1>4. CASE ~ Exists(t)
  BY <1>1, <1>2, <1>4, AloneGoesOn DEF LoadsForUpload, Ends
<1>5. QED
  BY <1>3, <1>4

LEMMA UploadPutsAlone ==
  ASSUME FilesInv, AloneInv, NEW s \in Slots, UploadPuts(s)
  PROVE  AloneInv'
<1> DEFINE t == req[s].of
           k == req[s].key
           r == [req[s].found[t] EXCEPT ![Field(req[s].op)] = k]
<1>1. req[s] # Nil /\ req[s].op \in Kinds /\ req[s].at = "loaded" /\ req[s] \in Request
  BY DEF UploadPuts, At, FilesInv, TypeOK
<1>2. FiledAreStored'
  BY <1>1, UploadOf DEF UploadPuts, AloneInv, FiledAreStored
<1>3. t \in Things /\ k \in Keys /\ req[s].found[t] # Nil /\ req[s].found[t] \in Entity
  <2>1. Sound(req[s])
    BY <1>1 DEF FilesInv, RequestsAreSound
  <2>2. QED
    BY <1>1, <2>1 DEF Sound, Request
<1>4. r \in Entity
  BY <1>1, <1>3, FieldsOfKinds DEF Entity
<1>5. overlaps = 0 /\ migrated /\ t \in Letters \cap Recent =>
        \A f \in Fields : r[f] \notin DOMAIN Moved
  <2>1. SUFFICES ASSUME overlaps = 0, migrated, t \in Letters \cap Recent
                 PROVE  \A f \in Fields : r[f] \notin DOMAIN Moved
    OBVIOUS
  <2>2. thing[t] = req[s].found[t]
    BY <1>1, <1>3, <2>1 DEF AloneInv, Alone, ReadIsCurrent
  <2>3. Exists(t)
    BY <1>3, <2>2, NotGone DEF Exists
  <2>4. Clean(t)
    BY <2>1, <2>3 DEF AloneInv, Alone
  <2>5. k \notin DOMAIN Moved
    BY <1>1, <2>1, UploadOf, FilesAssumption
  <2>6. QED
    BY <1>3, <2>2, <2>4, <2>5, FieldsOfKinds DEF Clean, Entity
<1>6. /\ thing' = [thing EXCEPT ![t] = r] /\ Ends(s)
      /\ UNCHANGED <<blob, migrated, overlaps>>
  BY DEF UploadPuts
<1> HIDE DEF t, r
<1>7. QED
  BY <1>1, <1>2, <1>3, <1>4, <1>5, <1>6, AlonePuts

LEMMA CreateCountryAlone ==
  ASSUME FilesInv, AloneInv, NEW s \in Slots, NEW t \in Things, CreateCountry(s, t)
  PROVE  AloneInv'
<1>1. KindsFit' /\ FiledAreStored'
  BY DEF AloneInv, KindsFit, FiledAreStored, CreateCountry
<1>2. ASSUME overlaps' = 0 PROVE Alone'
  <2>1. Alone /\ \A u \in Slots : req'[u] = Nil
    BY <1>2, BeginsAlone DEF FilesInv, AloneInv, CreateCountry
  <2>2. \A u \in Letters : thing'[u] = thing[u]
    BY FilesAssumption DEF CreateCountry, FilesInv, TypeOK, Things
  <2>3. \A u \in Letters : Exists(u)' = Exists(u) /\ Clean(u)' = Clean(u)
    BY <2>2 DEF Exists, Clean
  <2>4. migrated' => \A u \in Letters \cap Recent : Exists(u)' => Clean(u)'
    BY <2>1, <2>3 DEF Alone, CreateCountry
  <2>5. QED
    BY <2>1, <2>4 DEF Alone
<1>3. QED
  BY <1>1, <1>2 DEF AloneInv

LEMMA LoadsAlone ==
  ASSUME FilesInv, AloneInv, NEW s \in Slots, NEW op \in {"delete", "other"},
         NEW t \in Things, Loads(s, op, t)
  PROVE  AloneInv'
<1> DEFINE q == [op |-> op, of |-> t, key |-> Nil, found |-> Only(t), at |-> "loaded"]
<1>1. ReadIsCurrent(q) /\ UploadIsNew(q) /\ MigratesTheRest(q)
  BY DEF ReadIsCurrent, UploadIsNew, MigratesTheRest, Only, Nothing,
     Kinds, LetterKinds, CountryKinds
<1>2. /\ req' = [req EXCEPT ![s] = q] /\ UNCHANGED <<blob, thing, filed, migrated>>
      /\ req[s] = Nil /\ Free(s)
  BY DEF Loads, Begins, Free
<1>3. overlaps' = 0 => overlaps = 0 /\ \A u \in Slots : req[u] = Nil
  BY <1>2, BeginsAlone DEF FilesInv
<1> HIDE DEF q
<1>4. QED
  BY <1>1, <1>2, <1>3, AloneBegins

\* What the one request has read of an entity is what is there.
LEMMA ReadIsThere ==
  ASSUME FilesInv, AloneInv, overlaps = 0, NEW s \in Slots, req[s] # Nil,
         NEW t \in Things, req[s].found[t] # Nil
  PROVE  thing[t] = req[s].found[t] /\ thing[t] \in Entity /\ Exists(t)
<1>1. thing[t] = req[s].found[t]
  BY DEF AloneInv, Alone, ReadIsCurrent
<1>2. thing[t] \in Entity
  BY <1>1 DEF FilesInv, TypeOK, Request
<1>3. QED
  BY <1>1, <1>2, NotGone DEF Exists

LEMMA DestroysAlone ==
  ASSUME FilesInv, AloneInv, NEW s \in Slots, Destroys(s)
  PROVE  AloneInv'
<1>1. req[s] # Nil /\ req[s].of \in Things
  BY DEF FilesInv, RequestsAreSound, Sound, Destroys, At
<1>2. FiledAreStored' /\ ~ IsThere(Gone)
  BY DEF Destroys, AloneInv, FiledAreStored, IsThere
<1>3. QED
  BY <1>1, <1>2, AlonePuts DEF Destroys

LEMMA OtherPutsAlone ==
  ASSUME FilesInv, AloneInv, NEW s \in Slots, OtherPuts(s)
  PROVE  AloneInv'
<1> DEFINE t == req[s].of
           r == req[s].found[t]
<1>1. req[s] # Nil /\ req[s] \in Request /\ t \in Things /\ r # Nil
  BY DEF FilesInv, RequestsAreSound, Sound, OtherPuts, At
<1>2. r \in Entity
  BY <1>1 DEF Request
<1>3. FiledAreStored'
  BY DEF OtherPuts, AloneInv, FiledAreStored
<1>4. overlaps = 0 /\ migrated /\ t \in Letters \cap Recent =>
        \A f \in Fields : r[f] \notin DOMAIN Moved
  BY <1>1, ReadIsThere DEF AloneInv, Alone, Clean
<1>5. /\ thing' = [thing EXCEPT ![t] = r] /\ Ends(s)
      /\ UNCHANGED <<blob, migrated, overlaps>>
  BY DEF OtherPuts
<1> HIDE DEF t, r
<1>6. QED
  BY <1>1, <1>2, <1>3, <1>4, <1>5, AlonePuts

LEMMA MigrateAlone ==
  ASSUME FilesInv, AloneInv, NEW s \in Slots, Migrate(s)
  PROVE  AloneInv'
<1> DEFINE found == [t \in Things |-> IF t \in Letters \cap Recent /\ Exists(t)
                                        THEN thing[t] ELSE Nil]
           q == [op |-> "migrate", of |-> Nil, key |-> Nil, at |-> "loaded",
                 found |-> found]
<1>1. ReadIsCurrent(q) /\ UploadIsNew(q) /\ MigratesTheRest(q)
  BY DEF ReadIsCurrent, UploadIsNew, MigratesTheRest, Exists, IsThere, Things,
     Kinds, LetterKinds, CountryKinds
<1>2. /\ req' = [req EXCEPT ![s] = q] /\ UNCHANGED <<blob, thing, filed, migrated>>
      /\ Free(s)
  BY DEF Migrate, Begins
<1>3. overlaps' = 0 => overlaps = 0 /\ \A u \in Slots : req[u] = Nil
  BY <1>2, BeginsAlone DEF FilesInv
<1> HIDE DEF q
<1>4. QED
  BY <1>1, <1>2, <1>3, AloneBegins

\* A migrated letter has no key left that has a new one.
LEMMA MigratedIsClean ==
  ASSUME FilesInv, AloneInv, NEW t \in Letters, NEW r \in Entity, KeepsItsMeaning(t, r)
  PROVE  \A f \in Fields : Migrated(r)[f] \notin DOMAIN Moved
<1>1. SUFFICES ASSUME NEW f \in Fields PROVE Migrated(r)[f] \notin DOMAIN Moved
  OBVIOUS
<1>2. PICK kind \in Kinds : f = Field(kind)
  BY FieldsOfKinds
<1>3. CASE r[f] = Nil
  BY <1>3, FilesAssumption DEF Migrated, Entity, Fields, NewKey, Keys
<1>4. CASE r[f] # Nil
  <2>1. kind \in LetterKinds
    BY <1>2, <1>4, <1>1 DEF KeepsItsMeaning, AloneInv, KindsFit, KindsOf, Entity
  <2>2. f \in {"upload_file_url", "return_file_url"}
    BY <1>2, <2>1 DEF LetterKinds, Field
  <2>3. Migrated(r)[f] = NewKey(r[f])
    BY <2>2 DEF Migrated, Entity, Fields
  <2>4. QED
    BY <2>3, FilesAssumption DEF NewKey
<1>5. QED
  BY <1>3, <1>4

LEMMA MigrateLetterAlone ==
  ASSUME FilesInv, AloneInv, NEW s \in Slots, NEW t \in Things, MigrateLetter(s, t)
  PROVE  AloneInv'
<1> DEFINE r == req[s].found[t]
<1>0. PICK q : q = [req[s] EXCEPT !.found[t] = Nil]
  OBVIOUS
<1>1. /\ req[s] # Nil /\ req[s] \in Request /\ req[s].op = "migrate"
      /\ r # Nil /\ r \in Entity /\ KeepsItsMeaning(t, r)
  BY DEF FilesInv, RequestsAreSound, Sound, MigrateLetter, At, Request
<1>2. /\ UNCHANGED <<blob, filed, migrated, overlaps>>
      /\ req' = [req EXCEPT ![s] = q]
  BY <1>0 DEF MigrateLetter, FilesInv, TypeOK
<1>3. KindsFit' /\ FiledAreStored'
  BY <1>2 DEF AloneInv, KindsFit, FiledAreStored
<1>4. Migrated(r) \in Entity
  BY <1>1, MigratedKeepsMeaning DEF FilesInv
<1>5. ASSUME overlaps' = 0 PROVE Alone'
  <2>1. Alone /\ overlaps = 0
    BY <1>2, <1>5 DEF AloneInv
  <2>2. thing[t] = r /\ Exists(t)
    BY <1>1, <2>1, ReadIsThere
  <2>3. \A u \in Things : thing'[u] = IF u = t THEN Migrated(r) ELSE thing[u]
    BY <2>2 DEF MigrateLetter, FilesInv, TypeOK
  <2>4. \A u \in Slots : req'[u] # Nil => u = s /\ req'[u] = q
    BY <1>1, <1>2, <2>1 DEF FilesInv, TypeOK, Alone
  <2>5. /\ q.op = "migrate"
        /\ \A u \in Things : q.found[u] = IF u = t THEN Nil ELSE req[s].found[u]
    BY <1>0, <1>1 DEF Request
  <2>6. t \in Letters => Clean(t)'
    BY <1>1, <2>3, MigratedIsClean DEF Clean
  <2>7. \A u \in Letters : u # t => Exists(u)' = Exists(u) /\ Clean(u)' = Clean(u)
    BY <2>3 DEF Exists, Clean, Things
  <2>8. ReadIsCurrent(q)'
    BY <1>1, <2>1, <2>3, <2>5 DEF Alone, ReadIsCurrent
  <2>9. UploadIsNew(q)'
    BY <2>5 DEF UploadIsNew, Kinds, LetterKinds, CountryKinds
  <2>10. MigratesTheRest(q)'
    <3>1. MigratesTheRest(req[s])
      BY <1>1, <2>1 DEF Alone
    <3>2. ASSUME NEW u \in Letters \cap Recent, Exists(u)', q.found[u] = Nil PROVE Clean(u)'
      BY <1>1, <2>5, <2>6, <2>7, <3>1, <3>2 DEF MigratesTheRest, Things
    <3>3. QED
      BY <3>2 DEF MigratesTheRest
  <2>11. migrated' => \A u \in Letters \cap Recent : Exists(u)' => Clean(u)'
    BY <1>2, <2>1, <2>6, <2>7 DEF Alone
  <2>12. \A u \in Slots : \A p : p = req'[u] /\ p # Nil =>
          (ReadIsCurrent(p) /\ UploadIsNew(p) /\ MigratesTheRest(p))'
    BY <2>4, <2>8, <2>9, <2>10
  <2>13. \A u, v \in Slots : req'[u] # Nil /\ req'[v] # Nil => u = v
    BY <2>4
  <2>14. QED
    BY <2>11, <2>12, <2>13 DEF Alone
<1>6. QED
  BY <1>3, <1>5 DEF AloneInv

LEMMA MigrateEndsAlone ==
  ASSUME FilesInv, AloneInv, NEW s \in Slots, MigrateEnds(s)
  PROVE  AloneInv'
<1>1. req[s] # Nil /\ req[s].op = "migrate" /\ req[s].found = Nothing
  BY DEF MigrateEnds, At
<1>2. KindsFit' /\ FiledAreStored'
  BY DEF MigrateEnds, AloneInv, KindsFit, FiledAreStored
<1>3. ASSUME overlaps' = 0 PROVE Alone'
  <2>1. Alone
    BY <1>3 DEF MigrateEnds, AloneInv
  <2>2. \A u \in Slots : req'[u] = Nil
    BY <1>1, <2>1 DEF Alone, MigrateEnds, Ends, FilesInv, TypeOK
  <2>3. \A t \in Letters \cap Recent : Exists(t) => Clean(t)
    BY <1>1, <2>1 DEF Alone, MigratesTheRest, Nothing, Things
  <2>4. \A t : Exists(t)' = Exists(t) /\ Clean(t)' = Clean(t)
    BY DEF Exists, Clean, MigrateEnds
  <2>5. QED
    BY <2>2, <2>3, <2>4 DEF Alone
<1>4. QED
  BY <1>2, <1>3 DEF AloneInv

THEOREM AloneInvariant == Spec => []AloneInv
<1>1. FilesInv /\ AloneInv /\ [Next]_vars => AloneInv'
  <2>1. SUFFICES ASSUME FilesInv, AloneInv, [Next]_vars PROVE AloneInv'
    OBVIOUS
  <2>2. CASE UNCHANGED vars
    <3>1. \A q : /\ ReadIsCurrent(q) => ReadIsCurrent(q)'
                 /\ UploadIsNew(q) => UploadIsNew(q)'
                 /\ MigratesTheRest(q) => MigratesTheRest(q)'
      BY <2>2 DEF vars, ReadIsCurrent, UploadIsNew, MigratesTheRest, Exists, Clean
    <3>2. Alone => Alone'
      BY <2>2, <3>1 DEF vars, Alone, Exists, Clean
    <3>3. QED
      BY <2>1, <2>2, <3>2 DEF vars, AloneInv, KindsFit, FiledAreStored
  <2>3. ASSUME NEW s \in Slots, Step(s) PROVE AloneInv'
    <3>1. CASE \E kind \in Kinds, t \in Things, k \in Keys : BlobStored(s, kind, t, k)
      BY <2>1, <3>1, BlobStoredAlone
    <3>2. CASE NewLetter(s)
      BY <2>1, <3>2, NewLetterAlone
    <3>3. CASE LoadsForUpload(s)
      BY <2>1, <3>3, LoadsForUploadAlone
    <3>4. CASE UploadPuts(s)
      BY <2>1, <3>4, UploadPutsAlone
    <3>5. CASE \E t \in Things : CreateCountry(s, t)
      BY <2>1, <3>5, CreateCountryAlone
    <3>6. CASE \E op \in {"delete", "other"}, t \in Things : Loads(s, op, t)
      BY <2>1, <3>6, LoadsAlone
    <3>7. CASE Destroys(s)
      BY <2>1, <3>7, DestroysAlone
    <3>8. CASE OtherPuts(s)
      BY <2>1, <3>8, OtherPutsAlone
    <3>9. CASE Migrate(s)
      BY <2>1, <3>9, MigrateAlone
    <3>10. CASE \E t \in Things : MigrateLetter(s, t)
      BY <2>1, <3>10, MigrateLetterAlone
    <3>11. CASE MigrateEnds(s)
      BY <2>1, <3>11, MigrateEndsAlone
    <3>12. CASE Abort(s)
      BY <2>1, <3>12, AloneGoesOn DEF Abort, Ends
    <3>13. QED
      BY <2>3, <3>1, <3>2, <3>3, <3>4, <3>5, <3>6, <3>7, <3>8, <3>9, <3>10, <3>11, <3>12
         DEF Step
  <2>4. QED
    BY <2>1, <2>2, <2>3 DEF Next
<1>2. QED
  BY InitAlone, FilesInvariant, <1>1, PTL DEF Spec

\* After one whole migration that nothing overlapped, no recent letter is
\* left with an old key that has a new one.
THEOREM MigrationIsComplete == Spec => []MigrationLeavesNone
<1>1. AloneInv => MigrationLeavesNone
  BY DEF AloneInv, Alone, Clean, MigrationLeavesNone
<1>2. QED
  BY AloneInvariant, <1>1, PTL

-----------------------------------------------------------------------------
(***************************************************************************)
(* The shelf.                                                              *)
(***************************************************************************)
FilesIn(r) == [kind \in Kinds |-> IF r[Field(kind)] = Nil THEN Nil ELSE blob[r[Field(kind)]]]

LEMMA ShelfThere ==
  ASSUME FilesInv, NEW t \in Things
  PROVE  /\ Exists(t) => shelf[t] = FilesIn(thing[t]) /\ Shelf!IsThere(t)
         /\ ~ Exists(t) => shelf[t] = thing[t]
<1>1. shelf[t] = FilesOf(t)
  BY DEF shelf
<1>2. ASSUME Exists(t) PROVE FilesIn(thing[t]) \in [Kinds -> File \cup {Nil}]
  <2>1. thing[t] \in Entity
    BY <1>2 DEF FilesInv, TypeOK, Exists, IsThere
  <2>2. QED
    BY <2>1, FieldsOfKinds DEF FilesIn, Entity, FilesInv, TypeOK
<1>3. Exists(t) => FilesOf(t) = FilesIn(thing[t])
  BY DEF FilesOf, FilesIn
<1>4. ~ Exists(t) => FilesOf(t) = thing[t]
  BY DEF FilesOf
<1>5. QED
  BY <1>1, <1>2, <1>3, <1>4, FilesAssumption DEF Shelf!IsThere

\* Storing a blob moves nothing, nor does a step that touches no entity.
LEMMA ShelfStays ==
  ASSUME FilesInv, UNCHANGED thing,
         \A k \in Keys : blob[k] # Nil => blob'[k] = blob[k]
  PROVE  UNCHANGED shelf
<1>1. SUFFICES ASSUME NEW t \in Things PROVE FilesOf(t)' = FilesOf(t)
  BY DEF shelf
<1>2. CASE Exists(t)
  <2>1. thing[t] \in Entity /\ KeepsItsMeaning(t, thing[t])
    BY <1>2 DEF FilesInv, TypeOK, FilesKeepTheirMeaning, Exists, IsThere
  <2>2. \A kind \in Kinds : thing[t][Field(kind)] # Nil =>
           blob'[thing[t][Field(kind)]] = blob[thing[t][Field(kind)]]
    BY <2>1, FieldsOfKinds DEF KeepsItsMeaning, Entity
  <2>3. QED
    BY <1>2, <2>2 DEF FilesOf, Exists
<1>3. CASE ~ Exists(t)
  BY <1>3 DEF FilesOf, Exists
<1>4. QED
  BY <1>2, <1>3

LEMMA ShelfPut ==
  ASSUME FilesInv, UNCHANGED blob, NEW t \in Things, NEW r,
         thing' = [thing EXCEPT ![t] = r]
  PROVE  shelf' = [shelf EXCEPT ![t] = IF IsThere(r) THEN FilesIn(r) ELSE r]
<1>1. \A u \in Things : thing'[u] = IF u = t THEN r ELSE thing[u]
  BY DEF FilesInv, TypeOK
<1>2. \A u \in Things : FilesOf(u)' = IF u = t THEN (IF IsThere(r) THEN FilesIn(r) ELSE r)
                                               ELSE FilesOf(u)
  BY <1>1 DEF FilesOf, FilesIn, Exists, IsThere
<1>3. QED
  BY <1>2 DEF shelf

\* Setting the property of a kind puts a file in the place of that kind.
LEMMA FilesInSet ==
  ASSUME NEW r \in Entity, NEW kind \in Kinds, NEW k \in Keys
  PROVE  FilesIn([r EXCEPT ![Field(kind)] = k]) = [FilesIn(r) EXCEPT ![kind] = blob[k]]
<1> DEFINE q == [r EXCEPT ![Field(kind)] = k]
<1>1. \A j \in Kinds : q[Field(j)] = IF j = kind THEN k ELSE r[Field(j)]
  BY FieldsOfKinds DEF Entity
<1>2. k # Nil
  BY FilesAssumption
<1> HIDE DEF q
<1>3. FilesIn(q) = [FilesIn(r) EXCEPT ![kind] = blob[k]]
  BY <1>1, <1>2 DEF FilesIn
<1>4. QED
  BY <1>3 DEF q

LEMMA NewLetterShelf ==
  ASSUME FilesInv, AloneInv, overlaps = 0, NEW s \in Slots, NewLetter(s)
  PROVE  \E t \in Things : Shelf!Appears(t)
<1> DEFINE t == req[s].of
           k == req[s].key
           r == [Blank EXCEPT ![Field("scan")] = k]
<1>1. req[s] # Nil /\ req[s].op = "scan" /\ "scan" \in Kinds
  BY DEF NewLetter, At, Kinds, LetterKinds
<1>2. /\ t \in Things /\ k \in Keys /\ blob[k] \in File
      /\ blob[k].kind = "scan" /\ blob[k].of = t
      /\ blob[k] \notin filed /\ thing[t] = Nil
  BY <1>1, UploadOf DEF AloneInv, Alone, UploadIsNew
<1>3. shelf[t] = Nil
  BY <1>2, ShelfThere DEF Exists, IsThere
<1>4. r \in Entity
  BY <1>1, <1>2, BlankIsEntity, FieldsOfKinds DEF Entity
<1>5. FilesIn(Blank) = Shelf!Empty
  BY FieldsOfKinds DEF FilesIn, Blank, Shelf!Empty
<1>6. FilesIn(r) = [Shelf!Empty EXCEPT !["scan"] = blob[k]]
  BY <1>1, <1>2, <1>5, BlankIsEntity, FilesInSet
<1>7. thing' = [thing EXCEPT ![t] = r] /\ UNCHANGED blob /\ filed' = filed \cup {blob[k]}
  BY DEF NewLetter
<1>8. shelf' = [shelf EXCEPT ![t] = FilesIn(r)]
  <2> HIDE DEF r, t
  <2>1. shelf' = [shelf EXCEPT ![t] = IF IsThere(r) THEN FilesIn(r) ELSE r]
    BY <1>2, <1>7, ShelfPut
  <2>2. QED
    BY <2>1, <1>4, NotGone
<1>9. blob[k] \in Shelf!File
  BY <1>2 DEF Shelf!File, File
<1>10. Shelf!Appears(t)
  BY <1>2, <1>3, <1>6, <1>7, <1>8, <1>9 DEF Shelf!Appears
<1>11. QED
  BY <1>2, <1>10

LEMMA UploadPutsShelf ==
  ASSUME FilesInv, AloneInv, overlaps = 0, NEW s \in Slots, UploadPuts(s)
  PROVE  \E t \in Things : Shelf!Files(t)
<1> DEFINE t == req[s].of
           k == req[s].key
           op == req[s].op
           r == [req[s].found[t] EXCEPT ![Field(op)] = k]
<1>1. /\ req[s] # Nil /\ op \in Kinds /\ req[s].found[t] # Nil
      /\ t \in Things /\ k \in Keys
  BY DEF UploadPuts, At, FilesInv, RequestsAreSound, Sound
<1>2. /\ blob[k] \in File /\ blob[k].kind = op /\ blob[k].of = t /\ blob[k] \notin filed
  BY <1>1, UploadOf DEF AloneInv, Alone, UploadIsNew
<1>3. thing[t] = req[s].found[t] /\ thing[t] \in Entity /\ Exists(t)
  BY <1>1, ReadIsThere
<1>4. shelf[t] = FilesIn(thing[t]) /\ Shelf!IsThere(t)
  BY <1>1, <1>3, ShelfThere
<1>5. r \in Entity
  BY <1>1, <1>3, FieldsOfKinds DEF Entity
<1>6. FilesIn(r) = [shelf[t] EXCEPT ![op] = blob[k]]
  BY <1>1, <1>3, <1>4, FilesInSet
<1>7. thing' = [thing EXCEPT ![t] = r] /\ UNCHANGED blob /\ filed' = filed \cup {blob[k]}
  BY DEF UploadPuts
<1>8. shelf' = [shelf EXCEPT ![t] = FilesIn(r)]
  <2> HIDE DEF r, t
  <2>1. shelf' = [shelf EXCEPT ![t] = IF IsThere(r) THEN FilesIn(r) ELSE r]
    BY <1>1, <1>7, ShelfPut
  <2>2. QED
    BY <2>1, <1>5, NotGone
<1>9. blob[k] \in Shelf!File
  BY <1>2 DEF Shelf!File, File
<1>10. shelf' = [shelf EXCEPT ![t][blob[k].kind] = blob[k]]
  BY <1>2, <1>6, <1>8
<1>11. Shelf!Files(t)
  BY <1>2, <1>4, <1>7, <1>9, <1>10 DEF Shelf!Files
<1>12. QED
  BY <1>1, <1>11

\* Migrating a letter moves nothing.
LEMMA MigrateLetterShelf ==
  ASSUME FilesInv, AloneInv, overlaps = 0, NEW s \in Slots, NEW t \in Things,
         MigrateLetter(s, t)
  PROVE  UNCHANGED shelf
<1> DEFINE r == req[s].found[t]
<1>1. req[s] # Nil /\ r # Nil /\ UNCHANGED blob
  BY DEF MigrateLetter, At
<1>2. thing[t] = r /\ thing[t] \in Entity /\ Exists(t) /\ KeepsItsMeaning(t, r)
  BY <1>1, ReadIsThere DEF FilesInv, FilesKeepTheirMeaning
<1>3. CASE Migrated(r) = r
  BY <1>1, <1>3, ShelfStays DEF MigrateLetter
<1>4. CASE Migrated(r) # r
  <2>1. thing' = [thing EXCEPT ![t] = Migrated(r)]
    BY <1>4 DEF MigrateLetter
  <2>2. Migrated(r) \in Entity
    BY <1>2, MigratedKeepsMeaning DEF FilesInv
  <2>3. FilesIn(Migrated(r)) = FilesIn(r)
    <3>1. \A f \in Fields : \/ Migrated(r)[f] = r[f]
                             \/ /\ r[f] # Nil /\ Migrated(r)[f] # Nil
                                /\ blob[Migrated(r)[f]] = blob[r[f]]
      BY <1>2, FilesAssumption
         DEF Migrated, Entity, Fields, NewKey, FilesInv, CopiesAreEqual, Keys
    <3>2. \A kind \in Kinds :
             (IF Migrated(r)[Field(kind)] = Nil THEN Nil ELSE blob[Migrated(r)[Field(kind)]])
               = IF r[Field(kind)] = Nil THEN Nil ELSE blob[r[Field(kind)]]
      BY <3>1, FieldsOfKinds
    <3>3. QED
      BY <3>2 DEF FilesIn
  <2>4. shelf' = [shelf EXCEPT ![t] = FilesIn(Migrated(r))]
    <3>1. PICK q : q = Migrated(r)
      OBVIOUS
    <3>2. shelf' = [shelf EXCEPT ![t] = IF IsThere(q) THEN FilesIn(q) ELSE q]
      BY <1>1, <2>1, <3>1, ShelfPut
    <3>3. QED
      BY <2>2, <3>1, <3>2, NotGone
  <2>5. shelf[t] = FilesIn(r)
    BY <1>2, ShelfThere
  <2>6. QED
    BY <2>3, <2>4, <2>5 DEF shelf
<1>5. QED
  BY <1>3, <1>4

\* As long as no two requests overlap, every step is a step of the shelf or
\* moves nothing.
THEOREM FilesImplementShelf == Spec => ShelfUnlessRaced
<1>1. FilesInv /\ AloneInv /\ [Next]_vars =>
        [overlaps' = 0 => Shelf!Next \/ UNCHANGED shelf]_vars
  <2>1. SUFFICES ASSUME FilesInv, AloneInv, NEW s \in Slots, Step(s), overlaps' = 0
                 PROVE  Shelf!Next \/ UNCHANGED shelf
    BY DEF Next
  <2>2. CASE \E kind \in Kinds, t \in Things, k \in Keys : BlobStored(s, kind, t, k)
    <3>1. UNCHANGED thing /\ \A k \in Keys : blob[k] # Nil => blob'[k] = blob[k]
      BY <2>1, <2>2 DEF BlobStored, FilesInv, TypeOK
    <3>2. QED
      BY <2>1, <3>1, ShelfStays
  <2>3. CASE NewLetter(s)
    <3>1. overlaps = 0
      BY <2>1, <2>3 DEF NewLetter
    <3>2. QED
      BY <2>1, <2>3, <3>1, NewLetterShelf DEF Shelf!Next
  <2>4. CASE UploadPuts(s)
    <3>1. overlaps = 0
      BY <2>1, <2>4 DEF UploadPuts
    <3>2. QED
      BY <2>1, <2>4, <3>1, UploadPutsShelf DEF Shelf!Next
  <2>5. CASE \E t \in Things : CreateCountry(s, t)
    <3>1. PICK t \in Things : CreateCountry(s, t)
      BY <2>5
    <3>2. shelf' = [shelf EXCEPT ![t] = FilesIn(Blank)]
      <4>1. shelf' = [shelf EXCEPT ![t] = IF IsThere(Blank) THEN FilesIn(Blank) ELSE Blank]
        BY <2>1, <3>1, ShelfPut DEF CreateCountry
      <4>2. QED
        BY <4>1, BlankIsEntity, NotGone
    <3>3. FilesIn(Blank) = Shelf!Empty
      BY FieldsOfKinds DEF FilesIn, Blank, Shelf!Empty
    <3>4. shelf[t] = Nil
      BY <2>1, <3>1, ShelfThere DEF CreateCountry, Exists, IsThere
    <3>5. Shelf!Appears(t)
      BY <3>1, <3>2, <3>3, <3>4 DEF CreateCountry, Shelf!Appears
    <3>6. QED
      BY <3>5 DEF Shelf!Next
  <2>6. CASE Destroys(s)
    <3>1. /\ req[s] # Nil /\ req[s].of \in Things /\ req[s].found[req[s].of] # Nil
          /\ overlaps = 0
      BY <2>1, <2>6 DEF Destroys, At, FilesInv, RequestsAreSound, Sound
    <3>2. Shelf!IsThere(req[s].of)
      BY <2>1, <3>1, ReadIsThere, ShelfThere
    <3>3. shelf' = [shelf EXCEPT ![req[s].of] = Gone]
      <4>1. shelf' = [shelf EXCEPT ![req[s].of] = IF IsThere(Gone) THEN FilesIn(Gone) ELSE Gone]
        BY <2>1, <2>6, <3>1, ShelfPut DEF Destroys
      <4>2. QED
        BY <4>1 DEF IsThere
    <3>4. Shelf!Removed(req[s].of)
      BY <2>6, <3>2, <3>3 DEF Destroys, Shelf!Removed
    <3>5. QED
      BY <3>1, <3>4 DEF Shelf!Next
  <2>7. CASE OtherPuts(s)
    <3>1. /\ req[s] # Nil /\ req[s].of \in Things /\ req[s].found[req[s].of] # Nil
          /\ overlaps = 0
      BY <2>1, <2>7 DEF OtherPuts, At, FilesInv, RequestsAreSound, Sound
    <3>2. thing[req[s].of] = req[s].found[req[s].of]
      BY <2>1, <3>1, ReadIsThere
    <3>3. UNCHANGED thing /\ UNCHANGED blob
      BY <2>1, <2>7, <3>1, <3>2 DEF OtherPuts, FilesInv, TypeOK
    <3>4. QED
      BY <2>1, <3>3, ShelfStays
  <2>8. CASE \E t \in Things : MigrateLetter(s, t)
    <3>1. overlaps = 0
      BY <2>1, <2>8 DEF MigrateLetter
    <3>2. QED
      BY <2>1, <2>8, <3>1, MigrateLetterShelf
  <2>9. CASE \/ LoadsForUpload(s)
             \/ \E op \in {"delete", "other"}, t \in Things : Loads(s, op, t)
             \/ Migrate(s)
             \/ MigrateEnds(s)
             \/ Abort(s)
    <3>1. UNCHANGED <<blob, thing>>
      BY <2>9 DEF LoadsForUpload, Loads, Migrate, MigrateEnds, Abort
    <3>2. QED
      BY <2>1, <3>1, ShelfStays
  <2>10. QED
    BY <2>1, <2>2, <2>3, <2>4, <2>5, <2>6, <2>7, <2>8, <2>9 DEF Step
<1>2. QED
  BY FilesInvariant, AloneInvariant, <1>1, PTL DEF Spec, ShelfUnlessRaced
=============================================================================
